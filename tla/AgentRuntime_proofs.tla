-------------------------- MODULE AgentRuntime_proofs --------------------------
(***************************************************************************)
(* What is proved of AgentRuntime, and of the calls of Datasources and     *)
(* Queries that it stands among, for all workers, datasources, schemas and *)
(* limits.                                                                 *)
(*                                                                         *)
(* A step of any call does one of a few things to what all of them share:  *)
(* Grows says what.  The registrations stay, with their password, and a    *)
(* catalog that is there stays there; so what a bootstrap has found out of *)
(* a datasource is still so at its next call, whatever others did between. *)
(***************************************************************************)
EXTENDS AgentRuntime, FiniteSetTheorems, TLAPS

Making == {"secret", "writing", "row"}
Reading == {"introspect", "introspected", "deleted"}
Steps == RegistryStep \cup QueryStep \cup ContextStep

-------------------------------------------------------------------------------
(* The inductive invariant.                                                *)

\* A datasource that is being made is nobody else's, and has no row yet; its
\* password is in the file before the row is due.
MakingInv ==
    /\ rows \subseteq {created[i] : i \in DOMAIN created}
    /\ \A w \in Workers : at[w] \in Making =>
          /\ on[w] \in {created[i] : i \in DOMAIN created} \ rows
          /\ at[w] = "row" => secrets[on[w]] = given[w]
    /\ \A v, w \in Workers :
          at[v] \in Making /\ at[w] \in Making /\ v # w => on[v] # on[w]

\* A refresh is of a registered datasource, and has read a schema that the
\* database had since it began.
ReadingInv ==
    \A w \in Workers : at[w] \in Reading =>
        /\ on[w] \in rows
        /\ since[w] \in 1 .. live
        /\ at[w] # "introspect" => held[w] >= since[w]

\* What a query has come to, at each of its steps.
Checked == {"checked", "recorded", "ran", "fetched", "registered"}

QueryAt(w) ==
    /\ at[w] # "answered" =>
          /\ answer[w] = "none"
          /\ text[w] <=> (at[w] \in {"recorded", "ran", "fetched", "registered"})
          /\ ran[w] <=> (at[w] \in {"ran", "fetched", "registered"})
          /\ result[w] <=> (at[w] = "registered")
    /\ at[w] \in {"validated"} \cup Checked =>
          (tool[w] = "datasource.query" => Limit(w) <= EngineMax)
    /\ at[w] \in Checked => valid[w] /\ Limit(w) \in 1 .. maximum[w]
    /\ ran[w] => /\ text[w] /\ valid[w]
                 /\ Limit(w) \in 1 .. maximum[w]
                 /\ tool[w] = "datasource.query" => Limit(w) <= EngineMax
    /\ answer[w] = "result" => ran[w] /\ text[w] /\ result[w]
    /\ answer[w] = "named error" => text[w] /\ ~result[w]
    /\ answer[w] = "refused" => ~ran[w] /\ ~text[w] /\ ~result[w]

QueryInv == \A w \in Workers : QueryAt(w)

\* What a bootstrap knows of its datasource before each of its calls.
Ready(d) == d \in rows /\ secrets[d] = "right" /\ catalog[d] # 0

BootAt(w) ==
    /\ boot[w] = "none" => source[w] = "cli"
    /\ boot[w] \in {"list", "test", "run"} => at[w] = "idle"
    /\ boot[w] = "create" => at[w] \in {"idle"} \cup Making /\ ~late[w]
    /\ boot[w] = "list" /\ late[w] => rows # {}
    /\ boot[w] \in {"test", "refresh"} => found[w] \in rows
    /\ boot[w] = "refresh" =>
          /\ secrets[found[w]] = "right"
          /\ at[w] \in {"idle"} \cup Reading
          /\ at[w] # "idle" => on[w] = found[w]
    /\ boot[w] = "run" /\ source[w] = "env" => Ready(found[w])

BootInv == \A w \in Workers : BootAt(w)

\* Of the calls of Datasources alone.
DatasourcesInv ==
    /\ DatasourcesTypeOK
    /\ at \in [Workers -> Steps]
    /\ MakingInv /\ ReadingInv /\ DatasourcesAreUsable

\* Queries alone has these.
QueryTypes ==
    /\ maximum \in [Workers -> Maxima]
    /\ tool \in [Workers -> Tool]
    /\ asked \in [Workers -> Limits]
    /\ valid \in [Workers -> BOOLEAN]
    /\ text \in [Workers -> BOOLEAN]
    /\ ran \in [Workers -> BOOLEAN]
    /\ result \in [Workers -> BOOLEAN]
    /\ answer \in [Workers -> Answer]

\* A context is advised on a registered datasource, when all has been read.
ContextAt(w) ==
    /\ at[w] \in ContextStep => on[w] \in rows
    /\ at[w] = "advised" => Complete(question[w], seen[w])

ContextInv == \A w \in Workers : ContextAt(w)

RuntimeTypes ==
    /\ boot \in [Workers -> Boot]
    /\ password \in [Workers -> Password]
    /\ found \in [Workers -> Ids \cup {None}]
    /\ late \in [Workers -> BOOLEAN]
    /\ source \in [Workers -> Source]
    /\ runs \subseteq Ids

IInv ==
    /\ DatasourcesInv
    /\ QueryTypes /\ QueryInv
    /\ ContextTypeOK /\ ContextInv
    /\ RuntimeTypes /\ BootInv /\ EnvRunsAreReady

\* What any step does, of what the others rely on.
Grows ==
    /\ rows \subseteq rows'
    /\ \A d \in rows : secrets'[d] = secrets[d]
    /\ \A d \in Ids : catalog[d] # 0 => catalog'[d] # 0

\* What it leaves alone of the other workers' calls.
Own(w) ==
    \A v \in Workers \ {w} :
        /\ at'[v] = at[v] /\ on'[v] = on[v] /\ given'[v] = given[v]
        /\ since'[v] = since[v] /\ held'[v] = held[v]

OwnContext(w) ==
    \A v \in Workers \ {w} : question'[v] = question[v] /\ seen'[v] = seen[v]

OwnQuery(w) ==
    \A v \in Workers \ {w} :
        /\ maximum'[v] = maximum[v] /\ tool'[v] = tool[v] /\ asked'[v] = asked[v]
        /\ valid'[v] = valid[v] /\ text'[v] = text[v] /\ ran'[v] = ran[v]
        /\ result'[v] = result[v] /\ answer'[v] = answer[v]

OwnBootstrap(w) ==
    \A v \in Workers \ {w} :
        /\ boot'[v] = boot[v] /\ password'[v] = password[v] /\ found'[v] = found[v]
        /\ late'[v] = late[v] /\ source'[v] = source[v]

\* A step of w's query; it touches nothing that is stored.
QueryStepOf(w) ==
    /\ UNCHANGED store /\ Own(w) /\ OwnQuery(w)
    /\ at' \in [Workers -> Steps] /\ at'[w] \in {"idle"} \cup QueryStep
    /\ on' \in [Workers -> Ids \cup {None}] /\ given' \in [Workers -> Password]
    /\ since' \in [Workers -> Version] /\ held' \in [Workers -> Version]
    /\ QueryTypes' /\ QueryAt(w)'

-------------------------------------------------------------------------------
(* The calls of Datasources.                                               *)

\* A step that leaves the store alone, of a worker that has no transaction
\* and comes to no step of create_datasource or refresh_catalog.
LEMMA AsideStep ==
    ASSUME DatasourcesInv, NEW w \in Workers, at[w] # "deleted",
           UNCHANGED store, Own(w),
           at' \in [Workers -> Steps], at'[w] \notin Making \cup Reading,
           on' \in [Workers -> Ids \cup {None}], given' \in [Workers -> Password],
           since' \in [Workers -> Version], held' \in [Workers -> Version]
    PROVE  DatasourcesInv' /\ Grows
<1>1. DatasourcesTypeOK' /\ (at \in [Workers -> Steps])'
    BY BoundAssumption DEF DatasourcesInv, DatasourcesTypeOK, store, Own, Version
<1>2. MakingInv'
    BY DEF DatasourcesInv, MakingInv, store, Own
<1>3. ReadingInv'
    BY DEF DatasourcesInv, ReadingInv, store, Own
<1>4. DatasourcesAreUsable' /\ Grows
    BY DEF DatasourcesInv, DatasourcesAreUsable, store, Grows
<1> QED BY <1>1, <1>2, <1>3, <1>4 DEF DatasourcesInv

\* Leaving a call.
LEMMA LeaveTypes ==
    ASSUME DatasourcesInv, NEW w \in Workers, Leave(w)
    PROVE  /\ Own(w)
           /\ at' \in [Workers -> Steps] /\ at'[w] = "idle"
           /\ on' \in [Workers -> Ids \cup {None}] /\ given' \in [Workers -> Password]
           /\ since' \in [Workers -> Version] /\ held' \in [Workers -> Version]
BY BoundAssumption DEF DatasourcesInv, DatasourcesTypeOK, Leave, Goto, Own, Steps, RegistryStep,
       Password, Version

\* So with what is left unchanged of a call that goes on.
LEMMA GotoTypes ==
    ASSUME DatasourcesInv, NEW w \in Workers, NEW s \in Steps, Goto(w, s), UNCHANGED local
    PROVE  /\ Own(w)
           /\ at' \in [Workers -> Steps] /\ at'[w] = s
           /\ on' \in [Workers -> Ids \cup {None}] /\ given' \in [Workers -> Password]
           /\ since' \in [Workers -> Version] /\ held' \in [Workers -> Version]
BY DEF DatasourcesInv, DatasourcesTypeOK, Goto, Own, local

LEMMA AlterStep ==
    ASSUME DatasourcesInv, Alter
    PROVE  DatasourcesInv' /\ Grows /\ UNCHANGED <<at, local>>
<1>1. live \in Nat /\ live' \in Nat /\ live <= live' /\ live' \in Version \ {0}
    BY BoundAssumption DEF DatasourcesInv, DatasourcesTypeOK, Alter, Version
<1>2. /\ UNCHANGED <<created, secrets, rows, catalog, begun, lock, at>>
      /\ UNCHANGED <<on, given, since, held>>
    BY DEF Alter, local
<1>3. DatasourcesTypeOK' /\ (at \in [Workers -> Steps])'
    BY <1>1, <1>2 DEF DatasourcesInv, DatasourcesTypeOK
<1>4. MakingInv'
    BY <1>2 DEF DatasourcesInv, MakingInv
<1>5. ReadingInv'
    <2> SUFFICES ASSUME NEW v \in Workers, at[v] \in Reading
                 PROVE  on[v] \in rows /\ since[v] \in 1 .. live'
                        /\ (at[v] # "introspect" => held[v] >= since[v])
        BY <1>2 DEF ReadingInv
    <2>1. on[v] \in rows /\ since[v] \in 1 .. live /\ (at[v] # "introspect" => held[v] >= since[v])
        BY DEF DatasourcesInv, ReadingInv
    <2> QED BY <2>1, <1>1
<1>6. DatasourcesAreUsable' /\ Grows
    BY <1>2 DEF DatasourcesInv, DatasourcesAreUsable, Grows
<1> QED BY <1>2, <1>3, <1>4, <1>5, <1>6 DEF DatasourcesInv, local

\* create_datasource draws an id that nobody has.
LEMMA CreateStep ==
    ASSUME DatasourcesInv, NEW w \in Workers, NEW d \in Ids, NEW p \in Password, Create(w, d, p)
    PROVE  DatasourcesInv' /\ Grows /\ Own(w) /\ at'[w] = "secret"
<1>1. /\ at[w] = "idle" /\ d \notin {created[i] : i \in DOMAIN created}
      /\ created' = Append(created, d)
      /\ at' = [at EXCEPT ![w] = "secret"]
      /\ on' = [on EXCEPT ![w] = d]
      /\ given' = [given EXCEPT ![w] = p]
      /\ UNCHANGED <<live, secrets, rows, catalog, begun, lock, since, held>>
    BY DEF Create, ToSet, Goto, Then
<1>2. created \in Seq(Ids) /\ at \in [Workers -> Steps]
    BY DEF DatasourcesInv, DatasourcesTypeOK
<1>3. /\ created' \in Seq(Ids)
      /\ {created'[i] : i \in DOMAIN created'} = {created[i] : i \in DOMAIN created} \cup {d}
    <2>1. /\ created' \in Seq(Ids) /\ Len(created') = Len(created) + 1
          /\ \A i \in 1 .. Len(created) : created'[i] = created[i]
          /\ created'[Len(created) + 1] = d
        BY <1>1, <1>2
    <2>2. DOMAIN created = 1 .. Len(created) /\ DOMAIN created' = 1 .. (Len(created) + 1)
          /\ Len(created) \in Nat
        BY <1>2, <2>1
    <2> QED BY <2>1, <2>2
<1>4. Own(w) /\ at'[w] = "secret" /\ on'[w] = d
    BY <1>1, <1>2 DEF Own, DatasourcesInv, DatasourcesTypeOK
<1>5. DatasourcesTypeOK' /\ (at \in [Workers -> Steps])'
    <2>1. lock # None => lock \in Workers /\ at[lock] = "deleted" /\ lock # w
        BY <1>1 DEF DatasourcesInv, DatasourcesTypeOK
    <2> QED BY <1>1, <1>2, <1>3, <2>1
            DEF DatasourcesInv, DatasourcesTypeOK, Steps, RegistryStep, Password
<1>6. MakingInv'
    <2>1. rows' \subseteq {created'[i] : i \in DOMAIN created'}
        BY <1>1, <1>3 DEF DatasourcesInv, MakingInv
    <2>2. ASSUME NEW v \in Workers, at'[v] \in Making
          PROVE  /\ on'[v] \in {created'[i] : i \in DOMAIN created'} \ rows'
                 /\ at'[v] = "row" => secrets'[on'[v]] = given'[v]
        <3>1. CASE v = w
            BY <3>1, <1>1, <1>3, <1>4 DEF DatasourcesInv, MakingInv
        <3>2. CASE v # w
            <4>1. /\ at'[v] = at[v] /\ on'[v] = on[v] /\ given'[v] = given[v]
                  /\ secrets' = secrets /\ rows' = rows
                BY <3>2, <1>1, <1>4 DEF Own
            <4>2. /\ on[v] \in {created[i] : i \in DOMAIN created} \ rows
                  /\ at[v] = "row" => secrets[on[v]] = given[v]
                BY <2>2, <4>1 DEF DatasourcesInv, MakingInv
            <4> QED BY <4>1, <4>2, <1>3
        <3> QED BY <3>1, <3>2
    <2>3. \A v \in Workers \ {w} : at'[v] \in Making => on'[v] # d
        BY <1>1, <1>4 DEF DatasourcesInv, MakingInv, Own
    <2>4. ASSUME NEW v \in Workers, NEW x \in Workers, at'[v] \in Making, at'[x] \in Making, v # x
          PROVE  on'[v] # on'[x]
        BY <2>3, <2>4, <1>4 DEF DatasourcesInv, MakingInv, Own
    <2> QED BY <2>1, <2>2, <2>4 DEF MakingInv
<1>7. ReadingInv'
    <2>1. \A v \in Workers : at'[v] \in Reading => v # w
        BY <1>4 DEF Reading
    <2> QED BY <1>1, <1>4, <2>1 DEF DatasourcesInv, ReadingInv, Own
<1>8. DatasourcesAreUsable' /\ Grows
    BY <1>1 DEF DatasourcesInv, DatasourcesAreUsable, Grows
<1> QED BY <1>4, <1>5, <1>6, <1>7, <1>8 DEF DatasourcesInv

\* What the two writes of a password have in common.
LEMMA SecretStep ==
    ASSUME DatasourcesInv, NEW w \in Workers, at[w] \in {"secret", "writing"},
           NEW s \in {"writing", "row"}, Goto(w, s),
           NEW p \in {"partial"} \cup Password, s = "row" => p = given[w],
           secrets' = [secrets EXCEPT ![on[w]] = p],
           UNCHANGED <<live, created, rows, catalog, begun, lock, local>>
    PROVE  DatasourcesInv' /\ Grows /\ Own(w) /\ at'[w] = s /\ UNCHANGED local
<1>1. /\ UNCHANGED <<live, created, rows, catalog, begun, lock>>
      /\ UNCHANGED <<on, given, since, held>>
      /\ at' = [at EXCEPT ![w] = s]
    BY DEF local, Goto
<1>2. /\ at \in [Workers -> Steps] /\ secrets \in [Ids -> {"none", "partial"} \cup Password]
      /\ on[w] \notin rows /\ rows \subseteq Ids
    BY DEF DatasourcesInv, DatasourcesTypeOK, MakingInv, Making
<1>3. Own(w) /\ at'[w] = s /\ on'[w] = on[w] /\ UNCHANGED local
    BY <1>1, <1>2 DEF Own, local
<1>4. /\ secrets' \in [Ids -> {"none", "partial"} \cup Password]
      /\ \A d \in Ids \ {on[w]} : secrets'[d] = secrets[d]
      /\ on[w] \in Ids => secrets'[on[w]] = p
    BY <1>2
<1>5. DatasourcesTypeOK' /\ (at \in [Workers -> Steps])'
    <2>1. lock # None => lock \in Workers /\ at[lock] = "deleted" /\ lock # w
        BY DEF DatasourcesInv, DatasourcesTypeOK
    <2>2. (lock # None => at[lock] = "deleted")'
        BY <2>1, <1>1, <1>3 DEF Own
    <2>3. at' \in [Workers -> Steps]
        BY <1>1, <1>2 DEF Steps, RegistryStep
    <2> QED BY <1>1, <1>4, <2>2, <2>3 DEF DatasourcesInv, DatasourcesTypeOK
<1>6. MakingInv'
    <2>1. ASSUME NEW v \in Workers, at'[v] \in Making
          PROVE  /\ on[v] \in {created[i] : i \in DOMAIN created} \ rows
                 /\ at'[v] = "row" => secrets'[on[v]] = given[v]
        <3>1. at[v] \in Making
            BY <2>1, <1>3 DEF Own, Making
        <3>2. /\ on[v] \in {created[i] : i \in DOMAIN created} \ rows
              /\ at[v] = "row" => secrets[on[v]] = given[v]
              /\ v # w => on[v] # on[w]
            BY <3>1 DEF DatasourcesInv, MakingInv, Making
        <3>3. on[v] \in Ids
            BY <3>2 DEF DatasourcesInv, DatasourcesTypeOK
        <3>4. CASE v = w
            BY <3>4, <3>2, <3>3, <1>3, <1>4
        <3>5. CASE v # w
            BY <3>5, <3>2, <3>3, <1>3, <1>4 DEF Own
        <3> QED BY <3>4, <3>5
    <2>2. \A v \in Workers : at'[v] \in Making => at[v] \in Making
        BY <1>3 DEF Own, Making
    <2> QED BY <2>1, <2>2, <1>1 DEF DatasourcesInv, MakingInv
<1>7. ReadingInv'
    <2>1. \A v \in Workers : at'[v] \in Reading => at'[v] = at[v]
        BY <1>3 DEF Reading, Own
    <2> QED BY <1>1, <2>1 DEF DatasourcesInv, ReadingInv
<1>8. DatasourcesAreUsable' /\ Grows
    <2>1. \A d \in rows : secrets'[d] = secrets[d]
        BY <1>2, <1>4
    <2> QED BY <2>1, <1>1 DEF DatasourcesInv, DatasourcesAreUsable, Grows
<1> QED BY <1>3, <1>5, <1>6, <1>7, <1>8 DEF DatasourcesInv

LEMMA OpenSecretStep ==
    ASSUME DatasourcesInv, NEW w \in Workers, OpenSecret(w)
    PROVE  DatasourcesInv' /\ Grows /\ Own(w) /\ at'[w] = "writing" /\ UNCHANGED local
BY SecretStep DEF OpenSecret

LEMMA FillSecretStep ==
    ASSUME DatasourcesInv, NEW w \in Workers, FillSecret(w)
    PROVE  DatasourcesInv' /\ Grows /\ Own(w) /\ at'[w] = "row" /\ UNCHANGED local
<1>1. /\ at[w] = "writing" /\ secrets' = [secrets EXCEPT ![on[w]] = given[w]]
      /\ Goto(w, "row") /\ UNCHANGED <<live, created, rows, catalog, begun, lock, local>>
    BY DEF FillSecret, Continue, Then
<1>2. given[w] \in Password
    BY DEF DatasourcesInv, DatasourcesTypeOK
<1> QED BY <1>1, <1>2, SecretStep

\* The row is inserted when the password is in its file.
LEMMA InsertRowStep ==
    ASSUME DatasourcesInv, NEW w \in Workers, InsertRow(w)
    PROVE  /\ DatasourcesInv' /\ Grows /\ Own(w) /\ at'[w] = "idle"
           /\ on[w] \in rows'
<1>1. /\ at[w] = "row" /\ lock = None /\ rows' = rows \cup {on[w]}
      /\ Leave(w) /\ UNCHANGED <<live, created, secrets, catalog, begun, lock>>
    BY DEF InsertRow, Continue, Then
<1>2. /\ Own(w) /\ at' \in [Workers -> Steps] /\ at'[w] = "idle"
      /\ on' \in [Workers -> Ids \cup {None}] /\ given' \in [Workers -> Password]
      /\ since' \in [Workers -> Version] /\ held' \in [Workers -> Version]
    BY <1>1, LeaveTypes
<1>3. /\ on[w] \in {created[i] : i \in DOMAIN created} \ rows
      /\ secrets[on[w]] = given[w] /\ given[w] \in Password
    BY <1>1 DEF DatasourcesInv, DatasourcesTypeOK, MakingInv, Making
<1>4. on[w] \in Ids /\ rows' \subseteq Ids
    BY <1>1, <1>3 DEF DatasourcesInv, DatasourcesTypeOK
<1>5. DatasourcesTypeOK' /\ (at \in [Workers -> Steps])'
    BY <1>1, <1>2, <1>4 DEF DatasourcesInv, DatasourcesTypeOK
<1>6. MakingInv'
    <2>1. rows' \subseteq {created'[i] : i \in DOMAIN created'}
        BY <1>1, <1>3 DEF DatasourcesInv, MakingInv
    <2>2. \A v \in Workers : at'[v] \in Making =>
              /\ v # w /\ at'[v] = at[v] /\ on'[v] = on[v] /\ given'[v] = given[v]
        BY <1>2 DEF Own, Making
    <2>3. \A v \in Workers \ {w} : at[v] \in Making => on[v] # on[w]
        BY <1>1 DEF DatasourcesInv, MakingInv, Making
    <2> QED BY <2>1, <2>2, <2>3, <1>1 DEF DatasourcesInv, MakingInv
<1>7. ReadingInv'
    <2>1. \A v \in Workers : at'[v] \in Reading =>
              /\ at'[v] = at[v] /\ on'[v] = on[v] /\ since'[v] = since[v] /\ held'[v] = held[v]
        BY <1>2 DEF Own, Reading
    <2> QED BY <2>1, <1>1 DEF DatasourcesInv, ReadingInv
<1>8. DatasourcesAreUsable' /\ Grows
    BY <1>1, <1>3 DEF DatasourcesInv, DatasourcesAreUsable, Grows
<1> QED BY <1>1, <1>2, <1>5, <1>6, <1>7, <1>8 DEF DatasourcesInv

\* refresh_catalog begins.
LEMMA RefreshStep ==
    ASSUME DatasourcesInv, NEW w \in Workers, NEW d, Refresh(w, d)
    PROVE  DatasourcesInv' /\ Grows /\ Own(w) /\ at'[w] = "introspect" /\ on'[w] = d
<1>1. /\ at[w] = "idle" /\ d \in rows /\ d \in Ids
      /\ on' = [on EXCEPT ![w] = d]
      /\ since' = [since EXCEPT ![w] = live]
      /\ at' = [at EXCEPT ![w] = "introspect"]
      /\ UNCHANGED <<live, created, secrets, rows, catalog, begun, lock>>
      /\ UNCHANGED <<given, held>>
    BY DEF Refresh, Goto, store, DatasourcesInv, DatasourcesTypeOK
<1>2. Own(w) /\ at'[w] = "introspect" /\ on'[w] = d /\ since'[w] = live
    BY <1>1 DEF Own, DatasourcesInv, DatasourcesTypeOK
<1>3. live \in 1 .. live /\ live \in Version
    BY BoundAssumption DEF DatasourcesInv, DatasourcesTypeOK, Version
<1>4. DatasourcesTypeOK' /\ (at \in [Workers -> Steps])'
    <2>1. (lock # None => at[lock] = "deleted")'
        BY <1>1, <1>2 DEF DatasourcesInv, DatasourcesTypeOK, Own
    <2>2. at' \in [Workers -> Steps]
        BY <1>1 DEF DatasourcesInv, Steps, RegistryStep
    <2> QED BY <1>1, <1>3, <2>1, <2>2 DEF DatasourcesInv, DatasourcesTypeOK
<1>5. MakingInv'
    <2>1. \A v \in Workers : at'[v] \in Making =>
              /\ at'[v] = at[v] /\ on'[v] = on[v] /\ given'[v] = given[v]
        BY <1>2 DEF Own, Making
    <2> QED BY <2>1, <1>1 DEF DatasourcesInv, MakingInv
<1>6. ReadingInv'
    <2>1. ASSUME NEW v \in Workers \ {w}, at'[v] \in Reading
          PROVE  on'[v] \in rows' /\ since'[v] \in 1 .. live'
                 /\ (at'[v] # "introspect" => held'[v] >= since'[v])
        BY <2>1, <1>1, <1>2 DEF DatasourcesInv, ReadingInv, Own
    <2>2. on'[w] \in rows' /\ since'[w] \in 1 .. live' /\ at'[w] = "introspect"
        BY <1>1, <1>2, <1>3
    <2> QED BY <2>1, <2>2 DEF ReadingInv
<1>7. DatasourcesAreUsable' /\ Grows
    BY <1>1 DEF DatasourcesInv, DatasourcesAreUsable, Grows
<1> QED BY <1>2, <1>4, <1>5, <1>6, <1>7 DEF DatasourcesInv

\* The schema is read.
LEMMA IntrospectStep ==
    ASSUME DatasourcesInv, NEW w \in Workers, Introspect(w)
    PROVE  DatasourcesInv' /\ Grows /\ Own(w) /\ at'[w] = "introspected" /\ on'[w] = on[w]
<1>1. /\ at[w] = "introspect"
      /\ held' = [held EXCEPT ![w] = live]
      /\ at' = [at EXCEPT ![w] = "introspected"]
      /\ UNCHANGED <<live, created, secrets, rows, catalog, begun, lock>>
      /\ UNCHANGED <<on, given, since>>
    BY DEF Introspect, Introspected, Goto, store
<1>2. Own(w) /\ at'[w] = "introspected" /\ on'[w] = on[w] /\ held'[w] = live
    BY <1>1 DEF Own, DatasourcesInv, DatasourcesTypeOK
<1>3. DatasourcesTypeOK' /\ (at \in [Workers -> Steps])'
    <2>1. (lock # None => at[lock] = "deleted")'
        BY <1>1, <1>2 DEF DatasourcesInv, DatasourcesTypeOK, Own
    <2>2. at' \in [Workers -> Steps]
        BY <1>1 DEF DatasourcesInv, Steps, RegistryStep
    <2> QED BY <1>1, <2>1, <2>2 DEF DatasourcesInv, DatasourcesTypeOK
<1>4. MakingInv'
    <2>1. \A v \in Workers : at'[v] \in Making =>
              /\ at'[v] = at[v] /\ on'[v] = on[v] /\ given'[v] = given[v]
        BY <1>2 DEF Own, Making
    <2> QED BY <2>1, <1>1 DEF DatasourcesInv, MakingInv
<1>5. ReadingInv'
    <2>1. ASSUME NEW v \in Workers \ {w}, at'[v] \in Reading
          PROVE  on'[v] \in rows' /\ since'[v] \in 1 .. live'
                 /\ (at'[v] # "introspect" => held'[v] >= since'[v])
        BY <2>1, <1>1, <1>2 DEF DatasourcesInv, ReadingInv, Own
    <2>2. on[w] \in rows /\ since[w] \in 1 .. live /\ live \in Nat
        BY <1>1, BoundAssumption
           DEF DatasourcesInv, DatasourcesTypeOK, ReadingInv, Reading, Version
    <2>3. on'[w] \in rows' /\ since'[w] \in 1 .. live' /\ held'[w] >= since'[w]
        BY <2>2, <1>1, <1>2
    <2> QED BY <2>1, <2>3 DEF ReadingInv
<1>6. DatasourcesAreUsable' /\ Grows
    BY <1>1 DEF DatasourcesInv, DatasourcesAreUsable, Grows
<1> QED BY <1>2, <1>3, <1>4, <1>5, <1>6 DEF DatasourcesInv

\* DELETE, in a transaction that nobody sees yet.
LEMMA DeleteColumnsStep ==
    ASSUME DatasourcesInv, NEW w \in Workers, DeleteColumns(w)
    PROVE  DatasourcesInv' /\ Grows /\ Own(w) /\ at'[w] = "deleted" /\ on'[w] = on[w]
<1>1. /\ at[w] = "introspected" /\ lock' = w
      /\ catalog' = [catalog EXCEPT ![on[w]] = catalog[on[w]]]
      /\ at' = [at EXCEPT ![w] = "deleted"]
      /\ UNCHANGED <<live, created, secrets, rows, begun>>
      /\ UNCHANGED <<on, given, since, held>>
    BY DEF DeleteColumns, AfterDelete, Goto, local
<1>2. Own(w) /\ at'[w] = "deleted" /\ on'[w] = on[w] /\ catalog' = catalog
    BY <1>1 DEF Own, DatasourcesInv, DatasourcesTypeOK
<1>3. DatasourcesTypeOK' /\ (at \in [Workers -> Steps])'
    <2>1. at' \in [Workers -> Steps]
        BY <1>1 DEF DatasourcesInv, Steps, RegistryStep
    <2> QED BY <1>1, <1>2, <2>1 DEF DatasourcesInv, DatasourcesTypeOK
<1>4. MakingInv'
    <2>1. \A v \in Workers : at'[v] \in Making => at'[v] = at[v]
        BY <1>2 DEF Own, Making
    <2> QED BY <2>1, <1>1 DEF DatasourcesInv, MakingInv
<1>5. ReadingInv'
    <2>1. \A v \in Workers : at'[v] \in Reading =>
              at[v] \in Reading /\ (at'[v] # "introspect" => at[v] # "introspect")
        BY <1>1, <1>2 DEF Own, Reading
    <2> QED BY <2>1, <1>1 DEF DatasourcesInv, ReadingInv
<1>6. DatasourcesAreUsable' /\ Grows
    BY <1>1, <1>2 DEF DatasourcesInv, DatasourcesAreUsable, Grows
<1> QED BY <1>2, <1>3, <1>4, <1>5, <1>6 DEF DatasourcesInv

\* INSERT and COMMIT: the catalog is a schema of the time of the call.
LEMMA InsertColumnsStep ==
    ASSUME DatasourcesInv, NEW w \in Workers, InsertColumns(w)
    PROVE  /\ DatasourcesInv' /\ Grows /\ Own(w) /\ at[w] = "deleted" /\ at'[w] = "idle"
           /\ catalog'[on[w]] # 0
<1>1. /\ at[w] = "deleted"
      /\ catalog' = [catalog EXCEPT ![on[w]] = held[w]]
      /\ begun' = [begun EXCEPT ![on[w]] = since[w]]
      /\ lock' = Released(w) /\ Leave(w)
      /\ UNCHANGED <<live, created, secrets, rows>>
    BY DEF InsertColumns
<1>2. /\ Own(w) /\ at' \in [Workers -> Steps] /\ at'[w] = "idle"
      /\ on' \in [Workers -> Ids \cup {None}] /\ given' \in [Workers -> Password]
      /\ since' \in [Workers -> Version] /\ held' \in [Workers -> Version]
    BY <1>1, LeaveTypes
<1>3. /\ on[w] \in rows /\ on[w] \in Ids
      /\ since[w] \in Version /\ held[w] \in Version
      /\ held[w] >= since[w] /\ held[w] # 0
    <2>1. on[w] \in rows /\ since[w] \in 1 .. live /\ held[w] >= since[w]
        BY <1>1 DEF DatasourcesInv, ReadingInv, Reading
    <2>2. since[w] \in Version /\ held[w] \in Version /\ live \in Version
        BY DEF DatasourcesInv, DatasourcesTypeOK
    <2>3. since[w] \in Nat /\ held[w] \in Nat /\ live \in Nat
        BY <2>2, BoundAssumption DEF Version
    <2>4. held[w] # 0
        BY <2>1, <2>3
    <2> QED BY <2>1, <2>2, <2>4 DEF DatasourcesInv, DatasourcesTypeOK
<1>4. /\ catalog' \in [Ids -> Version] /\ begun' \in [Ids -> Version]
      /\ catalog'[on[w]] = held[w] /\ begun'[on[w]] = since[w]
      /\ \A d \in Ids \ {on[w]} : catalog'[d] = catalog[d] /\ begun'[d] = begun[d]
    BY <1>1, <1>3 DEF DatasourcesInv, DatasourcesTypeOK
<1>5. DatasourcesTypeOK' /\ (at \in [Workers -> Steps])'
    <2>1. /\ lock' \in Workers \cup {None} /\ (lock' # None => lock' = lock /\ lock' # w)
        BY <1>1 DEF Released, DatasourcesInv, DatasourcesTypeOK
    <2>2. (lock # None => at[lock] = "deleted")'
        BY <2>1, <1>2 DEF DatasourcesInv, DatasourcesTypeOK, Own
    <2> QED BY <1>1, <1>2, <1>4, <2>1, <2>2 DEF DatasourcesInv, DatasourcesTypeOK
<1>6. MakingInv'
    <2>1. \A v \in Workers : at'[v] \in Making =>
              /\ at'[v] = at[v] /\ on'[v] = on[v] /\ given'[v] = given[v]
        BY <1>2 DEF Own, Making
    <2> QED BY <2>1, <1>1 DEF DatasourcesInv, MakingInv
<1>7. ReadingInv'
    <2>1. \A v \in Workers : at'[v] \in Reading =>
              /\ at'[v] = at[v] /\ on'[v] = on[v] /\ since'[v] = since[v] /\ held'[v] = held[v]
        BY <1>2 DEF Own, Reading
    <2> QED BY <2>1, <1>1 DEF DatasourcesInv, ReadingInv
<1>8. DatasourcesAreUsable'
    <2>1. \A d \in Ids : catalog'[d] >= begun'[d]
        BY <1>3, <1>4 DEF DatasourcesInv, DatasourcesAreUsable
    <2> QED BY <2>1, <1>1 DEF DatasourcesInv, DatasourcesAreUsable
<1>9. Grows
    BY <1>1, <1>3, <1>4 DEF Grows
<1> QED BY <1>1, <1>2, <1>3, <1>4, <1>5, <1>6, <1>7, <1>8, <1>9 DEF DatasourcesInv

\* An exception or a crash leaves everything that is stored.
LEMMA StopStep ==
    ASSUME DatasourcesInv, NEW w \in Workers, Stop(w)
    PROVE  /\ DatasourcesInv' /\ Grows /\ Own(w) /\ at'[w] = "idle"
<1>1. /\ lock' = Released(w) /\ Leave(w)
      /\ UNCHANGED <<live, created, secrets, rows, catalog, begun>>
    BY DEF Stop
<1>2. /\ Own(w) /\ at' \in [Workers -> Steps] /\ at'[w] = "idle"
      /\ on' \in [Workers -> Ids \cup {None}] /\ given' \in [Workers -> Password]
      /\ since' \in [Workers -> Version] /\ held' \in [Workers -> Version]
    BY <1>1, LeaveTypes
<1>3. DatasourcesTypeOK' /\ (at \in [Workers -> Steps])'
    <2>1. /\ lock' \in Workers \cup {None} /\ (lock' # None => lock' = lock /\ lock' # w)
        BY <1>1 DEF Released, DatasourcesInv, DatasourcesTypeOK
    <2>2. (lock # None => at[lock] = "deleted")'
        BY <2>1, <1>2 DEF DatasourcesInv, DatasourcesTypeOK, Own
    <2> QED BY <1>1, <1>2, <2>1, <2>2 DEF DatasourcesInv, DatasourcesTypeOK
<1>4. MakingInv'
    <2>1. \A v \in Workers : at'[v] \in Making =>
              /\ at'[v] = at[v] /\ on'[v] = on[v] /\ given'[v] = given[v]
        BY <1>2 DEF Own, Making
    <2> QED BY <2>1, <1>1 DEF DatasourcesInv, MakingInv
<1>5. ReadingInv'
    <2>1. \A v \in Workers : at'[v] \in Reading =>
              /\ at'[v] = at[v] /\ on'[v] = on[v] /\ since'[v] = since[v] /\ held'[v] = held[v]
        BY <1>2 DEF Own, Reading
    <2> QED BY <2>1, <1>1 DEF DatasourcesInv, ReadingInv
<1>6. DatasourcesAreUsable' /\ Grows
    BY <1>1 DEF DatasourcesInv, DatasourcesAreUsable, Grows
<1> QED BY <1>2, <1>3, <1>4, <1>5, <1>6 DEF DatasourcesInv

\* A call of Datasources comes from one of its steps, and goes to another.
LEMMA DatasourcesStep ==
    ASSUME DatasourcesInv, NEW w \in Workers, DatasourcesNext(w)
    PROVE  DatasourcesInv' /\ Grows /\ Own(w) /\ {at[w], at'[w]} \subseteq RegistryStep
<1>1. ASSUME NEW d \in Ids, Refresh(w, d)
      PROVE  DatasourcesInv' /\ Grows /\ Own(w) /\ {at[w], at'[w]} \subseteq RegistryStep
    BY <1>1, RefreshStep DEF Refresh, RegistryStep
<1>2. ASSUME NEW d \in Ids, NEW p \in Password, Create(w, d, p)
      PROVE  DatasourcesInv' /\ Grows /\ Own(w) /\ {at[w], at'[w]} \subseteq RegistryStep
    BY <1>2, CreateStep DEF Create, RegistryStep
<1>3. CASE OpenSecret(w)
    BY <1>3, OpenSecretStep DEF OpenSecret, RegistryStep
<1>4. CASE FillSecret(w)
    BY <1>4, FillSecretStep DEF FillSecret, RegistryStep
<1>5. CASE InsertRow(w)
    BY <1>5, InsertRowStep DEF InsertRow, RegistryStep
<1>6. CASE Introspect(w)
    BY <1>6, IntrospectStep DEF Introspect, RegistryStep
<1>7. CASE DeleteColumns(w)
    BY <1>7, DeleteColumnsStep DEF DeleteColumns, RegistryStep
<1>8. CASE InsertColumns(w)
    BY <1>8, InsertColumnsStep DEF InsertColumns, RegistryStep
<1>9. CASE Stop(w)
    BY <1>9, StopStep DEF Stop, RegistryStep
<1> QED BY <1>1, <1>2, <1>3, <1>4, <1>5, <1>6, <1>7, <1>8, <1>9
        DEF DatasourcesNext, InCreate, InRefresh

-------------------------------------------------------------------------------
(* The calls of Queries.                                                   *)

\* A query within the maximum that was given is within it as a number.
LEMMA LimitTypes ==
    ASSUME QueryTypes, NEW w \in Workers
    PROVE  Limit(w) \in Int /\ maximum[w] \in Int /\ EngineMax \in Int
BY LimitAssumption DEF QueryTypes, Limit

\* What the policy decides on a query.
LEMMA DecisionIs ==
    ASSUME QueryTypes, NEW w \in Workers, NEW i \in BOOLEAN, NEW o \in BOOLEAN
    PROVE  Decision(w, i, o) = "allowed" <=> ~i /\ ~o
<1>1. tool[w] \in {"sql.run", "datasource.query"}
    BY DEF QueryTypes, Tool
<1> DEFINE r == [action |-> tool[w], mount |-> "elsewhere", invalid |-> i, over |-> o,
                 local |-> FALSE, approval |-> FALSE]
<1>2. Policy!Decide(r) = Policy!QueryVerdict(r)
    BY <1>1 DEF Policy!Decide
<1>3. Policy!QueryVerdict(r) = IF i THEN "blocked" ELSE IF o THEN "approval required" ELSE "allowed"
    BY DEF Policy!QueryVerdict
<1> QED BY <1>2, <1>3 DEF Decision

\* What the steps between the first and the last leave of the call.
LEMMA WithinQuery ==
    ASSUME DatasourcesInv, NEW w \in Workers, NEW s \in QueryStep, Goto(w, s),
           UNCHANGED <<store, local>>
    PROVE  /\ UNCHANGED store /\ Own(w)
           /\ at' \in [Workers -> Steps] /\ at'[w] = s
           /\ on' \in [Workers -> Ids \cup {None}] /\ given' \in [Workers -> Password]
           /\ since' \in [Workers -> Version] /\ held' \in [Workers -> Version]
BY GotoTypes DEF Steps

LEMMA QueryBegins ==
    ASSUME DatasourcesInv, QueryTypes, NEW w \in Workers, QueryAt(w),
           NEW d \in Ids, NEW k \in Tool, NEW l \in Limits, NEW v \in BOOLEAN, NEW m \in Maxima,
           Query(w, d, k, l, v, m)
    PROVE  QueryStepOf(w)
<1>1. PICK s : s = IF k = "sql.run" THEN "validated" ELSE "policy"
    OBVIOUS
<1>2. /\ at[w] = "idle" /\ at' = [at EXCEPT ![w] = s]
      /\ on' = [on EXCEPT ![w] = d]
      /\ tool' = [tool EXCEPT ![w] = k]
      /\ asked' = [asked EXCEPT ![w] = l]
      /\ valid' = [valid EXCEPT ![w] = v]
      /\ maximum' = [maximum EXCEPT ![w] = m]
      /\ UNCHANGED store
      /\ UNCHANGED <<given, since, held>> /\ UNCHANGED <<text, ran, result, answer>>
    BY <1>1 DEF Query, Goto
<1>3. s \in {"validated", "policy"} /\ (s = "validated" => k = "sql.run")
    BY <1>1
<1>4. /\ Own(w) /\ at' \in [Workers -> Steps] /\ at'[w] = s
      /\ on' \in [Workers -> Ids \cup {None}] /\ given' \in [Workers -> Password]
      /\ since' \in [Workers -> Version] /\ held' \in [Workers -> Version]
    BY <1>2, <1>3 DEF Own, DatasourcesInv, DatasourcesTypeOK, Steps, QueryStep
<1>5. QueryTypes' /\ OwnQuery(w) /\ tool'[w] = k
    BY <1>2 DEF QueryTypes, OwnQuery
<1>6. /\ text'[w] = text[w] /\ ran'[w] = ran[w] /\ result'[w] = result[w] /\ answer'[w] = answer[w]
      /\ ~text[w] /\ ~ran[w] /\ ~result[w] /\ answer[w] = "none"
    BY <1>2 DEF QueryAt
<1>7. QueryAt(w)'
    BY <1>3, <1>4, <1>5, <1>6 DEF QueryAt, Checked
<1> QED BY <1>2, <1>3, <1>4, <1>5, <1>7 DEF QueryStepOf, QueryStep

LEMMA FindRecordStep ==
    ASSUME DatasourcesInv, QueryTypes, NEW w \in Workers, QueryAt(w), FindRecord(w)
    PROVE  QueryStepOf(w)
<1>1. /\ at[w] = "policy" /\ UNCHANGED <<store, local>>
      /\ UNCHANGED <<maximum, tool, asked, valid, text, ran, result>>
    BY DEF FindRecord
<1>2. /\ ~text[w] /\ ~ran[w] /\ ~result[w] /\ answer[w] = "none"
    BY <1>1 DEF QueryAt
<1>3. (Limit(w) > EngineMax) \in BOOLEAN
    BY LimitTypes
<1>4. \/ \E a \in {"refused", "error"} : End(w, a)
      \/ Goto(w, "validated") /\ UNCHANGED answer /\ ~(Limit(w) > EngineMax)
    BY <1>3, DecisionIs DEF FindRecord
<1>5. CASE \E a \in {"refused", "error"} : End(w, a)
    <2>1. PICK a \in {"refused", "error"} : End(w, a)
        BY <1>5
    <2>2. answer' = [answer EXCEPT ![w] = a] /\ Goto(w, "answered")
        BY <2>1 DEF End
    <2>3. /\ UNCHANGED store /\ Own(w) /\ at' \in [Workers -> Steps] /\ at'[w] = "answered"
          /\ on' \in [Workers -> Ids \cup {None}] /\ given' \in [Workers -> Password]
          /\ since' \in [Workers -> Version] /\ held' \in [Workers -> Version]
        BY <1>1, <2>2, WithinQuery DEF QueryStep
    <2>4. QueryTypes' /\ OwnQuery(w) /\ answer'[w] = a
        BY <1>1, <2>2 DEF QueryTypes, OwnQuery, Answer
    <2>5. QueryAt(w)'
        BY <1>1, <1>2, <2>3, <2>4 DEF QueryAt, Checked
    <2> QED BY <2>3, <2>4, <2>5 DEF QueryStepOf, QueryStep
<1>6. CASE Goto(w, "validated") /\ UNCHANGED answer /\ ~(Limit(w) > EngineMax)
    <2>1. /\ UNCHANGED store /\ Own(w) /\ at' \in [Workers -> Steps] /\ at'[w] = "validated"
          /\ on' \in [Workers -> Ids \cup {None}] /\ given' \in [Workers -> Password]
          /\ since' \in [Workers -> Version] /\ held' \in [Workers -> Version]
        BY <1>1, <1>6, WithinQuery DEF QueryStep
    <2>2. QueryTypes' /\ OwnQuery(w)
        BY <1>1, <1>6 DEF QueryTypes, OwnQuery
    <2>3. Limit(w) <= EngineMax /\ Limit(w)' = Limit(w)
        BY <1>1, <1>6, LimitTypes DEF Limit
    <2>4. QueryAt(w)'
        BY <1>1, <1>2, <1>6, <2>1, <2>3 DEF QueryAt, Checked
    <2> QED BY <2>1, <2>2, <2>4 DEF QueryStepOf, QueryStep
<1> QED BY <1>4, <1>5, <1>6

LEMMA ValidateStep ==
    ASSUME DatasourcesInv, QueryTypes, NEW w \in Workers, QueryAt(w), Validate(w)
    PROVE  QueryStepOf(w)
<1>1. /\ at[w] = "validated" /\ UNCHANGED <<store, local>>
      /\ UNCHANGED <<maximum, tool, asked, valid, text, ran, result>>
    BY DEF Validate
<1>2. /\ ~text[w] /\ ~ran[w] /\ ~result[w] /\ answer[w] = "none"
      /\ tool[w] = "datasource.query" => Limit(w) <= EngineMax
    BY <1>1 DEF QueryAt
<1>3. Over(w) \in BOOLEAN /\ (~valid[w] \/ Limit(w) <= 0) \in BOOLEAN
    BY LimitTypes DEF Over
<1>4. \/ End(w, "refused")
      \/ Goto(w, "checked") /\ UNCHANGED answer /\ ~Over(w) /\ ~(~valid[w] \/ Limit(w) <= 0)
    BY <1>3, DecisionIs DEF Validate
<1>5. CASE End(w, "refused")
    <2>2. answer' = [answer EXCEPT ![w] = "refused"] /\ Goto(w, "answered")
        BY <1>5 DEF End
    <2>3. /\ UNCHANGED store /\ Own(w) /\ at' \in [Workers -> Steps] /\ at'[w] = "answered"
          /\ on' \in [Workers -> Ids \cup {None}] /\ given' \in [Workers -> Password]
          /\ since' \in [Workers -> Version] /\ held' \in [Workers -> Version]
        BY <1>1, <2>2, WithinQuery DEF QueryStep
    <2>4. QueryTypes' /\ OwnQuery(w) /\ answer'[w] = "refused"
        BY <1>1, <2>2 DEF QueryTypes, OwnQuery, Answer
    <2>5. QueryAt(w)'
        BY <1>1, <1>2, <2>3, <2>4 DEF QueryAt, Checked
    <2> QED BY <2>3, <2>4, <2>5 DEF QueryStepOf, QueryStep
<1>6. CASE Goto(w, "checked") /\ UNCHANGED answer /\ ~Over(w) /\ ~(~valid[w] \/ Limit(w) <= 0)
    <2>1. /\ UNCHANGED store /\ Own(w) /\ at' \in [Workers -> Steps] /\ at'[w] = "checked"
          /\ on' \in [Workers -> Ids \cup {None}] /\ given' \in [Workers -> Password]
          /\ since' \in [Workers -> Version] /\ held' \in [Workers -> Version]
        BY <1>1, <1>6, WithinQuery DEF QueryStep
    <2>2. QueryTypes' /\ OwnQuery(w)
        BY <1>1, <1>6 DEF QueryTypes, OwnQuery
    <2>3. valid[w] /\ Limit(w) \in 1 .. maximum[w] /\ Limit(w)' = Limit(w)
        BY <1>1, <1>6, LimitTypes DEF Limit, Over
    <2>4. QueryAt(w)'
        BY <1>1, <1>2, <1>6, <2>1, <2>3 DEF QueryAt, Checked
    <2> QED BY <2>1, <2>2, <2>4 DEF QueryStepOf, QueryStep
<1> QED BY <1>4, <1>5, <1>6

LEMMA RecordTextStep ==
    ASSUME DatasourcesInv, QueryTypes, NEW w \in Workers, QueryAt(w), RecordText(w)
    PROVE  QueryStepOf(w)
<1>1. /\ at[w] = "checked" /\ Goto(w, "recorded") /\ UNCHANGED <<store, local>>
      /\ text' = [text EXCEPT ![w] = TRUE]
      /\ UNCHANGED <<maximum, tool, asked, valid, ran, result, answer>>
    BY DEF RecordText
<1>2. /\ UNCHANGED store /\ Own(w) /\ at' \in [Workers -> Steps] /\ at'[w] = "recorded"
      /\ on' \in [Workers -> Ids \cup {None}] /\ given' \in [Workers -> Password]
      /\ since' \in [Workers -> Version] /\ held' \in [Workers -> Version]
    BY <1>1, WithinQuery DEF QueryStep
<1>3. QueryTypes' /\ OwnQuery(w) /\ text'[w] = TRUE /\ Limit(w)' = Limit(w)
    BY <1>1 DEF QueryTypes, OwnQuery, Limit
<1>4. QueryAt(w)'
    BY <1>1, <1>2, <1>3 DEF QueryAt, Checked
<1> QED BY <1>2, <1>3, <1>4 DEF QueryStepOf, QueryStep

LEMMA ExecuteStep ==
    ASSUME DatasourcesInv, QueryTypes, NEW w \in Workers, QueryAt(w), Execute(w)
    PROVE  QueryStepOf(w)
<1>1. /\ at[w] = "recorded" /\ Goto(w, "ran") /\ UNCHANGED <<store, local>>
      /\ ran' = [ran EXCEPT ![w] = TRUE]
      /\ UNCHANGED <<maximum, tool, asked, valid, text, result, answer>>
    BY DEF Execute, RunAt
<1>2. /\ UNCHANGED store /\ Own(w) /\ at' \in [Workers -> Steps] /\ at'[w] = "ran"
      /\ on' \in [Workers -> Ids \cup {None}] /\ given' \in [Workers -> Password]
      /\ since' \in [Workers -> Version] /\ held' \in [Workers -> Version]
    BY <1>1, WithinQuery DEF QueryStep
<1>3. QueryTypes' /\ OwnQuery(w) /\ ran'[w] = TRUE /\ Limit(w)' = Limit(w)
    BY <1>1 DEF QueryTypes, OwnQuery, Limit
<1>4. QueryAt(w)'
    BY <1>1, <1>2, <1>3 DEF QueryAt, Checked
<1> QED BY <1>2, <1>3, <1>4 DEF QueryStepOf, QueryStep

LEMMA FetchStep ==
    ASSUME DatasourcesInv, QueryTypes, NEW w \in Workers, QueryAt(w), Fetch(w)
    PROVE  QueryStepOf(w)
<1>1. /\ at[w] = "ran" /\ Goto(w, "fetched") /\ UNCHANGED <<store, local>>
      /\ UNCHANGED <<maximum, tool, asked, valid, text, ran, result, answer>>
    BY DEF Fetch, query
<1>2. /\ UNCHANGED store /\ Own(w) /\ at' \in [Workers -> Steps] /\ at'[w] = "fetched"
      /\ on' \in [Workers -> Ids \cup {None}] /\ given' \in [Workers -> Password]
      /\ since' \in [Workers -> Version] /\ held' \in [Workers -> Version]
    BY <1>1, WithinQuery DEF QueryStep
<1>3. QueryTypes' /\ OwnQuery(w) /\ Limit(w)' = Limit(w)
    BY <1>1 DEF QueryTypes, OwnQuery, Limit
<1>4. QueryAt(w)'
    BY <1>1, <1>2, <1>3 DEF QueryAt, Checked
<1> QED BY <1>2, <1>3, <1>4 DEF QueryStepOf, QueryStep

LEMMA RecordResultStep ==
    ASSUME DatasourcesInv, QueryTypes, NEW w \in Workers, QueryAt(w), RecordResult(w)
    PROVE  QueryStepOf(w)
<1>1. /\ at[w] = "fetched" /\ Goto(w, "registered") /\ UNCHANGED <<store, local>>
      /\ result' = [result EXCEPT ![w] = TRUE]
      /\ UNCHANGED <<maximum, tool, asked, valid, text, ran, answer>>
    BY DEF RecordResult
<1>2. /\ UNCHANGED store /\ Own(w) /\ at' \in [Workers -> Steps] /\ at'[w] = "registered"
      /\ on' \in [Workers -> Ids \cup {None}] /\ given' \in [Workers -> Password]
      /\ since' \in [Workers -> Version] /\ held' \in [Workers -> Version]
    BY <1>1, WithinQuery DEF QueryStep
<1>3. QueryTypes' /\ OwnQuery(w) /\ result'[w] = TRUE /\ Limit(w)' = Limit(w)
    BY <1>1 DEF QueryTypes, OwnQuery, Limit
<1>4. QueryAt(w)'
    BY <1>1, <1>2, <1>3 DEF QueryAt, Checked
<1> QED BY <1>2, <1>3, <1>4 DEF QueryStepOf, QueryStep

LEMMA AnswerStep ==
    ASSUME DatasourcesInv, QueryTypes, NEW w \in Workers, QueryAt(w),
           at[w] \in QueryStep \ {"answered"}, NEW a \in {"error", "named error", "result"},
           a = "named error" => at[w] \in {"recorded", "ran"},
           a = "result" => at[w] = "registered",
           End(w, a),
           UNCHANGED <<store, local, maximum, tool, asked, valid, text, ran, result>>
    PROVE  QueryStepOf(w)
<1>1. /\ answer' = [answer EXCEPT ![w] = a] /\ Goto(w, "answered")
      /\ UNCHANGED <<store, local>>
      /\ UNCHANGED <<maximum, tool, asked, valid, text, ran, result>>
    BY DEF End
<1>2. /\ UNCHANGED store /\ Own(w) /\ at' \in [Workers -> Steps] /\ at'[w] = "answered"
      /\ on' \in [Workers -> Ids \cup {None}] /\ given' \in [Workers -> Password]
      /\ since' \in [Workers -> Version] /\ held' \in [Workers -> Version]
    BY <1>1, WithinQuery DEF QueryStep
<1>3. QueryTypes' /\ OwnQuery(w) /\ answer'[w] = a /\ Limit(w)' = Limit(w)
    BY <1>1 DEF QueryTypes, OwnQuery, Answer, Limit
<1>4. QueryAt(w)'
    <2>1. ran[w] => /\ text[w] /\ valid[w]
                    /\ Limit(w) \in 1 .. maximum[w]
                    /\ tool[w] = "datasource.query" => Limit(w) <= EngineMax
        BY DEF QueryAt
    <2>2. /\ a = "named error" => text[w] /\ ~result[w]
          /\ a = "result" => ran[w] /\ text[w] /\ result[w]
        BY DEF QueryAt
    <2> QED BY <1>1, <1>2, <1>3, <2>1, <2>2 DEF QueryAt, Checked
<1> QED BY <1>2, <1>3, <1>4 DEF QueryStepOf, QueryStep

LEMMA FinishStep ==
    ASSUME DatasourcesInv, QueryTypes, NEW w \in Workers, Finish(w)
    PROVE  QueryStepOf(w)
<1>1. Leave(w) /\ NoQuery(w) /\ UNCHANGED store
    BY DEF Finish
<1>2. /\ Own(w)
      /\ at' \in [Workers -> Steps] /\ at'[w] = "idle"
      /\ on' \in [Workers -> Ids \cup {None}] /\ given' \in [Workers -> Password]
      /\ since' \in [Workers -> Version] /\ held' \in [Workers -> Version]
    BY <1>1, LeaveTypes
<1>3. AnyMaximum \in Maxima /\ 0 \in Limits
    BY LimitAssumption DEF AnyMaximum
<1>4. QueryTypes' /\ OwnQuery(w)
    BY <1>1, <1>3 DEF NoQuery, QueryTypes, OwnQuery, Tool, Answer
<1>5. text'[w] = FALSE /\ ran'[w] = FALSE /\ result'[w] = FALSE /\ answer'[w] = "none"
    BY <1>1 DEF NoQuery, QueryTypes
<1>6. QueryAt(w)'
    BY <1>2, <1>5 DEF QueryAt, Checked
<1> QED BY <1>1, <1>2, <1>4, <1>6 DEF QueryStepOf

LEMMA QueryNextIs ==
    ASSUME DatasourcesInv, QueryTypes, NEW w \in Workers, QueryAt(w), QueryNext(w)
    PROVE  QueryStepOf(w) /\ at[w] \in {"idle"} \cup QueryStep
<1>1. ASSUME NEW d \in Ids, NEW k \in Tool, NEW l \in Limits, NEW v \in BOOLEAN,
             NEW m \in Maxima, Query(w, d, k, l, v, m)
      PROVE  QueryStepOf(w) /\ at[w] = "idle"
    BY <1>1, QueryBegins DEF Query
<1>2. CASE FindRecord(w)
    BY <1>2, FindRecordStep DEF FindRecord, QueryStep
<1>3. CASE Validate(w)
    BY <1>3, ValidateStep DEF Validate, QueryStep
<1>4. CASE RecordText(w)
    BY <1>4, RecordTextStep DEF RecordText, QueryStep
<1>5. CASE Execute(w)
    BY <1>5, ExecuteStep DEF Execute, RunAt, QueryStep
<1>6. CASE Fetch(w)
    BY <1>6, FetchStep DEF Fetch, QueryStep
<1>7. CASE RecordResult(w)
    BY <1>7, RecordResultStep DEF RecordResult, QueryStep
<1>8. CASE Return(w)
    BY <1>8, AnswerStep DEF Return, QueryStep
<1>9. CASE Fail(w)
    <2>1. PICK a \in {"error"} \cup (IF Names(w) THEN {"named error"} ELSE {}) : End(w, a)
        BY <1>9 DEF Fail
    <2>2. a \in {"error", "named error", "result"} /\ a # "result"
          /\ (a = "named error" => at[w] \in {"recorded", "ran"})
        BY DEF Names
    <2>3. /\ at[w] \in QueryStep \ {"answered"}
          /\ UNCHANGED <<store, local, maximum, tool, asked, valid, text, ran, result>>
        BY <1>9 DEF Fail
    <2> QED BY <2>1, <2>2, <2>3, AnswerStep
<1>10. CASE Finish(w)
    BY <1>10, FinishStep DEF Finish
<1> QED BY <1>1, <1>2, <1>3, <1>4, <1>5, <1>6, <1>7, <1>8, <1>9, <1>10 DEF QueryNext

\* The other queries are where they were.
LEMMA QueryOthers ==
    ASSUME QueryInv, NEW w \in Workers, Own(w), OwnQuery(w), NEW v \in Workers \ {w}
    PROVE  QueryAt(v)'
<1>1. /\ at'[v] = at[v]
      /\ maximum'[v] = maximum[v] /\ tool'[v] = tool[v] /\ asked'[v] = asked[v]
      /\ valid'[v] = valid[v] /\ text'[v] = text[v] /\ ran'[v] = ran[v]
      /\ result'[v] = result[v] /\ answer'[v] = answer[v]
    BY DEF Own, OwnQuery
<1>2. QueryAt(v) /\ Limit(v)' = Limit(v)
    BY <1>1 DEF QueryInv, Limit
<1> QED BY <1>1, <1>2, Zenon DEF QueryAt

\* A query is not touched by the steps of other calls.
LEMMA QueryApart ==
    ASSUME QueryInv, NEW w \in Workers, Own(w), UNCHANGED query,
           at[w] \notin QueryStep, at'[w] \notin QueryStep
    PROVE  QueryInv'
<1>1. /\ UNCHANGED <<maximum, tool, asked, valid, text, ran, result, answer>>
    BY DEF query
<1>2. ASSUME NEW v \in Workers \ {w}
      PROVE  QueryAt(v)'
    BY <1>1, <1>2 DEF QueryInv, QueryAt, Checked, Own, Limit
<1>3. QueryAt(w)'
    <2>1. ~text[w] /\ ~ran[w] /\ ~result[w] /\ answer[w] = "none"
        BY DEF QueryInv, QueryAt, QueryStep
    <2> QED BY <1>1, <2>1 DEF QueryAt, Checked, QueryStep
<1> QED BY <1>2, <1>3 DEF QueryInv

-------------------------------------------------------------------------------
(* The calls of AnalysisContext.                                           *)

LEMMA ContextNextIs ==
    ASSUME DatasourcesInv, ContextTypeOK, ContextInv, NEW w \in Workers, ContextNext(w)
    PROVE  /\ UNCHANGED store /\ Own(w) /\ OwnContext(w)
           /\ {at[w], at'[w]} \subseteq {"idle"} \cup ContextStep
           /\ at' \in [Workers -> Steps]
           /\ on' \in [Workers -> Ids \cup {None}] /\ given' \in [Workers -> Password]
           /\ since' \in [Workers -> Version] /\ held' \in [Workers -> Version]
           /\ ContextTypeOK'
           /\ ContextAt(w)'
<1>1. ASSUME NEW d \in Ids, NEW q \in Questions, BuildContext(w, d, q)
      PROVE  /\ UNCHANGED store /\ Own(w) /\ OwnContext(w)
             /\ at[w] = "idle" /\ at'[w] = "context"
             /\ at' \in [Workers -> Steps]
             /\ on' \in [Workers -> Ids \cup {None}] /\ given' \in [Workers -> Password]
             /\ since' \in [Workers -> Version] /\ held' \in [Workers -> Version]
             /\ ContextTypeOK' /\ on'[w] \in rows'
    <2>1. /\ at[w] = "idle" /\ d \in rows
          /\ at' = [at EXCEPT ![w] = "context"]
          /\ on' = [on EXCEPT ![w] = d]
          /\ question' = [question EXCEPT ![w] = q]
          /\ UNCHANGED store /\ UNCHANGED <<given, since, held, seen>> /\ rows' = rows
        BY <1>1 DEF BuildContext, Goto, store
    <2> QED BY <2>1 DEF Own, OwnContext, DatasourcesInv, DatasourcesTypeOK, ContextTypeOK, Steps,
                        ContextStep
<1>2. CASE ReadCatalog(w)
    <2>1. PICK s : s = Append(seen[w], catalog[on[w]])
        OBVIOUS
    <2>2. PICK t \in {"advised", "context"} : t = IF Complete(question[w], s) THEN "advised" ELSE "context"
        OBVIOUS
    <2>3. /\ at[w] = "context" /\ seen' = [seen EXCEPT ![w] = s] /\ Goto(w, t)
          /\ UNCHANGED <<store, local>> /\ UNCHANGED question
        BY <1>2, <2>1, <2>2 DEF ReadCatalog
    <2>4. on[w] \in rows /\ on[w] \in Ids
        BY <2>3 DEF ContextInv, ContextAt, ContextStep, DatasourcesInv, DatasourcesTypeOK
    <2>5. catalog[on[w]] \in Version /\ seen[w] \in Seq(Version)
        BY <2>4 DEF DatasourcesInv, DatasourcesTypeOK, ContextTypeOK
    <2>6. s \in Seq(Version)
        BY <2>1, <2>5
    <2>7. ContextTypeOK'
        BY <2>3, <2>6 DEF ContextTypeOK
    <2>8. t \in Steps /\ t \in ContextStep
        BY DEF Steps, ContextStep
    <2>9. on' = on /\ rows' = rows
        BY <2>3 DEF local, store
    <2>10. /\ UNCHANGED store /\ Own(w) /\ at'[w] = t /\ at' \in [Workers -> Steps]
           /\ on' \in [Workers -> Ids \cup {None}] /\ given' \in [Workers -> Password]
           /\ since' \in [Workers -> Version] /\ held' \in [Workers -> Version]
        BY <2>3, <2>8, GotoTypes
    <2>11. OwnContext(w) /\ question'[w] = question[w] /\ seen'[w] = s
        BY <2>3 DEF OwnContext, ContextTypeOK
    <2>12. t = "advised" => Complete(question[w], s)
        BY <2>2
    <2>13. ContextAt(w)'
        BY <2>4, <2>9, <2>10, <2>11, <2>12 DEF ContextAt
    <2> QED BY <2>3, <2>7, <2>8, <2>10, <2>11, <2>13 DEF ContextStep
<1>3. CASE LeaveContext(w)
    <2>1. /\ at[w] \in ContextStep /\ Leave(w) /\ UNCHANGED store
          /\ question' = [question EXCEPT ![w] = NoQuestion]
          /\ seen' = [seen EXCEPT ![w] = <<>>]
        BY <1>3 DEF LeaveContext
    <2>2. ContextTypeOK'
        BY <2>1 DEF ContextTypeOK
    <2>3. "idle" \notin ContextStep /\ OwnContext(w)
        BY <2>1 DEF ContextStep, OwnContext, ContextTypeOK
    <2> QED BY <2>1, <2>2, <2>3, LeaveTypes DEF ContextAt
<1>4. "context" \in ContextStep
    BY DEF ContextStep
<1>5. \A d \in Ids, q \in Questions : BuildContext(w, d, q) => ContextAt(w)'
    BY <1>1 DEF ContextAt
<1> QED BY <1>1, <1>2, <1>3, <1>4, <1>5 DEF ContextNext

\* A context is not touched by the steps of other calls, nor by those of
\* another worker's context.
LEMMA ContextOthers ==
    ASSUME ContextInv, NEW w \in Workers, Own(w), OwnContext(w), Grows, ContextAt(w)'
    PROVE  ContextInv'
<1>1. ASSUME NEW v \in Workers \ {w}
      PROVE  ContextAt(v)'
    <2>1. /\ at'[v] = at[v] /\ on'[v] = on[v] /\ rows \subseteq rows'
          /\ question'[v] = question[v] /\ seen'[v] = seen[v]
        BY DEF Own, OwnContext, Grows
    <2>2. ContextAt(v)
        BY DEF ContextInv
    <2> QED BY <2>1, <2>2 DEF ContextAt
<1> QED BY <1>1 DEF ContextInv

LEMMA ContextApart ==
    ASSUME ContextInv, NEW w \in Workers, Own(w), Grows, UNCHANGED context,
           at'[w] \notin ContextStep
    PROVE  ContextInv'
<1>1. OwnContext(w)
    BY DEF OwnContext, context
<1>2. ContextAt(w)'
    BY DEF ContextAt, ContextStep
<1> QED BY <1>1, <1>2, ContextOthers

-------------------------------------------------------------------------------
(* What a context is made of.                                              *)

\* The least of two numbers.
LEMMA MinOfTwo ==
    ASSUME NEW a \in Int, NEW b \in Int
    PROVE  Min({a, b}) = IF a <= b THEN a ELSE b
<1>1. ASSUME NEW m \in {a, b}, \A y \in {a, b} : m <= y
      PROVE  Min({a, b}) = m
    <2>1. \E x \in {a, b} : \A y \in {a, b} : x <= y
        BY <1>1
    <2>2. PICK x : x = CHOOSE c \in {a, b} : \A y \in {a, b} : c <= y
        OBVIOUS
    <2>3. x \in {a, b} /\ \A y \in {a, b} : x <= y
        BY <2>1, <2>2, Zenon
    <2>4. x = m
        BY <2>3, <1>1
    <2> QED BY <2>2, <2>4, Zenon DEF Min
<1> QED BY <1>1

\* A set of matches, one of each table, has a first one, a second one and so
\* on: as many as it has members.
OnePerTable(S) ==
    /\ IsFiniteSet(S)
    /\ \A a \in S : a.confidence \in Int /\ a.table \in Int
    /\ \A a, b \in S : a.table = b.table => a = b

LEMMA Places ==
    ASSUME NEW S, OnePerTable(S), NEW i \in 1 .. Cardinality(S)
    PROVE  \E m \in S : Cardinality({n \in S : Before(n, m)}) = i - 1
<1> DEFINE Ahead(m) == {n \in S : Before(n, m)}
           n == Cardinality(S)
           Place == [m \in S |-> 1 + Cardinality(Ahead(m))]
<1>1. n \in Nat /\ IsFiniteSet(S)
    BY FS_CardinalityType DEF OnePerTable
<1>2. \A m \in S : m \notin Ahead(m)
    BY DEF OnePerTable, Before
<1>3. \A a, b \in S : a # b => a \in Ahead(b) \/ b \in Ahead(a)
    BY DEF OnePerTable, Before
<1>4. \A a, b, c \in S : a \in Ahead(b) /\ b \in Ahead(c) => a \in Ahead(c)
    BY DEF OnePerTable, Before
<1> HIDE DEF Ahead
<1>5. ASSUME NEW m \in S
      PROVE  /\ Ahead(m) \in SUBSET (S \ {m}) /\ IsFiniteSet(Ahead(m))
             /\ Cardinality(Ahead(m)) \in 0 .. n - 1
    <2>1. Ahead(m) \in SUBSET (S \ {m})
        BY <1>2 DEF Ahead
    <2>2. IsFiniteSet(S \ {m}) /\ Cardinality(S \ {m}) = n - 1
        BY <1>1, FS_RemoveElement
    <2>3. IsFiniteSet(Ahead(m)) /\ Cardinality(Ahead(m)) <= n - 1
        BY <2>1, <2>2, FS_Subset
    <2>4. Cardinality(Ahead(m)) \in Nat
        BY <2>3, FS_CardinalityType
    <2> QED BY <1>1, <2>1, <2>3, <2>4
<1>6. ASSUME NEW a \in S, NEW b \in S, a \in Ahead(b)
      PROVE  Cardinality(Ahead(a)) < Cardinality(Ahead(b))
    <2>1. Ahead(a) \in SUBSET Ahead(b) /\ Ahead(a) # Ahead(b)
        BY <1>2, <1>4, <1>5, <1>6
    <2>2. Cardinality(Ahead(a)) <= Cardinality(Ahead(b)) /\ Cardinality(Ahead(a)) # Cardinality(Ahead(b))
        BY <2>1, <1>5, FS_Subset
    <2> QED BY <2>2, <1>5
<1>7. Place \in [S -> 1 .. n]
    BY <1>1, <1>5
<1>8. ASSUME NEW a \in S, NEW b \in S, Place[a] = Place[b]
      PROVE  a = b
    BY <1>3, <1>5, <1>6, <1>8
<1>9. Place \in Injection(S, 1 .. n)
    BY <1>7, <1>8 DEF Injection, IsInjective
<1>10. IsFiniteSet(1 .. n) /\ Cardinality(1 .. n) = n
    BY <1>1, FS_Interval
<1>11. Place \in Surjection(S, 1 .. n)
    BY <1>9, <1>10, FS_Injection
<1>12. PICK m \in S : Place[m] = i
    BY <1>11 DEF Surjection
<1>13. Cardinality(Ahead(m)) = i - 1
    BY <1>5, <1>12
<1> QED BY <1>13 DEF Ahead

\* The ranking is of members of the set, and is no longer than it may be.
LEMMA RankedMembers ==
    ASSUME NEW S, OnePerTable(S)
    PROVE  /\ Ranked(S) \in Seq(S) /\ Len(Ranked(S)) <= MaxTables
           /\ DOMAIN Ranked(S) = 1 .. Len(Ranked(S))
           /\ \A i \in DOMAIN Ranked(S) : Ranked(S)[i] \in S
<1> DEFINE k == Min({MaxTables, Cardinality(S)})
<1>1. Cardinality(S) \in Nat /\ MaxTables \in Nat
    BY FS_CardinalityType, ContentsAssumption DEF OnePerTable
<1>2. k \in Nat /\ k <= MaxTables /\ k <= Cardinality(S)
    BY <1>1, MinOfTwo
<1> HIDE DEF k
<1>3. Ranked(S) = [i \in 1 .. k |-> CHOOSE m \in S : Cardinality({n \in S : Before(n, m)}) = i - 1]
    BY DEF Ranked, k
<1>4. ASSUME NEW i \in 1 .. k
      PROVE  (CHOOSE m \in S : Cardinality({n \in S : Before(n, m)}) = i - 1) \in S
    <2>1. i \in 1 .. Cardinality(S)
        BY <1>1, <1>2
    <2> QED BY <2>1, Places
<1>5. Ranked(S) \in [1 .. k -> S]
    BY <1>3, <1>4
<1>6. Ranked(S) \in Seq(S) /\ Len(Ranked(S)) = k
    BY <1>2, <1>5
<1> QED BY <1>2, <1>5, <1>6

LEMMA ImageOfFinite ==
    ASSUME NEW D, IsFiniteSet(D), NEW f, f = [x \in D |-> f[x]]
    PROVE  IsFiniteSet({f[x] : x \in D})
<1>1. f \in Surjection(D, {f[x] : x \in D})
    BY DEF Surjection
<1> QED BY <1>1, FS_Surjection

\* A catalog lists finitely many columns of a table, and what is shown of a
\* table without a hit is among them.
LEMMA OfTable ==
    ASSUME NEW v \in Version, NEW t \in Table
    PROVE  /\ IsFiniteSet(Of(v, t)) /\ Cardinality(Of(v, t)) \in Nat
           /\ Leading(v, t) \subseteq Of(v, t)
<1>1. IsFiniteSet(Of(v, t))
    <2>1. CASE v = 0
        BY <2>1, FS_EmptySet DEF Of
    <2>2. CASE v # 0
        <3>1. PICK c : c = Contents[v][t]
            OBVIOUS
        <3>2. c \in Seq(Range(c))
            BY <2>2, <3>1, ContentsAssumption DEF Version
        <3>3. PICK n \in Nat : DOMAIN c = 1 .. n /\ c = [i \in DOMAIN c |-> c[i]]
            BY <3>2
        <3>4. IsFiniteSet(DOMAIN c)
            BY <3>3, FS_Interval
        <3>5. IsFiniteSet({c[i] : i \in DOMAIN c})
            BY <3>3, <3>4, ImageOfFinite
        <3> QED BY <2>2, <3>1, <3>5 DEF Of, Range
    <2> QED BY <2>1, <2>2
<1>2. Leading(v, t) \subseteq Of(v, t)
    BY DEF Leading, Of, Range
<1> QED BY <1>1, <1>2, FS_CardinalityType

\* What a match of the catalog says.
Says(m, v) ==
    /\ m.table \in Table /\ m.confidence \in Int
    /\ m.known \in BOOLEAN
    /\ m.columns \subseteq Of(v, m.table)
    /\ ~m.known => m.columns = {}

\* The search finds one match of each table, with columns that are there.
LEMMA SearchFinds ==
    ASSUME NEW q \in Question, NEW v \in Version
    PROVE  /\ Search(q, v) \in Seq(Range(Search(q, v)))
           /\ OnePerTable(Range(Search(q, v)))
           /\ \A m \in Range(Search(q, v)) : Says(m, v)
<1> DEFINE Hits(t) == Of(v, t) \cap q.names
           Confidence(t) == (IF t \in q.tables THEN 80 ELSE 65) + Min({15, 5 * Cardinality(Hits(t))})
           Match(t) == [table |-> t, known |-> TRUE, confidence |-> Min({95, Confidence(t)}),
                        columns |-> IF Hits(t) = {} THEN Leading(v, t) ELSE Hits(t)]
           D == {t \in Table : Hits(t) # {} \/ (t \in q.tables /\ Of(v, t) # {})}
           S == {Match(t) : t \in D}
<1>1. Search(q, v) = Ranked(S)
    BY DEF Search
<1>2. ASSUME NEW t \in Table
      PROVE  /\ Match(t).table = t /\ Match(t).confidence \in Int
             /\ Match(t).known = TRUE /\ Match(t).columns \subseteq Of(v, t)
    <2>1. IsFiniteSet(Hits(t))
        BY OfTable, FS_Subset
    <2>2. Cardinality(Hits(t)) \in Int
        BY <2>1, FS_CardinalityType
    <2>3. Confidence(t) \in Int
        <3>1. PICK c \in Int : c = 5 * Cardinality(Hits(t))
            BY <2>2
        <3>2. Min({15, c}) \in Int
            BY MinOfTwo
        <3> QED BY <3>1, <3>2
    <2>4. Min({95, Confidence(t)}) \in Int
        <3>1. PICK c \in Int : c = Confidence(t)
            BY <2>3
        <3>2. Min({95, c}) \in Int
            BY MinOfTwo
        <3> QED BY <3>1, <3>2
    <2> QED BY <2>4, OfTable
<1> HIDE DEF Match
<1>3. IsFiniteSet(S)
    <2>1. IsFiniteSet(D)
        BY ContentsAssumption, FS_Subset
    <2> HIDE DEF D
    <2>2. PICK f : f = [t \in D |-> Match(t)]
        OBVIOUS
    <2>3. f = [t \in D |-> f[t]] /\ \A t \in D : f[t] = Match(t)
        BY <2>2
    <2>4. IsFiniteSet({f[t] : t \in D})
        BY <2>1, <2>3, ImageOfFinite
    <2>5. {f[t] : t \in D} = S
        BY <2>3
    <2> QED BY <2>4, <2>5
<1>4. OnePerTable(S)
    <2>1. D \subseteq Table /\ Table \subseteq Int
        BY ContentsAssumption
    <2> HIDE DEF D
    <2>2. \A m \in S : m.confidence \in Int /\ m.table \in Int
        BY <1>2, <2>1
    <2>3. ASSUME NEW a \in S, NEW b \in S, a.table = b.table
          PROVE  a = b
        <3>1. PICK t \in D : a = Match(t)
            OBVIOUS
        <3>2. PICK u \in D : b = Match(u)
            OBVIOUS
        <3>3. t = u
            BY <1>2, <2>1, <2>3, <3>1, <3>2
        <3> QED BY <3>1, <3>2, <3>3
    <2> QED BY <1>3, <2>2, <2>3 DEF OnePerTable
<1>5. \A m \in S : Says(m, v)
    BY <1>2 DEF Says
<1> HIDE DEF S
<1>6. /\ Ranked(S) \in Seq(S)
      /\ \A i \in DOMAIN Ranked(S) : Ranked(S)[i] \in S
    BY <1>4, RankedMembers
<1>7. Range(Ranked(S)) \in SUBSET S /\ Ranked(S) \in Seq(Range(Ranked(S)))
    BY <1>6 DEF Range
<1>8. IsFiniteSet(Range(Ranked(S)))
    BY <1>4, <1>7, FS_Subset DEF OnePerTable
<1>9. OnePerTable(Range(Ranked(S)))
    BY <1>4, <1>7, <1>8 DEF OnePerTable
<1> QED BY <1>1, <1>5, <1>7, <1>9

LEMMA PartOfPlaces ==
    ASSUME NEW n \in Nat, NEW D \in SUBSET (1 .. n)
    PROVE  IsFiniteSet(D) /\ Cardinality(D) \in Nat
<1>1. IsFiniteSet(1 .. n)
    BY FS_Interval
<1>2. IsFiniteSet(D)
    BY <1>1, FS_Subset
<1> QED BY <1>2, FS_CardinalityType

\* The reads of a call, in their order: one for each table that is added, two
\* for each match.
LEMMA ReadsInRange ==
    ASSUME NEW q \in Question, NEW s \in Seq(Version), Complete(q, s)
    PROVE  /\ 1 \in DOMAIN s
           /\ Additions(q, s) \subseteq DOMAIN q.hinted /\ IsFiniteSet(Additions(q, s))
           /\ Cardinality(Additions(q, s)) \in Nat
           /\ \A i \in Additions(q, s) : ReadFor(Additions(q, s), i) \in DOMAIN s
<1> DEFINE new == Additions(q, s)
<1>1. q.hinted \in Seq(Table)
    BY DEF Question
<1>2. new \subseteq DOMAIN q.hinted
    BY DEF Additions, Added
<1>3. IsFiniteSet(new) /\ Cardinality(new) \in Nat
    <2>1. PICK n \in Nat : DOMAIN q.hinted = 1 .. n
        BY <1>1
    <2>2. new \in SUBSET (1 .. n)
        BY <1>2, <2>1
    <2> HIDE DEF new
    <2> QED BY <2>2, PartOfPlaces
<1>4. s # <<>> /\ Len(s) > Cardinality(new)
    BY DEF Complete
<1> HIDE DEF new
<1>5. ASSUME NEW i \in new
      PROVE  ReadFor(new, i) \in DOMAIN s
    <2>1. {j \in new : j <= i} \in SUBSET new
        OBVIOUS
    <2>2. /\ IsFiniteSet({j \in new : j <= i})
          /\ Cardinality({j \in new : j <= i}) <= Cardinality(new)
        BY <1>3, <2>1, FS_Subset
    <2>3. Cardinality({j \in new : j <= i}) \in Nat
        BY <2>2, FS_CardinalityType
    <2>4. PICK c \in Nat : c = Cardinality({j \in new : j <= i}) /\ c <= Cardinality(new)
        BY <2>2, <2>3
    <2>5. ReadFor(new, i) = 1 + c
        BY <2>4 DEF ReadFor
    <2> QED BY <1>3, <1>4, <2>4, <2>5
<1> QED BY <1>2, <1>3, <1>4, <1>5 DEF new

LEMMA MatchesAreMade ==
    ASSUME NEW q \in Question, NEW s \in Seq(Version), Complete(q, s)
    PROVE  /\ Matches(q, s) \in Seq(Range(Matches(q, s))) /\ Len(Matches(q, s)) <= MaxTables
           /\ \A i \in DOMAIN Matches(q, s) : \E v \in ToSet(s) : Says(Matches(q, s)[i], v)
<1> DEFINE new == Additions(q, s)
           hits == Range(Found(q, s))
           Hint(i) == Hinted(q.hinted[i], s[ReadFor(new, i)])
           hints == {Hint(i) : i \in new}
           S == hits \cup hints
<1>1. /\ 1 \in DOMAIN s /\ new \subseteq DOMAIN q.hinted /\ IsFiniteSet(new)
      /\ \A i \in new : ReadFor(new, i) \in DOMAIN s
    BY ReadsInRange
<1>2. /\ s[1] \in Version /\ s[1] \in ToSet(s)
      /\ \A i \in new : s[ReadFor(new, i)] \in Version /\ s[ReadFor(new, i)] \in ToSet(s)
    BY <1>1 DEF ToSet
<1>3. q.hinted \in Seq(Table) /\ \A i, j \in DOMAIN q.hinted : q.hinted[i] = q.hinted[j] => i = j
    BY DEF Question, IsInjective
<1>4. ASSUME NEW i \in new
      PROVE  /\ Hint(i).table = q.hinted[i] /\ Hint(i).table \in Table
             /\ Hint(i).table \notin TablesOf(Found(q, s))
             /\ Says(Hint(i), s[ReadFor(new, i)])
    <2>1. q.hinted[i] \in Table /\ q.hinted[i] \notin TablesOf(Found(q, s))
        BY <1>1, <1>3 DEF Additions, Added
    <2>2. /\ Hint(i).table = q.hinted[i]
          /\ Hint(i).columns = Leading(s[ReadFor(new, i)], q.hinted[i])
          /\ Hint(i).known = (Of(s[ReadFor(new, i)], q.hinted[i]) # {})
          /\ Hint(i).confidence \in Int
        BY DEF Hinted
    <2>3. /\ Hint(i).columns \subseteq Of(s[ReadFor(new, i)], q.hinted[i])
          /\ (Hint(i).known = FALSE) => Hint(i).columns = {}
        BY <1>2, <2>1, <2>2, OfTable
    <2> QED BY <2>1, <2>2, <2>3 DEF Says
<1>5. OnePerTable(hits) /\ \A m \in hits : Says(m, s[1])
    BY <1>2, SearchFinds DEF Found
<1>6. \A m \in hits : m.table \in TablesOf(Found(q, s))
    BY DEF Range, TablesOf
<1> HIDE DEF Hint, new, hits
<1>7. IsFiniteSet(hints)
    <2>1. PICK f : f = [i \in new |-> Hint(i)]
        OBVIOUS
    <2>2. f = [i \in new |-> f[i]] /\ \A i \in new : f[i] = Hint(i)
        BY <2>1
    <2>3. IsFiniteSet({f[i] : i \in new})
        BY <1>1, <2>2, ImageOfFinite
    <2>4. {f[i] : i \in new} = hints
        BY <2>2
    <2> QED BY <2>3, <2>4
<1>8. IsFiniteSet(S)
    BY <1>5, <1>7, FS_Union DEF OnePerTable
<1>9. ASSUME NEW a \in S, NEW b \in S, a.table = b.table
      PROVE  a = b
    <2>1. CASE a \in hits /\ b \in hits
        BY <1>5, <1>9, <2>1 DEF OnePerTable
    <2>2. CASE a \in hints /\ b \in hints
        <3>1. PICK i \in new : a = Hint(i)
            BY <2>2
        <3>2. PICK j \in new : b = Hint(j)
            BY <2>2
        <3>3. i = j
            BY <1>1, <1>3, <1>4, <1>9, <3>1, <3>2
        <3> QED BY <3>1, <3>2, <3>3
    <2>3. ~(a \in hits /\ b \in hints) /\ ~(a \in hints /\ b \in hits)
        BY <1>4, <1>6, <1>9
    <2> QED BY <2>1, <2>2, <2>3
<1>10. \A m \in S : \E v \in ToSet(s) : Says(m, v)
    BY <1>2, <1>4, <1>5
<1>11. OnePerTable(S)
    <2>1. \A m \in S : m.confidence \in Int /\ m.table \in Table
        BY <1>10 DEF Says
    <2> QED BY <1>8, <1>9, <2>1, ContentsAssumption DEF OnePerTable
<1>12. Matches(q, s) = Ranked(S)
    BY DEF Matches, Hint, new, hits
<1> HIDE DEF S
<1>13. /\ Ranked(S) \in Seq(S) /\ Len(Ranked(S)) <= MaxTables
       /\ \A i \in DOMAIN Ranked(S) : Ranked(S)[i] \in S
    BY <1>11, RankedMembers
<1>14. Ranked(S) \in Seq(Range(Ranked(S)))
    BY <1>13 DEF Range
<1> QED BY <1>10, <1>12, <1>13, <1>14

\* What a complete call advises, whatever refreshes came between its reads.
LEMMA Advice ==
    ASSUME NEW q \in Question, NEW s \in Seq(Version), Complete(q, s),
           NEW ms, ms = Matches(q, s),
           NEW vs, vs = [i \in DOMAIN ms |-> JoinsAt(q, s, i)]
    PROVE  /\ Len(ms) <= MaxTables
           /\ \A i \in DOMAIN ms :
                  Recommended(q, ms[i], ColumnsAt(q, s, i)) \subseteq
                      UNION {Of(v, ms[i].table) : v \in ToSet(s)}
           /\ Cardinality(ToSet(s)) = 1 =>
                  /\ \A i \in DOMAIN ms :
                         ms[i].columns \subseteq Recommended(q, ms[i], ColumnsAt(q, s, i))
                  /\ \A join \in Joins(ms, vs) :
                         join[3] \in Important =>
                             \A i \in {join[1], join[2]} :
                                 join[3] \in Recommended(q, ms[i], ColumnsAt(q, s, i))
<1>1. /\ ms \in Seq(Range(ms)) /\ Len(ms) <= MaxTables
      /\ \A i \in DOMAIN ms : \E v \in ToSet(s) : Says(ms[i], v)
    BY MatchesAreMade
<1>2. PICK n \in Nat : n = Cardinality(Additions(q, s))
    BY ReadsInRange
<1>3. Len(s) = 1 + n + 2 * Len(ms)
    BY <1>2 DEF Complete
<1>4. ASSUME NEW i \in DOMAIN ms
      PROVE  ColumnsAt(q, s, i) \in ToSet(s) /\ JoinsAt(q, s, i) \in ToSet(s)
    <2>1. i \in 1 .. Len(ms) /\ Len(ms) \in Nat
        BY <1>1
    <2>2. 1 + n + i \in DOMAIN s /\ 1 + n + Len(ms) + i \in DOMAIN s
        BY <1>3, <2>1
    <2>3. ColumnsAt(q, s, i) = s[1 + n + i] /\ JoinsAt(q, s, i) = s[1 + n + Len(ms) + i]
        BY <1>2 DEF ColumnsAt, JoinsAt
    <2> QED BY <2>2, <2>3 DEF ToSet
<1>5. \A i \in DOMAIN ms : Recommended(q, ms[i], ColumnsAt(q, s, i)) \subseteq
                               UNION {Of(v, ms[i].table) : v \in ToSet(s)}
    BY <1>4 DEF Recommended
<1>6. ASSUME Cardinality(ToSet(s)) = 1
      PROVE  /\ \A i \in DOMAIN ms :
                    ms[i].columns \subseteq Recommended(q, ms[i], ColumnsAt(q, s, i))
             /\ \A join \in Joins(ms, vs) :
                    join[3] \in Important =>
                        \A i \in {join[1], join[2]} :
                            join[3] \in Recommended(q, ms[i], ColumnsAt(q, s, i))
    <2>1. IsFiniteSet(ToSet(s))
        <3>1. PICK k \in Nat : DOMAIN s = 1 .. k /\ s = [i \in 1 .. k |-> s[i]]
            OBVIOUS
        <3>2. IsFiniteSet(1 .. k)
            BY FS_Interval
        <3>3. IsFiniteSet({s[i] : i \in DOMAIN s})
            BY <3>1, <3>2, ImageOfFinite
        <3> QED BY <3>3 DEF ToSet
    <2>2. PICK v : ToSet(s) = {v}
        BY <1>6, <2>1, FS_Singleton
    <2>3. \A i \in DOMAIN ms : /\ Says(ms[i], v)
                               /\ ColumnsAt(q, s, i) = v /\ JoinsAt(q, s, i) = v
        BY <1>1, <1>4, <2>2
    <2>4. \A i \in DOMAIN ms :
              ms[i].columns \subseteq Recommended(q, ms[i], ColumnsAt(q, s, i))
        BY <2>3 DEF Says, Recommended, Recommends
    <2>5. ASSUME NEW join \in Joins(ms, vs), join[3] \in Important, NEW i \in {join[1], join[2]}
          PROVE  join[3] \in Recommended(q, ms[i], ColumnsAt(q, s, i))
        <3>1. /\ i \in DOMAIN ms /\ ms[i].known
              /\ join[3] \in Of(vs[i], ms[i].table)
            BY <2>5 DEF Joins
        <3>2. vs[i] = v
            BY <2>3, <3>1
        <3> QED BY <2>3, <2>5, <3>1, <3>2 DEF Recommended, Recommends
    <2> QED BY <2>4, <2>5
<1> QED BY <1>1, <1>5, <1>6

-------------------------------------------------------------------------------
(* The bootstrap.                                                          *)

\* What a bootstrap knows stays true through the steps of the others.
LEMMA BootOthers ==
    ASSUME DatasourcesInv, BootInv, NEW w \in Workers, Own(w), OwnBootstrap(w), Grows,
           NEW v \in Workers \ {w}
    PROVE  BootAt(v)'
<1>1. /\ at'[v] = at[v] /\ on'[v] = on[v] /\ boot'[v] = boot[v] /\ found'[v] = found[v]
      /\ late'[v] = late[v] /\ source'[v] = source[v]
    BY DEF Own, OwnBootstrap
<1>2. BootAt(v)
    BY DEF BootInv
<1>3. rows \subseteq Ids
    BY DEF DatasourcesInv, DatasourcesTypeOK
<1> QED BY <1>1, <1>2, <1>3 DEF BootAt, Ready, Grows

\* And so what its run relies on.
LEMMA RunsApart ==
    ASSUME DatasourcesInv, EnvRunsAreReady, Grows, runs' = runs
    PROVE  EnvRunsAreReady'
BY DEF DatasourcesInv, DatasourcesTypeOK, EnvRunsAreReady, Grows

\* What a step of w's bootstrap comes to.
BootstrapStepOf(w) ==
    /\ DatasourcesInv' /\ Grows /\ Own(w) /\ at'[w] \in RegistryStep
    /\ RuntimeTypes' /\ OwnBootstrap(w) /\ BootAt(w)' /\ EnvRunsAreReady'

LEMMA StoreApart ==
    ASSUME DatasourcesInv, UNCHANGED dvars, NEW w \in Workers
    PROVE  DatasourcesInv' /\ Grows /\ Own(w) /\ UNCHANGED <<at, on, rows, secrets, catalog>>
BY DEF dvars, store, local, DatasourcesInv, DatasourcesTypeOK, MakingInv, ReadingInv,
       DatasourcesAreUsable, Grows, Own

LEMMA ProceedTypes ==
    ASSUME RuntimeTypes, NEW w \in Workers, NEW next \in Boot, NEW d \in Ids \cup {None},
           Proceed(w, next, d)
    PROVE  /\ RuntimeTypes' /\ OwnBootstrap(w)
           /\ boot'[w] = next /\ found'[w] = d /\ source'[w] = source[w] /\ runs' = runs
           /\ next = "create" => late' = late
<1>1. /\ boot' = [boot EXCEPT ![w] = next] /\ found' = [found EXCEPT ![w] = d]
      /\ source' = source /\ runs' = runs
    BY DEF Proceed
<1>2. CASE next = "create"
    <2>1. password' = password /\ late' = late
        BY <1>2 DEF Proceed
    <2> QED BY <1>1, <2>1 DEF RuntimeTypes, OwnBootstrap
<1>3. CASE next # "create"
    <2>1. /\ password' = [password EXCEPT ![w] = "right"]
          /\ late' = [late EXCEPT ![w] = FALSE]
        BY <1>3 DEF Proceed, Settle
    <2> QED BY <1>1, <1>3, <2>1 DEF RuntimeTypes, OwnBootstrap, Password
<1> QED BY <1>2, <1>3

LEMMA EndTypes ==
    ASSUME RuntimeTypes, NEW w \in Workers, EndBootstrap(w), runs' \subseteq Ids
    PROVE  /\ RuntimeTypes' /\ OwnBootstrap(w)
           /\ boot'[w] = "none" /\ source'[w] = "cli"
BY DEF EndBootstrap, Settle, RuntimeTypes, OwnBootstrap, Password, Boot, Source

LEMMA AskByIdStep ==
    ASSUME IInv, NEW w \in Workers, NEW d \in Ids, AskById(w, d)
    PROVE  BootstrapStepOf(w) /\ at[w] \in RegistryStep
<1>1. at[w] = "idle" /\ boot[w] = "none" /\ Proceed(w, "run", d) /\ UNCHANGED dvars
    BY DEF AskById, Idle
<1>2. DatasourcesInv' /\ Grows /\ Own(w) /\ UNCHANGED <<at, on, rows, secrets, catalog>>
    BY <1>1, StoreApart DEF IInv
<1>3. /\ RuntimeTypes' /\ OwnBootstrap(w)
      /\ boot'[w] = "run" /\ source'[w] = source[w] /\ runs' = runs
    BY <1>1, ProceedTypes DEF IInv, Boot
<1>4. source[w] = "cli"
    BY <1>1 DEF IInv, BootInv, BootAt
<1>5. BootAt(w)'
    BY <1>1, <1>2, <1>3, <1>4 DEF BootAt
<1>6. EnvRunsAreReady'
    BY <1>2, <1>3, RunsApart DEF IInv
<1> QED BY <1>1, <1>2, <1>3, <1>5, <1>6 DEF BootstrapStepOf, RegistryStep

LEMMA AskStep ==
    ASSUME IInv, NEW w \in Workers, NEW p \in Password, Ask(w, p)
    PROVE  BootstrapStepOf(w) /\ at[w] \in RegistryStep
<1>1. /\ at[w] = "idle" /\ UNCHANGED dvars
      /\ boot' = [boot EXCEPT ![w] = "list"]
      /\ password' = [password EXCEPT ![w] = p]
      /\ late' = [late EXCEPT ![w] = (rows # {})]
      /\ source' = [source EXCEPT ![w] = "env"]
      /\ UNCHANGED <<found, runs>>
    BY DEF Ask, Idle
<1>2. DatasourcesInv' /\ Grows /\ Own(w) /\ UNCHANGED <<at, on, rows, secrets, catalog>>
    BY <1>1, StoreApart DEF IInv
<1>3. RuntimeTypes' /\ OwnBootstrap(w) /\ boot'[w] = "list"
    BY <1>1 DEF IInv, RuntimeTypes, OwnBootstrap, Boot, Source
<1>4. late'[w] => rows # {}
    BY <1>1 DEF IInv, RuntimeTypes
<1>5. BootAt(w)'
    BY <1>1, <1>2, <1>3, <1>4 DEF BootAt
<1>6. EnvRunsAreReady'
    BY <1>1, <1>2, RunsApart DEF IInv
<1> QED BY <1>1, <1>2, <1>3, <1>5, <1>6 DEF BootstrapStepOf, RegistryStep

\* The first match is taken; without one the database is registered.
LEMMA ListStep ==
    ASSUME IInv, NEW w \in Workers, List(w)
    PROVE  BootstrapStepOf(w) /\ at[w] \in RegistryStep
<1>1. boot[w] = "list" /\ UNCHANGED dvars
    BY DEF List
<1>2. at[w] = "idle" /\ (late[w] => rows # {})
    BY <1>1 DEF IInv, BootInv, BootAt
<1>3. DatasourcesInv' /\ Grows /\ Own(w) /\ UNCHANGED <<at, on, rows, secrets, catalog>>
    BY <1>1, StoreApart DEF IInv
<1>4. CASE rows = {}
    <2>1. Proceed(w, "create", None)
        BY <1>4 DEF List, Matching
    <2>2. /\ RuntimeTypes' /\ OwnBootstrap(w)
          /\ boot'[w] = "create" /\ late' = late /\ runs' = runs
        BY <2>1, ProceedTypes DEF IInv, Boot
    <2>3. BootAt(w)'
        BY <1>2, <1>3, <1>4, <2>2 DEF BootAt
    <2>4. EnvRunsAreReady'
        BY <1>3, <2>2, RunsApart DEF IInv
    <2> QED BY <1>2, <1>3, <2>2, <2>3, <2>4 DEF BootstrapStepOf, RegistryStep
<1>5. CASE rows # {}
    <2>1. PICK d \in rows : Proceed(w, "test", d)
        BY <1>5 DEF List, Matching
    <2>2. d \in Ids
        BY DEF IInv, DatasourcesInv, DatasourcesTypeOK
    <2>3. /\ RuntimeTypes' /\ OwnBootstrap(w)
          /\ boot'[w] = "test" /\ found'[w] = d /\ runs' = runs
        BY <2>1, <2>2, ProceedTypes DEF IInv, Boot
    <2>4. BootAt(w)'
        BY <1>2, <1>3, <2>3 DEF BootAt
    <2>5. EnvRunsAreReady'
        BY <1>3, <2>3, RunsApart DEF IInv
    <2> QED BY <1>2, <1>3, <2>3, <2>4, <2>5 DEF BootstrapStepOf, RegistryStep
<1> QED BY <1>4, <1>5

LEMMA TestStep ==
    ASSUME IInv, NEW w \in Workers, Test(w)
    PROVE  BootstrapStepOf(w) /\ at[w] \in RegistryStep
<1>1. /\ boot[w] = "test" /\ secrets[found[w]] = "right" /\ UNCHANGED dvars
      /\ Proceed(w, "refresh", found[w])
    BY DEF Test, After
<1>2. at[w] = "idle" /\ found[w] \in rows /\ found[w] \in Ids
    BY <1>1 DEF IInv, BootInv, BootAt, DatasourcesInv, DatasourcesTypeOK
<1>3. DatasourcesInv' /\ Grows /\ Own(w) /\ UNCHANGED <<at, on, rows, secrets, catalog>>
    BY <1>1, StoreApart DEF IInv
<1>4. /\ RuntimeTypes' /\ OwnBootstrap(w)
      /\ boot'[w] = "refresh" /\ found'[w] = found[w] /\ runs' = runs
    BY <1>1, <1>2, ProceedTypes DEF IInv, Boot
<1>5. BootAt(w)'
    BY <1>1, <1>2, <1>3, <1>4 DEF BootAt
<1>6. EnvRunsAreReady'
    BY <1>3, <1>4, RunsApart DEF IInv
<1> QED BY <1>2, <1>3, <1>4, <1>5, <1>6 DEF BootstrapStepOf, RegistryStep

LEMMA CreateRunStep ==
    ASSUME IInv, NEW w \in Workers, CreateRun(w)
    PROVE  BootstrapStepOf(w) /\ at[w] \in RegistryStep
<1>1. /\ boot[w] = "run" /\ EndBootstrap(w) /\ UNCHANGED dvars
      /\ runs' = IF source[w] = "env" THEN runs \cup {found[w]} ELSE runs
    BY DEF CreateRun
<1>2. at[w] = "idle" /\ (source[w] = "env" => Ready(found[w]))
    BY <1>1 DEF IInv, BootInv, BootAt
<1>3. DatasourcesInv' /\ Grows /\ Own(w) /\ UNCHANGED <<at, on, rows, secrets, catalog>>
    BY <1>1, StoreApart DEF IInv
<1>4. \A d \in runs' : Ready(d)
    BY <1>1, <1>2 DEF IInv, EnvRunsAreReady, Ready
<1>5. EnvRunsAreReady' /\ runs' \subseteq Ids
    BY <1>3, <1>4 DEF EnvRunsAreReady, Ready, IInv, DatasourcesInv, DatasourcesTypeOK
<1>6. RuntimeTypes' /\ OwnBootstrap(w) /\ boot'[w] = "none" /\ source'[w] = "cli"
    BY <1>1, <1>5, EndTypes DEF IInv
<1>7. BootAt(w)'
    BY <1>6 DEF BootAt
<1> QED BY <1>2, <1>3, <1>5, <1>6, <1>7 DEF BootstrapStepOf, RegistryStep

LEMMA AbortStep ==
    ASSUME IInv, NEW w \in Workers, Abort(w)
    PROVE  BootstrapStepOf(w) /\ at[w] \in RegistryStep
<1>1. EndBootstrap(w) /\ runs' = runs
    BY DEF Abort
<1>2. /\ DatasourcesInv' /\ Grows /\ Own(w)
      /\ at[w] \in RegistryStep /\ at'[w] \in RegistryStep
    <2>1. CASE Stop(w)
        BY <2>1, StopStep DEF IInv, Stop, RegistryStep
    <2>2. CASE at[w] = "idle" /\ UNCHANGED dvars
        BY <2>2, StoreApart DEF IInv, RegistryStep
    <2> QED BY <2>1, <2>2 DEF Abort
<1>3. RuntimeTypes' /\ OwnBootstrap(w) /\ boot'[w] = "none" /\ source'[w] = "cli"
    BY <1>1, EndTypes DEF IInv, RuntimeTypes
<1>4. BootAt(w)' /\ EnvRunsAreReady'
    BY <1>1, <1>2, <1>3, RunsApart DEF BootAt, IInv
<1> QED BY <1>2, <1>3, <1>4 DEF BootstrapStepOf

\* What a step inside a call leaves of the bootstrap that makes it.
LEMMA RuntimeApart ==
    ASSUME IInv, UNCHANGED runtime, Grows, NEW w \in Workers
    PROVE  /\ RuntimeTypes' /\ OwnBootstrap(w) /\ EnvRunsAreReady'
           /\ UNCHANGED <<boot, found, late, source>>
<1>1. UNCHANGED <<boot, password, found, late, source, runs>>
    BY DEF runtime
<1>2. RuntimeTypes' /\ OwnBootstrap(w)
    BY <1>1 DEF IInv, RuntimeTypes, OwnBootstrap
<1>3. EnvRunsAreReady'
    BY <1>1, RunsApart DEF IInv
<1> QED BY <1>1, <1>2, <1>3

LEMMA CallCreateStep ==
    ASSUME IInv, NEW w \in Workers, NEW d \in Ids, CallCreate(w, d)
    PROVE  BootstrapStepOf(w) /\ at[w] \in RegistryStep
<1>1. boot[w] = "create" /\ Create(w, d, password[w]) /\ UNCHANGED runtime
    BY DEF CallCreate
<1>2. password[w] \in Password
    BY DEF IInv, RuntimeTypes
<1>3. DatasourcesInv' /\ Grows /\ Own(w) /\ at'[w] = "secret" /\ at[w] = "idle"
    BY <1>1, <1>2, CreateStep DEF IInv, Create
<1>4. /\ RuntimeTypes' /\ OwnBootstrap(w) /\ EnvRunsAreReady'
      /\ UNCHANGED <<boot, found, late, source>>
    BY <1>1, <1>3, RuntimeApart
<1>5. BootAt(w)'
    BY <1>1, <1>3, <1>4 DEF IInv, BootInv, BootAt, Making
<1> QED BY <1>3, <1>4, <1>5 DEF BootstrapStepOf, RegistryStep

\* What was registered can be found from then on.
LEMMA CreatedStep ==
    ASSUME IInv, NEW w \in Workers, Created(w)
    PROVE  BootstrapStepOf(w) /\ at[w] \in RegistryStep
<1>1. boot[w] = "create" /\ InsertRow(w) /\ Proceed(w, "test", on[w])
    BY DEF Created, After
<1>2. /\ DatasourcesInv' /\ Grows /\ Own(w) /\ at'[w] = "idle" /\ at[w] = "row"
      /\ on[w] \in rows'
    BY <1>1, InsertRowStep DEF IInv, InsertRow
<1>3. on[w] \in Ids \cup {None}
    BY DEF IInv, DatasourcesInv, DatasourcesTypeOK
<1>4. /\ RuntimeTypes' /\ OwnBootstrap(w)
      /\ boot'[w] = "test" /\ found'[w] = on[w] /\ runs' = runs
    BY <1>1, <1>3, ProceedTypes DEF IInv, Boot
<1>5. BootAt(w)'
    BY <1>2, <1>4 DEF BootAt
<1>6. EnvRunsAreReady'
    BY <1>2, <1>4, RunsApart DEF IInv
<1> QED BY <1>2, <1>4, <1>5, <1>6 DEF BootstrapStepOf, RegistryStep

LEMMA CallRefreshStep ==
    ASSUME IInv, NEW w \in Workers, CallRefresh(w)
    PROVE  BootstrapStepOf(w) /\ at[w] \in RegistryStep
<1>1. boot[w] = "refresh" /\ Refresh(w, found[w]) /\ UNCHANGED runtime
    BY DEF CallRefresh
<1>2. /\ DatasourcesInv' /\ Grows /\ Own(w) /\ at'[w] = "introspect" /\ at[w] = "idle"
      /\ on'[w] = found[w]
    BY <1>1, RefreshStep DEF IInv, Refresh
<1>3. /\ RuntimeTypes' /\ OwnBootstrap(w) /\ EnvRunsAreReady'
      /\ UNCHANGED <<boot, found, late, source>>
    BY <1>1, <1>2, RuntimeApart
<1>4. found[w] \in rows /\ secrets[found[w]] = "right"
    BY <1>1 DEF IInv, BootInv, BootAt
<1>5. found'[w] \in rows' /\ secrets'[found'[w]] = "right"
    BY <1>2, <1>3, <1>4 DEF Grows
<1>6. BootAt(w)'
    BY <1>1, <1>2, <1>3, <1>5 DEF BootAt, Reading
<1> QED BY <1>2, <1>3, <1>6 DEF BootstrapStepOf, RegistryStep

\* After a refresh the datasource is what EnvRunsAreReady asks of it.
LEMMA RefreshedStep ==
    ASSUME IInv, NEW w \in Workers, Refreshed(w)
    PROVE  BootstrapStepOf(w) /\ at[w] \in RegistryStep
<1>1. boot[w] = "refresh" /\ InsertColumns(w) /\ Proceed(w, "run", found[w])
    BY DEF Refreshed, After
<1>2. /\ DatasourcesInv' /\ Grows /\ Own(w) /\ at'[w] = "idle" /\ at[w] = "deleted"
      /\ catalog'[on[w]] # 0
    BY <1>1, InsertColumnsStep DEF IInv
<1>3. found[w] \in rows /\ secrets[found[w]] = "right" /\ on[w] = found[w]
    BY <1>1, <1>2 DEF IInv, BootInv, BootAt
<1>4. found[w] \in Ids
    BY <1>3 DEF IInv, DatasourcesInv, DatasourcesTypeOK
<1>5. /\ RuntimeTypes' /\ OwnBootstrap(w)
      /\ boot'[w] = "run" /\ found'[w] = found[w] /\ runs' = runs
    BY <1>1, <1>4, ProceedTypes DEF IInv, Boot
<1>6. Ready(found[w])'
    BY <1>2, <1>3, <1>5 DEF Ready, Grows
<1>7. BootAt(w)'
    BY <1>2, <1>5, <1>6 DEF BootAt
<1>8. EnvRunsAreReady'
    BY <1>2, <1>5, RunsApart DEF IInv
<1> QED BY <1>2, <1>5, <1>7, <1>8 DEF BootstrapStepOf, RegistryStep

LEMMA InCallStep ==
    ASSUME IInv, NEW w \in Workers, InCall(w)
    PROVE  BootstrapStepOf(w) /\ at[w] \in RegistryStep
<1>1. boot[w] \in {"create", "refresh"} /\ UNCHANGED runtime
    BY DEF InCall
<1>2. /\ DatasourcesInv' /\ Grows /\ Own(w) /\ on'[w] = on[w]
      /\ \/ at[w] \in Making /\ at'[w] \in Making
         \/ at[w] \in Reading /\ at'[w] \in Reading
    <2>1. CASE OpenSecret(w)
        BY <2>1, OpenSecretStep DEF IInv, OpenSecret, Making, local
    <2>2. CASE FillSecret(w)
        BY <2>2, FillSecretStep DEF IInv, FillSecret, Making, local
    <2>3. CASE Introspect(w)
        BY <2>3, IntrospectStep DEF IInv, Introspect, Reading
    <2>4. CASE DeleteColumns(w)
        BY <2>4, DeleteColumnsStep DEF IInv, DeleteColumns, Reading
    <2> QED BY <2>1, <2>2, <2>3, <2>4 DEF InCall, InCreate, InRefresh
<1>3. /\ RuntimeTypes' /\ OwnBootstrap(w) /\ EnvRunsAreReady'
      /\ UNCHANGED <<boot, found, late, source>>
    BY <1>1, <1>2, RuntimeApart
<1>4. BootAt(w)'
    <2>1. CASE boot[w] = "create"
        BY <2>1, <1>2, <1>3 DEF IInv, BootInv, BootAt, Making, Reading
    <2>2. CASE boot[w] = "refresh"
        <3>1. /\ found[w] \in rows /\ secrets[found[w]] = "right"
              /\ at[w] \in Reading /\ at'[w] \in Reading /\ on[w] = found[w]
            BY <2>2, <1>2 DEF IInv, BootInv, BootAt, Making, Reading
        <3>2. found[w] \in rows' /\ secrets'[found[w]] = "right"
            BY <3>1, <1>2 DEF Grows
        <3> QED BY <2>2, <3>1, <3>2, <1>2, <1>3 DEF BootAt
    <2> QED BY <2>1, <2>2, <1>1
<1>5. at[w] \in RegistryStep /\ at'[w] \in RegistryStep
    BY <1>2 DEF Making, Reading, RegistryStep
<1> QED BY <1>2, <1>3, <1>4, <1>5 DEF BootstrapStepOf

LEMMA RuntimeNextIs ==
    ASSUME IInv, NEW w \in Workers, RuntimeNext(w)
    PROVE  BootstrapStepOf(w) /\ at[w] \in RegistryStep
BY AskByIdStep, CallCreateStep, AskStep, ListStep, CreatedStep, TestStep, CallRefreshStep,
   RefreshedStep, InCallStep, CreateRunStep, AbortStep
   DEF RuntimeNext

\* A bootstrap leaves the queries and the contexts of others alone.
LEMMA CallsApart ==
    ASSUME NEW w \in Workers, RuntimeNext(w)
    PROVE  UNCHANGED <<query, context>>
BY DEF RuntimeNext, AskById, CallCreate, Ask, List, Created, Test, CallRefresh, Refreshed, InCall,
       CreateRun, Abort, calls

-------------------------------------------------------------------------------
(* The invariant, and what follows from it.                                *)

LEMMA InitIInv == Init => IInv
<1> SUFFICES ASSUME Init PROVE IInv
    OBVIOUS
<1>1. 1 \in Version /\ 0 \in Version
    BY BoundAssumption DEF Version
<1>2. AnyMaximum \in Maxima /\ 0 \in Limits
    BY LimitAssumption DEF AnyMaximum
<1> USE DEF Init, QueriesInit, DatasourcesInit, ContextInit
<1>3. DatasourcesTypeOK /\ at \in [Workers -> Steps]
    BY <1>1 DEF DatasourcesTypeOK, Steps, RegistryStep, Password
<1>4. MakingInv /\ ReadingInv /\ DatasourcesAreUsable
    BY DEF MakingInv, ReadingInv, DatasourcesAreUsable, Making, Reading
<1>5. QueryTypes
    BY <1>2 DEF QueryTypes, Tool, Answer
<1>6. QueryInv
    BY DEF QueryInv, QueryAt, Checked
<1>7. ContextTypeOK /\ ContextInv
    BY DEF ContextTypeOK, ContextInv, ContextAt, ContextStep
<1>8. RuntimeTypes
    BY DEF RuntimeTypes, Boot, Password, Source
<1>9. BootInv /\ EnvRunsAreReady
    BY DEF BootInv, BootAt, EnvRunsAreReady
<1> QED BY <1>3, <1>4, <1>5, <1>6, <1>7, <1>8, <1>9 DEF IInv, DatasourcesInv

\* The parts that other calls than w's bootstrap leave alone.
LEMMA AlteredIInv ==
    ASSUME IInv, Alter, UNCHANGED <<calls, runtime>>
    PROVE  IInv' /\ Grows
<1>1. DatasourcesInv' /\ Grows /\ UNCHANGED at /\ UNCHANGED <<on, given, since, held>>
    BY AlterStep DEF IInv, local
<1>2. UNCHANGED <<maximum, tool, asked, valid, text, ran, result, answer>>
      /\ UNCHANGED <<question, seen>> /\ UNCHANGED <<boot, password, found, late, source, runs>>
    BY DEF calls, query, context, runtime
<1>3. QueryTypes' /\ QueryInv'
    BY <1>1, <1>2 DEF IInv, QueryTypes, QueryInv, QueryAt, Limit
<1>4. ContextTypeOK' /\ ContextInv'
    BY <1>1, <1>2 DEF IInv, ContextTypeOK, ContextInv, ContextAt, Grows
<1>5. RuntimeTypes' /\ EnvRunsAreReady'
    BY <1>1, <1>2, RunsApart DEF IInv, RuntimeTypes
<1>6. BootInv'
    <2> SUFFICES ASSUME NEW v \in Workers PROVE BootAt(v)'
        BY DEF BootInv
    <2>1. rows \subseteq Ids /\ BootAt(v)
        BY DEF IInv, DatasourcesInv, DatasourcesTypeOK, BootInv
    <2> QED BY <2>1, <1>1, <1>2 DEF BootAt, Ready, Grows
<1> QED BY <1>1, <1>3, <1>4, <1>5, <1>6 DEF IInv

LEMMA BootstrapIInv ==
    ASSUME IInv, NEW w \in Workers, RuntimeNext(w)
    PROVE  IInv' /\ Grows
<1>1. /\ DatasourcesInv' /\ Grows /\ Own(w) /\ at'[w] \in RegistryStep
      /\ RuntimeTypes' /\ OwnBootstrap(w) /\ BootAt(w)' /\ EnvRunsAreReady'
      /\ at[w] \in RegistryStep
    BY RuntimeNextIs DEF BootstrapStepOf
<1>2. UNCHANGED query /\ UNCHANGED context
    BY CallsApart
<1>3. /\ at[w] \notin QueryStep \cup ContextStep
      /\ at'[w] \notin QueryStep \cup ContextStep
    BY <1>1 DEF RegistryStep, QueryStep, ContextStep
<1>4. QueryTypes' /\ ContextTypeOK'
    BY <1>2 DEF IInv, QueryTypes, ContextTypeOK, query, context
<1>5. QueryInv'
    BY <1>1, <1>2, <1>3, QueryApart DEF IInv
<1>6. ContextInv'
    BY <1>1, <1>2, <1>3, ContextApart DEF IInv
<1>7. BootInv'
    BY <1>1, BootOthers DEF IInv, BootInv
<1> QED BY <1>1, <1>4, <1>5, <1>6, <1>7 DEF IInv

LEMMA OtherIInv ==
    ASSUME IInv, NEW w \in Workers, OtherNext(w)
    PROVE  IInv' /\ Grows
<1>1. boot[w] = "none" /\ UNCHANGED runtime
    BY DEF OtherNext
<1>2. ASSUME DatasourcesInv', Grows, Own(w)
      PROVE  RuntimeTypes' /\ EnvRunsAreReady' /\ BootInv'
    <2>1. /\ RuntimeTypes' /\ OwnBootstrap(w) /\ EnvRunsAreReady'
          /\ UNCHANGED <<boot, found, late, source>>
        BY <1>1, <1>2, RuntimeApart
    <2>2. source[w] = "cli"
        BY <1>1 DEF IInv, BootInv, BootAt
    <2>3. BootAt(w)'
        BY <1>1, <2>1, <2>2 DEF BootAt
    <2>4. \A v \in Workers \ {w} : BootAt(v)'
        BY <2>1, <1>2, BootOthers DEF IInv
    <2> QED BY <2>1, <2>3, <2>4 DEF BootInv
<1>3. CASE DatasourcesNext(w) /\ UNCHANGED calls
    <2>1. DatasourcesInv' /\ Grows /\ Own(w) /\ at[w] \in RegistryStep /\ at'[w] \in RegistryStep
        BY <1>3, DatasourcesStep DEF IInv
    <2>2. /\ at[w] \notin QueryStep \cup ContextStep
          /\ at'[w] \notin QueryStep \cup ContextStep
        BY <2>1 DEF RegistryStep, QueryStep, ContextStep
    <2>3. UNCHANGED query /\ UNCHANGED context
        BY <1>3 DEF calls
    <2>4. QueryTypes' /\ ContextTypeOK'
        BY <2>3 DEF IInv, QueryTypes, ContextTypeOK, query, context
    <2>5. QueryInv'
        BY <2>1, <2>2, <2>3, QueryApart DEF IInv
    <2>6. ContextInv'
        BY <2>1, <2>2, <2>3, ContextApart DEF IInv
    <2> QED BY <1>2, <2>1, <2>4, <2>5, <2>6 DEF IInv
<1>4. CASE QueryNext(w) /\ UNCHANGED context
    <2>1. QueryStepOf(w) /\ at[w] \in {"idle"} \cup QueryStep
        BY <1>4, QueryNextIs DEF IInv, QueryInv
    <2>2. /\ UNCHANGED store /\ Own(w) /\ OwnQuery(w)
          /\ at' \in [Workers -> Steps] /\ at'[w] \in {"idle"} \cup QueryStep
          /\ on' \in [Workers -> Ids \cup {None}] /\ given' \in [Workers -> Password]
          /\ since' \in [Workers -> Version] /\ held' \in [Workers -> Version]
          /\ QueryTypes' /\ QueryAt(w)'
        BY <2>1 DEF QueryStepOf
    <2>3. at[w] # "deleted" /\ at'[w] \notin Making \cup Reading /\ at'[w] \notin ContextStep
        BY <2>1, <2>2 DEF QueryStep, Making, Reading, ContextStep
    <2>4. DatasourcesInv' /\ Grows
        BY <2>2, <2>3, AsideStep DEF IInv
    <2>5. QueryInv'
        BY <2>2, QueryOthers DEF IInv, QueryInv
    <2>6. ContextTypeOK'
        BY <1>4 DEF IInv, ContextTypeOK, context
    <2>7. ContextInv'
        BY <1>4, <2>2, <2>3, <2>4, ContextApart DEF IInv
    <2> QED BY <1>2, <2>2, <2>4, <2>5, <2>6, <2>7 DEF IInv
<1>5. CASE ContextNext(w) /\ UNCHANGED query
    <2>1. /\ UNCHANGED store /\ Own(w) /\ OwnContext(w)
          /\ {at[w], at'[w]} \subseteq {"idle"} \cup ContextStep
          /\ at' \in [Workers -> Steps]
          /\ on' \in [Workers -> Ids \cup {None}] /\ given' \in [Workers -> Password]
          /\ since' \in [Workers -> Version] /\ held' \in [Workers -> Version]
          /\ ContextTypeOK'
          /\ ContextAt(w)'
        BY <1>5, ContextNextIs DEF IInv
    <2>2. /\ at[w] # "deleted" /\ at'[w] \notin Making \cup Reading
          /\ at[w] \notin QueryStep /\ at'[w] \notin QueryStep
        BY <2>1 DEF QueryStep, Making, Reading, ContextStep
    <2>3. DatasourcesInv' /\ Grows
        BY <2>1, <2>2, AsideStep DEF IInv
    <2>4. QueryTypes'
        BY <1>5 DEF IInv, QueryTypes, query
    <2>5. QueryInv'
        BY <1>5, <2>1, <2>2, QueryApart DEF IInv
    <2>6. ContextInv'
        BY <2>1, <2>3, ContextOthers DEF IInv
    <2> QED BY <1>2, <2>1, <2>3, <2>4, <2>5, <2>6 DEF IInv
<1> QED BY <1>3, <1>4, <1>5 DEF OtherNext

LEMMA NextIInv ==
    ASSUME IInv, Next
    PROVE  IInv' /\ Grows
BY AlteredIInv, BootstrapIInv, OtherIInv DEF Next

LEMMA StutterIInv ==
    ASSUME IInv, UNCHANGED vars
    PROVE  IInv'
<1>1. /\ UNCHANGED <<live, created, secrets, rows, catalog, begun, lock, at>>
      /\ UNCHANGED <<on, given, since, held>>
      /\ UNCHANGED <<maximum, tool, asked, valid, text, ran, result, answer>>
      /\ UNCHANGED <<question, seen>> /\ UNCHANGED <<boot, password, found, late, source, runs>>
    BY DEF vars, dvars, store, local, calls, query, context, runtime
<1>2. DatasourcesInv'
    BY <1>1 DEF IInv, DatasourcesInv, DatasourcesTypeOK, MakingInv, ReadingInv,
                DatasourcesAreUsable
<1>3. QueryTypes' /\ QueryInv'
    BY <1>1 DEF IInv, QueryTypes, QueryInv, QueryAt, Limit
<1>4. ContextTypeOK' /\ ContextInv'
    BY <1>1 DEF IInv, ContextTypeOK, ContextInv, ContextAt
<1>5. RuntimeTypes' /\ BootInv' /\ EnvRunsAreReady'
    BY <1>1 DEF IInv, RuntimeTypes, BootInv, BootAt, Ready, EnvRunsAreReady
<1> QED BY <1>2, <1>3, <1>4, <1>5 DEF IInv

LEMMA Invariance == Spec => []IInv
<1>1. IInv /\ [Next]_vars => IInv'
    BY NextIInv, StutterIInv
<1> QED BY <1>1, InitIInv, PTL DEF Spec

LEMMA InvariantImplies ==
    ASSUME IInv
    PROVE  TypeOK /\ ExecutedWasChecked /\ AnswersMatchArtifacts /\ KnownIsReused
<1>1. TypeOK
    BY DEF IInv, TypeOK, DatasourcesInv, QueriesTypeOK, QueryTypes, RuntimeTypes, Steps
<1>2. ExecutedWasChecked /\ AnswersMatchArtifacts
    BY DEF IInv, QueryInv, QueryAt, ExecutedWasChecked, AnswersMatchArtifacts
<1>3. KnownIsReused
    BY DEF IInv, BootInv, BootAt, KnownIsReused
<1> QED BY <1>1, <1>2, <1>3

\* Every variable of the composition stays within its type: the calls of four
\* services that share their workers never leave one in another's step.
THEOREM TypeCorrect == Spec => []TypeOK
BY Invariance, InvariantImplies, PTL

\* create_datasource and refresh_catalog, stopped anywhere and overlapping in
\* any way: a row has its password, and a catalog is not older than the call
\* that stored it.
THEOREM UsableDatasources == Spec => []DatasourcesAreUsable
<1>1. IInv => DatasourcesAreUsable
    BY DEF IInv, DatasourcesInv
<1> QED BY <1>1, Invariance, PTL

\* No statement reaches a database before both decisions of the policy, and
\* before its text is an artifact.
THEOREM CheckedStatements == Spec => []ExecutedWasChecked
BY Invariance, InvariantImplies, PTL

\* The caller of query_datasource and run_sql_query is told of the artifacts
\* that there are.
THEOREM TruthfulAnswers == Spec => []AnswersMatchArtifacts
BY Invariance, InvariantImplies, PTL

\* What resolve_datasource_id found out call by call is true of the run that
\* it leads to, then and later.
THEOREM ReadyRuns == Spec => []EnvRunsAreReady
<1>1. IInv => EnvRunsAreReady
    BY DEF IInv
<1> QED BY <1>1, Invariance, PTL

\* A question that begins when the database is registered does not register
\* it again.
THEOREM ReusedRegistrations == Spec => []KnownIsReused
BY Invariance, InvariantImplies, PTL

\* What a context says holds together as far as one catalog was read, and makes
\* nothing up otherwise, for any catalogs, questions and limits
\* (analysis_context_service.py:83-141).
THEOREM CoherentContexts == Spec => []ContextHangsTogether
<1>1. ASSUME IInv, NEW w \in Workers, at[w] = "advised"
      PROVE  /\ Complete(question[w], seen[w]) /\ question[w] \in Question
             /\ seen[w] \in Seq(Version)
    <2>1. NoQuestion \in Question
        BY DEF NoQuestion, Question, IsInjective
    <2>2. Questions \subseteq Question
        BY ContentsAssumption
    <2> QED BY <1>1, <2>1, <2>2 DEF IInv, ContextInv, ContextAt, ContextTypeOK
<1>2. IInv => ContextHangsTogether
    BY <1>1, Advice DEF ContextHangsTogether
<1> QED BY <1>2, Invariance, PTL

-------------------------------------------------------------------------------
(* The contract of Datasources.                                            *)

\* What a refresh has read was read with the right password, and is a schema
\* that the database has had.
ReadAt(w) ==
    at[w] \in {"introspected", "deleted"} =>
        secrets[on[w]] = "right" /\ held[w] \in 1 .. live

ReadInv == \A w \in Workers : ReadAt(w)

\* What holders of datasource ids see of the passwords.
Shown == [d \in Ids |-> IF d \in rows THEN secrets[d] ELSE "none"]

\* The steps of the composition, by what they are to the datasources.
LEMMA StepsAre ==
    ASSUME IInv, [Next]_vars
    PROVE  \/ Alter \/ UNCHANGED dvars
           \/ \E w \in Workers : DatasourcesNext(w)
           \/ \E w \in Workers : UNCHANGED store /\ Own(w) /\ at'[w] \notin Reading
<1>1. ASSUME NEW w \in Workers, RuntimeNext(w)
      PROVE  UNCHANGED dvars \/ DatasourcesNext(w)
    <2>1. ASSUME NEW d \in Ids, AskById(w, d) \/ CallCreate(w, d)
          PROVE  UNCHANGED dvars \/ DatasourcesNext(w)
        BY <2>1 DEF IInv, RuntimeTypes, AskById, CallCreate, DatasourcesNext
    <2>2. ASSUME NEW p \in Password, Ask(w, p)
          PROVE  UNCHANGED dvars
        BY <2>2 DEF Ask
    <2>3. CASE CallRefresh(w)
        <3>1. found[w] \in Ids
            BY <2>3 DEF IInv, DatasourcesInv, DatasourcesTypeOK, BootInv, BootAt, CallRefresh
        <3> QED BY <2>3, <3>1 DEF CallRefresh, DatasourcesNext
    <2>4. CASE List(w) \/ Test(w) \/ CreateRun(w) \/ Abort(w)
        BY <2>4 DEF List, Test, CreateRun, Abort, DatasourcesNext
    <2>5. CASE Created(w) \/ Refreshed(w) \/ InCall(w)
        BY <2>5 DEF Created, Refreshed, InCall, DatasourcesNext
    <2> QED BY <1>1, <2>1, <2>2, <2>3, <2>4, <2>5 DEF RuntimeNext
<1>2. ASSUME NEW w \in Workers, OtherNext(w)
      PROVE  DatasourcesNext(w) \/ (UNCHANGED store /\ Own(w) /\ at'[w] \notin Reading)
    <2>1. CASE QueryNext(w)
        <3>1. UNCHANGED store /\ Own(w) /\ at'[w] \in {"idle"} \cup QueryStep
            BY <2>1, QueryNextIs DEF IInv, QueryInv, QueryStepOf
        <3> QED BY <3>1 DEF QueryStep, Reading
    <2>2. CASE ContextNext(w)
        <3>1. UNCHANGED store /\ Own(w) /\ at'[w] \in {"idle"} \cup ContextStep
            BY <2>2, ContextNextIs DEF IInv
        <3> QED BY <3>1 DEF ContextStep, Reading
    <2> QED BY <1>2, <2>1, <2>2 DEF OtherNext
<1>3. CASE UNCHANGED vars
    BY <1>3 DEF vars
<1> QED BY <1>1, <1>2, <1>3 DEF Next

\* What others have read stays so, as a row keeps its password.
LEMMA ReadStays ==
    ASSUME IInv, ReadInv, Grows, live' = live, NEW w \in Workers, Own(w), ReadAt(w)'
    PROVE  ReadInv'
<1> SUFFICES ASSUME NEW v \in Workers \ {w}, at'[v] \in {"introspected", "deleted"}
             PROVE  secrets'[on'[v]] = "right" /\ held'[v] \in 1 .. live'
    BY DEF ReadInv, ReadAt
<1>1. at'[v] = at[v] /\ on'[v] = on[v] /\ held'[v] = held[v]
    BY DEF Own
<1>2. secrets[on[v]] = "right" /\ held[v] \in 1 .. live
    BY <1>1 DEF ReadInv, ReadAt
<1>3. on[v] \in rows
    BY <1>1 DEF IInv, DatasourcesInv, ReadingInv, Reading
<1> QED BY <1>1, <1>2, <1>3 DEF Grows

LEMMA ReadStep ==
    ASSUME IInv, ReadInv, [Next]_vars
    PROVE  ReadInv'
<1>0. live \in Nat \ {0}
    BY BoundAssumption DEF IInv, DatasourcesInv, DatasourcesTypeOK, Version
<1>1. CASE Alter
    <2>1. live' = live + 1 /\ UNCHANGED <<secrets, at, on, held>>
        BY <1>1 DEF Alter, local
    <2>2. \A k : k \in 1 .. live => k \in 1 .. live + 1
        BY <1>0
    <2> QED BY <2>1, <2>2 DEF ReadInv, ReadAt
<1>2. CASE UNCHANGED dvars
    BY <1>2 DEF dvars, store, local, ReadInv, ReadAt
<1>3. ASSUME NEW w \in Workers, DatasourcesNext(w)
      PROVE  ReadInv'
    <2>1. Grows /\ Own(w)
        BY <1>3, DatasourcesStep DEF IInv
    <2>2. live' = live
        BY <1>3 DEF DatasourcesNext, InCreate, InRefresh, Refresh, Create, OpenSecret, FillSecret,
                    InsertRow, Introspect, DeleteColumns, InsertColumns, Stop, store
    <2>3. CASE Introspect(w)
        <3>1. /\ held' = [held EXCEPT ![w] = live] /\ secrets[on[w]] = "right"
              /\ UNCHANGED <<secrets, on>>
            BY <2>3 DEF Introspect, Introspected, store
        <3>2. held'[w] = live /\ live \in 1 .. live'
            BY <1>0, <2>2, <3>1 DEF IInv, DatasourcesInv, DatasourcesTypeOK
        <3>3. ReadAt(w)'
            BY <3>1, <3>2 DEF ReadAt
        <3> QED BY <2>1, <2>2, <3>3, ReadStays
    <2>4. CASE DeleteColumns(w)
        <3>1. at[w] = "introspected" /\ UNCHANGED <<live, secrets, on, held>>
            BY <2>4 DEF DeleteColumns, local
        <3>2. ReadAt(w)'
            BY <3>1 DEF ReadInv, ReadAt
        <3> QED BY <2>1, <2>2, <3>2, ReadStays
    <2>5. CASE ~Introspect(w) /\ ~DeleteColumns(w)
        <3>1. at'[w] \in {"introspect", "secret", "writing", "row", "idle"}
            BY <1>3, <2>5, RefreshStep, CreateStep, OpenSecretStep, FillSecretStep, InsertRowStep,
               InsertColumnsStep, StopStep DEF IInv, DatasourcesNext, InCreate, InRefresh
        <3>2. ReadAt(w)'
            BY <3>1 DEF ReadAt
        <3> QED BY <2>1, <2>2, <3>2, ReadStays
    <2> QED BY <2>3, <2>4, <2>5
<1>4. ASSUME NEW w \in Workers, UNCHANGED store, Own(w), at'[w] \notin Reading
      PROVE  ReadInv'
    <2>1. ReadAt(w)'
        BY <1>4 DEF ReadAt, Reading
    <2>2. Grows /\ live' = live
        BY <1>4 DEF store, Grows
    <2> QED BY <1>4, <2>1, <2>2, ReadStays
<1> QED BY <1>1, <1>2, <1>3, <1>4, StepsAre

\* A step that leaves the registered passwords, and nobody registers, is none
\* to those who look on.
LEMMA ShownStays ==
    ASSUME rows' = rows, \A d \in rows : secrets'[d] = secrets[d]
    PROVE  Shown' = Shown
<1>1. \A d \in Ids : (IF d \in rows' THEN secrets'[d] ELSE "none")
                     = IF d \in rows THEN secrets[d] ELSE "none"
    OBVIOUS
<1> QED BY <1>1 DEF Shown

\* The row registers the datasource, the last INSERT publishes its catalog;
\* the other steps are nothing to those who look on.
LEMMA ContractStep ==
    ASSUME IInv, ReadInv, [Next]_vars
    PROVE  [Contract!Next]_<<live, Shown, catalog>>
<1>1. CASE Alter
    <2>1. live' = live + 1 /\ UNCHANGED <<secrets, rows, catalog>>
        BY <1>1 DEF Alter
    <2>2. Shown' = Shown
        BY <2>1, ShownStays
    <2>3. Contract!Alter
        BY <2>1, <2>2 DEF Contract!Alter, Shown
    <2> QED BY <2>3 DEF Contract!Next
<1>2. CASE UNCHANGED store
    <2>1. UNCHANGED <<live, rows, secrets, catalog>>
        BY <1>2 DEF store
    <2> QED BY <2>1, ShownStays
<1>3. ASSUME NEW w \in Workers, DatasourcesNext(w)
      PROVE  [Contract!Next]_<<live, Shown, catalog>>
    <2>1. \A d \in rows : secrets'[d] = secrets[d]
        BY <1>3, DatasourcesStep DEF IInv, Grows
    <2>2. CASE InsertRow(w)
        <3>1. PICK d, p : d = on[w] /\ p = secrets[d]
            OBVIOUS
        <3>2. /\ at[w] = "row" /\ rows' = rows \cup {d}
              /\ UNCHANGED <<live, secrets, catalog>>
            BY <2>2, <3>1 DEF InsertRow
        <3>3. d \in Ids /\ d \notin rows /\ p \in {"wrong", "right"}
            BY <3>1, <3>2 DEF IInv, DatasourcesInv, DatasourcesTypeOK, MakingInv, Making, Password
        <3>4. \A e \in Ids : (IF e \in rows' THEN secrets'[e] ELSE "none")
                             = IF e = d THEN p ELSE Shown[e]
            BY <3>1, <3>2, <3>3 DEF Shown
        <3>5. Shown' = [Shown EXCEPT ![d] = p] /\ Shown[d] = "none"
            BY <3>3, <3>4 DEF Shown
        <3>6. Contract!Register(d, p)
            BY <3>2, <3>5 DEF Contract!Register, Shown
        <3> QED BY <3>3, <3>6 DEF Contract!Next
    <2>3. CASE InsertColumns(w)
        <3>1. PICK d, s : d = on[w] /\ s = held[w]
            OBVIOUS
        <3>2. /\ at[w] = "deleted" /\ catalog' = [catalog EXCEPT ![d] = s]
              /\ UNCHANGED <<live, secrets, rows>>
            BY <2>3, <3>1 DEF InsertColumns
        <3>3. d \in rows /\ d \in Ids
            BY <3>1, <3>2 DEF IInv, DatasourcesInv, DatasourcesTypeOK, ReadingInv, Reading
        <3>4. secrets[d] = "right" /\ s \in 1 .. live
            BY <3>1, <3>2 DEF ReadInv, ReadAt
        <3>5. Shown' = Shown /\ Shown[d] = "right"
            BY <3>2, <3>3, <3>4, ShownStays DEF Shown
        <3>6. Contract!Publish(d, s)
            BY <3>2, <3>4, <3>5 DEF Contract!Publish, Shown
        <3> QED BY <3>3, <3>4, <3>6 DEF Contract!Next
    <2>4. CASE DeleteColumns(w)
        <3>1. /\ catalog' = [catalog EXCEPT ![on[w]] = catalog[on[w]]]
              /\ UNCHANGED <<live, rows>>
            BY <2>4 DEF DeleteColumns, AfterDelete
        <3>2. catalog' = catalog
            BY <3>1 DEF IInv, DatasourcesInv, DatasourcesTypeOK
        <3> QED BY <2>1, <3>1, <3>2, ShownStays
    <2>5. CASE ~InsertRow(w) /\ ~InsertColumns(w) /\ ~DeleteColumns(w)
        <3>1. UNCHANGED <<live, rows, catalog>>
            BY <1>3, <2>5 DEF DatasourcesNext, InCreate, InRefresh, Refresh, Create, OpenSecret,
                              FillSecret, Introspect, Stop, store
        <3> QED BY <2>1, <3>1, ShownStays
    <2> QED BY <2>2, <2>3, <2>4, <2>5
<1>4. UNCHANGED dvars => UNCHANGED store
    BY DEF dvars
<1> QED BY <1>1, <1>2, <1>3, <1>4, StepsAre

\* A file and a row, a DELETE and its INSERTs, a schema read before the
\* transaction that stores it, and calls that stop anywhere: create_datasource and
\* refresh_catalog are to all others as if each were one step, or none.
THEOREM ContractHolds == Spec => ContractSpec
<1>1. Init => ReadInv /\ Contract!Init
    <2>1. Init => ReadInv
        BY DEF Init, QueriesInit, DatasourcesInit, ReadInv, ReadAt
    <2>2. Init => Contract!Init
        BY DEF Init, QueriesInit, DatasourcesInit, Contract!Init
    <2> QED BY <2>1, <2>2
<1>2. IInv /\ ReadInv /\ [Next]_vars => ReadInv'
    BY ReadStep
<1>3. IInv /\ ReadInv /\ [Next]_vars => [Contract!Next]_<<live, Shown, catalog>>
    BY ContractStep
<1>4. Spec => [][Contract!Next]_<<live, Shown, catalog>>
    BY <1>1, <1>2, <1>3, Invariance, PTL DEF Spec
<1> QED BY <1>1, <1>4, PTL DEF Spec, ContractSpec, Contract!Spec, Shown

\* replace_catalog empties no catalog, whatever step of it fails.
THEOREM SurvivingCatalogs == Spec => Contract!CatalogSurvives
<1>1. IInv /\ [Next]_vars =>
          [\A d \in Ids : catalog[d] # 0 => catalog'[d] # 0]_<<live, Shown, catalog>>
    <2> SUFFICES ASSUME IInv, [Next]_vars
                 PROVE  \/ \A d \in Ids : catalog[d] # 0 => catalog'[d] # 0
                        \/ UNCHANGED <<live, Shown, catalog>>
        OBVIOUS
    <2>1. CASE Next
        BY <2>1, NextIInv DEF Grows
    <2>2. CASE UNCHANGED vars
        BY <2>2 DEF vars, dvars, store
    <2> QED BY <2>1, <2>2
<1> QED BY <1>1, Invariance, PTL DEF Spec, Contract!CatalogSurvives, Shown

\* What the contract says of a step is enough for its consequences.
LEMMA UsableStep ==
    ASSUME IInv, Contract!CatalogsAreOfUsable, [Contract!Next]_<<live, Shown, catalog>>
    PROVE  Contract!CatalogsAreOfUsable'
<1>1. \A d \in Ids : catalog[d] # 0 => Shown[d] = "right"
    BY DEF Contract!CatalogsAreOfUsable, Shown
<1>2. DOMAIN catalog = Ids /\ DOMAIN Shown = Ids
    BY DEF IInv, DatasourcesInv, DatasourcesTypeOK, Shown
<1>3. SUFFICES \A d \in Ids : catalog'[d] # 0 => Shown'[d] = "right"
    BY DEF Contract!CatalogsAreOfUsable, Shown
<1>4. CASE Contract!Alter \/ UNCHANGED <<live, Shown, catalog>>
    <2>1. Shown' = Shown /\ catalog' = catalog
        BY <1>4 DEF Contract!Alter, Shown
    <2> QED BY <1>1, <2>1
<1>5. ASSUME NEW d \in Ids, NEW p, Contract!Register(d, p)
      PROVE  \A e \in Ids : catalog'[e] # 0 => Shown'[e] = "right"
    <2>1. Shown[d] = "none" /\ Shown' = [Shown EXCEPT ![d] = p] /\ catalog' = catalog
        BY <1>5 DEF Contract!Register, Shown
    <2>2. catalog[d] = 0
        BY <1>1, <2>1
    <2>3. \A e \in Ids \ {d} : Shown'[e] = Shown[e]
        BY <1>2, <2>1
    <2> QED BY <1>1, <2>1, <2>2, <2>3
<1>6. ASSUME NEW d \in Ids, NEW s, Contract!Publish(d, s)
      PROVE  \A e \in Ids : catalog'[e] # 0 => Shown'[e] = "right"
    <2>1. Shown[d] = "right" /\ catalog' = [catalog EXCEPT ![d] = s] /\ Shown' = Shown
        BY <1>6 DEF Contract!Publish, Shown
    <2>2. \A e \in Ids \ {d} : catalog'[e] = catalog[e]
        BY <1>2, <2>1
    <2> QED BY <1>1, <2>1, <2>2
<1> QED BY <1>4, <1>5, <1>6 DEF Contract!Next, Shown

\* Whoever finds a catalog can connect to its database: no schema is stored that was
\* read with a wrong password, though the password is looked at in another step
\* than the catalog is stored.
THEOREM CatalogsOfUsable == Spec => []Contract!CatalogsAreOfUsable
<1>1. Init => Contract!CatalogsAreOfUsable
    BY DEF Init, QueriesInit, DatasourcesInit, Contract!CatalogsAreOfUsable
<1>2. IInv /\ Contract!CatalogsAreOfUsable /\ [Contract!Next]_<<live, Shown, catalog>>
          => Contract!CatalogsAreOfUsable'
    BY UsableStep
<1>3. Spec => [][Contract!Next]_<<live, Shown, catalog>>
    BY ContractHolds, PTL DEF ContractSpec, Contract!Spec, Shown
<1>4. Spec => Init
    BY DEF Spec
<1> QED BY <1>1, <1>2, <1>3, <1>4, Invariance, PTL
===============================================================================
