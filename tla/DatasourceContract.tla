-------------------------- MODULE DatasourceContract ---------------------------
(***************************************************************************)
(* What the datasource service promises to whoever holds the id of a       *)
(* datasource: it is registered at once, with the password that it keeps;  *)
(* and its catalog, once there is one, is all of a schema that its         *)
(* database has had, and was read with that password.  Datasources         *)
(* implements it with a file, a row, and a transaction that empties and    *)
(* fills a table.                                                          *)
(***************************************************************************)
EXTENDS Naturals

CONSTANT Ids        \* datasource ids

VARIABLES
    live,           \* the schema that the database has now
    password,       \* password[d] : the one that d was registered with
    catalog         \* catalog[d]  : the schema that is kept for d, or 0

Init ==
    /\ live = 1
    /\ password = [d \in Ids |-> "none"]
    /\ catalog = [d \in Ids |-> 0]

Alter ==
    /\ live' = live + 1
    /\ UNCHANGED <<password, catalog>>

Register(d, p) ==
    /\ password[d] = "none"
    /\ password' = [password EXCEPT ![d] = p]
    /\ UNCHANGED <<live, catalog>>

\* Nobody waits for anybody: an older schema may replace a newer one.
Publish(d, s) ==
    /\ password[d] = "right"
    /\ s \in 1 .. live
    /\ catalog' = [catalog EXCEPT ![d] = s]
    /\ UNCHANGED <<live, password>>

Next ==
    \/ Alter
    \/ \E d \in Ids : \/ \E p \in {"wrong", "right"} : Register(d, p)
                      \/ \E s \in 1 .. live : Publish(d, s)

Spec == Init /\ [][Next]_<<live, password, catalog>>

-------------------------------------------------------------------------------
(* Consequences of the contract.                                           *)

\* A refresh that fails, or is killed, between the DELETE and the INSERTs of
\* replace_catalog leaves the catalog that was there; no reader finds none.
CatalogSurvives ==
    [][\A d \in Ids : catalog[d] # 0 => catalog'[d] # 0]_<<live, password, catalog>>

\* Who finds a catalog can connect: nothing is ever read with a wrong password.
CatalogsAreOfUsable == \A d \in Ids : catalog[d] # 0 => password[d] = "right"
===============================================================================
