----------------------------- MODULE ArtifactLog -----------------------------
(***************************************************************************)
(* What the artifact services promise to whoever holds an artifact id: a   *)
(* log of contents, to which a registration appends one entry at once and  *)
(* in which no entry ever changes.  ArtifactRegistry implements it with a  *)
(* directory of files and a database.                                      *)
(***************************************************************************)

CONSTANTS
    Ids,        \* artifact ids
    Contents,   \* contents
    Nothing     \* the entry of an id that is not registered

VARIABLE log    \* log[id] : the content registered under id

TypeOK == log \in [Ids -> Contents \cup {Nothing}]

Init == log = [id \in Ids |-> Nothing]

Append(id, c) ==
    /\ log[id] = Nothing
    /\ log' = [log EXCEPT ![id] = c]

Next == \E id \in Ids, c \in Contents : Append(id, c)

Spec == Init /\ [][Next]_log

-----------------------------------------------------------------------------

\* "ArtifactStore keeps append-only artifact content" (README.md:12).
AppendOnly == [][\A id \in Ids : log[id] # Nothing => log'[id] = log[id]]_log
=============================================================================
