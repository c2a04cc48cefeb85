---------------------------- MODULE MCAgentRuntime ----------------------------
(***************************************************************************)
(* AgentRuntime, Queries, AnalysisContext and Datasources for TLC.         *)
(***************************************************************************)
EXTENDS AgentRuntime, TLC

\* None, not positive, between the two maxima, over both.
MCLimits == {-1, 0, 2, 3}

\* Three tables: items (1) loses a column in the second schema and orders (2)
\* gets one; payments (3) is new there.  Of a table whose columns do not match
\* only the first is shown.
MCContents ==
    <<(1 :> <<"order_id", "price">> @@ 2 :> <<"order_id", "note">> @@ 3 :> <<>>),
      (1 :> <<"order_id">> @@ 2 :> <<"order_id", "note", "state">> @@ 3 :> <<"code", "order_id">>)>>

MCImportant == {"order_id", "price", "state"}

\* One that names a table and has the registry add one that is in the catalog only
\* later; one that matches columns of more tables than may be named.
MCQuestions ==
    {[tables |-> {2}, names |-> {}, hinted |-> <<3>>, columns |-> {}],
     [tables |-> {}, names |-> {"order_id", "price"}, hinted |-> <<2>>, columns |-> {"note"}]}

Symmetry == Permutations(Ids)
===============================================================================
