-------------------------- MODULE MCPolicyClients --------------------------
(***************************************************************************)
(* PolicyClients for TLC: the first parts of every mount, and of the paths *)
(* that lie in none.                                                       *)
(***************************************************************************)
EXTENDS PolicyClients, TLC

MCPaths ==
    {<<>>, <<"workspace">>, <<"workspace", "x">>, <<"workspace", "x", "y">>,
     <<"workspace", "..">>, <<"workspace", "SECRETS">>, <<"workspace", "secrets_plan">>,
     <<"C:", "x">>, <<"tmp", "x">>, <<"catalog", "x">>, <<"memory", "x">>, <<"artifacts">>}

Symmetry == Permutations(Evaluators)
=============================================================================
