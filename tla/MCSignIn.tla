------------------------------ MODULE MCSignIn ------------------------------
(* Instances of SignIn for TLC. *)
EXTENDS SignIn, TLC

CONSTANTS r1, r2, t1, t2, t3, k1, k2

\* Pages without a prefix, a path of no locale, and API paths of no route.
StrayPaths ==
    {<<>>, <<"config">>, <<"reports">>, <<"help">>, <<"about">>, <<"xx">>,
     <<"xx", "help">>, <<"xx", "login">>, <<"openapi.json">>, <<"sessions">>, <<"en", "other">>}

Symmetry == Permutations(Tokens) \cup Permutations(Passkeys)
=============================================================================
