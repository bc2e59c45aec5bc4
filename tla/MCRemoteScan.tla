----------------------------- MODULE MCRemoteScan -----------------------------
(* A folder with two below it; one item and one group are odd. *)
EXTENDS RemoteScan, TLC

CONSTANTS g1, g2, g3, a, b, c, d, e

InGroup == (a :> g1) @@ (b :> g1) @@ (c :> g2) @@ (d :> g2) @@ (e :> g3)
=============================================================================
