----------------------------- MODULE MCDashboard -----------------------------
(* Instances of Dashboard for TLC. *)
EXTENDS Dashboard, TLC

CONSTANTS s1, s2, acme

Symmetry == Permutations(Sessions)
=============================================================================
