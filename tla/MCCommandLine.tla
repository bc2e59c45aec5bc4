--------------------------- MODULE MCCommandLine ---------------------------
(* Two sessions; one process is asked for any one or two modes, while another *)
(* scans, wipes, exports raw rows or compares.                               *)
EXTENDS CommandLine, TLC

CONSTANTS p1, p2

Pairs == {{m, n} : m, n \in Modes}

MayAskMC == (p1 :> ({{}} \cup Pairs)) @@ (p2 :> {{}, {"reset"}, {"l3"}, {"diff"}})

Symmetry == Permutations(Sessions)
=============================================================================
