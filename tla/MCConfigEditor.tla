--------------------------- MODULE MCConfigEditor ---------------------------
(* Two tabs, two targets of three, one more row than the file has. *)
EXTENDS ConfigEditor, TLC

Symmetry == Permutations(Tabs) \cup Permutations(Names) \cup Permutations(Passwords)
=============================================================================
