--------------------------- MODULE MCScanSessions ---------------------------
(* Instances of ScanSessions for TLC. *)
EXTENDS ScanSessions

CONSTANTS h1, h2, web, cli1, cli2, s1, s2

\* Two command lines beside the dashboard, one of them on another host.
TwoHosts == [p \in Procs |-> IF p = cli2 THEN h2 ELSE h1]

\* Everybody on one host.
OneHost == [p \in Procs |-> h1]
=============================================================================
