------------------------------ MODULE MCScanRun ------------------------------
(* Instances of ScanRun for TLC. *)
EXTENDS ScanRun

CONSTANTS t1, t2, t3, a, b, c, d

\* Three targets: with two workers one has to wait, and the throttler hears of
\* two before it decides on the last.  The first has two tables, so that a resume
\* may find one of them completed.
ThreeTargets == <<t1, t2, t3>>
TwoTablesInFirst == [t \in {t1, t2, t3} |-> IF t = t1 THEN {a, b} ELSE {}]

OneTarget == <<t1>>
TwoTables == [t \in {t1} |-> {a, b}]
=============================================================================
