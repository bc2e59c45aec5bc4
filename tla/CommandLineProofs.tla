-------------------------- MODULE CommandLineProofs --------------------------
(***************************************************************************)
(* Proofs about CommandLine, for any number of processes and sessions and  *)
(* whatever combinations of modes they are asked for.                      *)
(***************************************************************************)
EXTENDS CommandLine, TLAPS, WellFoundedInduction

-----------------------------------------------------------------------------
(* The mode that main runs.                                                *)

LEMMA FirstHit ==
    ASSUME NEW a, Hits(a) # {}
    PROVE  \E i \in Hits(a) : /\ \A j \in Hits(a) : i <= j
                              /\ Chosen(a) = Order[i]
<1>1. Hits(a) \subseteq Nat
  BY DEF Hits, Order
<1>2. PICK i \in Hits(a) : \A j \in Hits(a) : <<j, i>> \notin OpToRel(<, Nat)
  BY <1>1, NatLessThanWellFounded, WFMin
<1>3. ASSUME NEW j \in Hits(a) PROVE i <= j
  <2>1. SUFFICES ASSUME j < i PROVE FALSE
    BY <1>1
  <2>2. <<j, i>> \in OpToRel(<, Nat)
    BY <1>1, <2>1 DEF OpToRel
  <2> QED
    BY <1>2, <2>2
<1> QED
  BY <1>3 DEF Chosen

LEMMA ChosenIs ==
    ASSUME NEW a \in SUBSET Modes
    PROVE  /\ Chosen(a) # "scan" => Chosen(a) \in Wanted(a)
           /\ Chosen(a) \in Modes \cup {"scan"}
           /\ Chosen(a) = "scan" => \A i \in 1..14 : Order[i] \notin Wanted(a)
<1>1. CASE Hits(a) = {}
  BY <1>1 DEF Chosen, Hits, Modes, Order
<1>2. CASE Hits(a) # {}
  <2>1. PICK i \in Hits(a) : Chosen(a) = Order[i]
    BY <1>2, FirstHit
  <2>2. Chosen(a) \in Wanted(a) /\ i \in 1..14
    BY <2>1 DEF Hits, Order
  <2>3. Chosen(a) # "scan"
    BY <2>1, <2>2 DEF Order
  <2>4. Wanted(a) \subseteq Modes
    BY DEF Wanted, Modes
  <2> QED
    BY <2>2, <2>3, <2>4
<1> QED
  BY <1>1, <1>2

-----------------------------------------------------------------------------
(* What the parser lets pass.                                              *)

Info == {"version", "extras"}

\* Modes that go with no other.
Solitary == (Exports \ {"trail"}) \cup {"validate", "plan", "prefilter", "diff", "resume"}

LEMMA SolitaryClash ==
    ASSUME NEW m \in Solitary, NEW n \in Modes \ Info, m # n
    PROVE  <<m, n>> \in Clashes \/ <<n, m>> \in Clashes
<1>1. m \in Modes /\ n \in Modes /\ n \notin Info
  BY DEF Solitary, Modes, Exports
<1>2. CASE m \in Exports \ {"trail"}
  <2>1. CASE n \in Exports \cup {"web", "reset", "validate", "diff"}
    BY <1>2, <2>1 DEF Clashes
  <2>2. CASE n \in {"demo", "plan", "resume", "prefilter"}
    BY <1>2, <2>2 DEF Clashes
  <2> QED
    BY <1>1, <2>1, <2>2 DEF Modes, Info
<1>3. CASE m \in {"plan", "resume"}
  <2>1. CASE n \in Exports \cup {"web", "plan", "resume", "reset", "prefilter", "diff"}
    BY <1>3, <2>1 DEF Clashes
  <2>2. CASE n \in {"demo", "validate"}
    BY <1>3, <2>2 DEF Clashes
  <2> QED
    BY <1>1, <2>1, <2>2 DEF Modes, Info
<1>4. CASE m = "validate"
  <2>1. CASE n \in Exports \cup {"web", "plan", "resume", "reset", "prefilter"}
    BY <1>4, <2>1 DEF Clashes
  <2>2. CASE n \in {"demo", "diff"}
    BY <1>4, <2>2 DEF Clashes
  <2> QED
    BY <1>1, <1>4, <2>1, <2>2 DEF Modes, Info
<1>5. CASE m = "prefilter"
  <2>1. CASE n \in Exports \cup {"web", "plan", "reset", "diff"}
    BY <1>5, <2>1 DEF Clashes
  <2>2. CASE n \in {"demo", "resume", "validate"}
    BY <1>5, <2>2 DEF Clashes
  <2> QED
    BY <1>1, <1>5, <2>1, <2>2 DEF Modes, Info
<1>6. CASE m = "diff"
  <2>1. CASE n \in Exports \cup {"web", "reset", "validate"}
    BY <1>6, <2>1 DEF Clashes
  <2>2. CASE n \in {"demo", "plan", "resume", "prefilter"}
    BY <1>6, <2>2 DEF Clashes
  <2> QED
    BY <1>1, <1>6, <2>1, <2>2 DEF Modes, Info
<1> QED
  BY <1>2, <1>3, <1>4, <1>5, <1>6 DEF Solitary


Admitted(a) ==
    /\ a \subseteq Modes \ Info
    /\ \A m \in a \cap Solitary : a = {m}
    /\ "demo" \in a => a \subseteq {"demo", "web"}

\* Of the modes that look at something or write something the parser leaves one;
\* only --demo, --web, --reset-data and --export-audit-trail may come together
\* (the refusal blocks of main).
THEOREM OneModeIsLeft ==
    ASSUME NEW a \in SUBSET Modes, NEW o \in Options, a \cap Info = {}, ~Refused(a, o)
    PROVE  Admitted(a)
<1>1. a \subseteq Modes \ Info
  OBVIOUS
<1>2. \A m, n \in a : m # n => <<m, n>> \notin Clashes
  BY DEF Refused
<1>3. ASSUME NEW m \in a \cap Solitary PROVE a = {m}
  <2>1. \A n \in Modes \ Info : m # n => <<m, n>> \in Clashes \/ <<n, m>> \in Clashes
    BY SolitaryClash
  <2> QED
    BY <1>1, <1>2, <2>1
<1>4. ASSUME "demo" \in a PROVE a \subseteq {"demo", "web"}
  <2> SUFFICES ASSUME NEW n \in a, n \notin {"demo", "web"} PROVE FALSE
    OBVIOUS
  <2>1. \A x \in Exports \cup {"validate", "plan", "resume", "prefilter", "extras", "reset", "diff"} :
            <<"demo", x>> \in Clashes
    BY DEF Clashes
  <2>2. n \in Exports \cup {"validate", "plan", "resume", "prefilter", "extras", "reset", "diff"}
    BY <1>1 DEF Modes, Info
  <2> QED
    BY <1>2, <1>4, <2>1, <2>2
<1> QED
  BY <1>1, <1>3, <1>4 DEF Admitted

LEMMA ChosenShape ==
    ASSUME NEW a, Admitted(a)
    PROVE  /\ Chosen(a) \in Solitary => a = {Chosen(a)}
           /\ Chosen(a) = "trail" => "trail" \in a /\ a \subseteq {"trail", "web", "reset"}
           /\ Chosen(a) = "web" => a = {"web"} \/ ("demo" \in a /\ a \subseteq {"demo", "web"})
           /\ Chosen(a) = "reset" => a \in {{"reset"}, {"web", "reset"}}
           /\ Chosen(a) = "scan" => a \in {{}, {"resume"}}
<1>1. /\ a \in SUBSET Modes
      /\ a \subseteq Solitary \cup {"trail", "demo", "web", "reset"}
  BY DEF Admitted, Modes, Info, Solitary
<1>2. /\ Chosen(a) # "scan" => Chosen(a) \in Wanted(a)
      /\ Chosen(a) = "scan" => \A i \in 1..14 : Order[i] \notin Wanted(a)
  BY <1>1, ChosenIs
<1>3. "trail" \in a => Chosen(a) # "web"
  <2> SUFFICES ASSUME "trail" \in a PROVE Chosen(a) # "web"
    OBVIOUS
  <2>1. 12 \in Hits(a)
    BY DEF Hits, Order, Wanted
  <2>2. PICK i \in Hits(a) : i <= 12 /\ Chosen(a) = Order[i]
    BY <2>1, FirstHit
  <2>3. i \in 1..12
    BY <2>2 DEF Hits
  <2> QED
    BY <2>2, <2>3 DEF Order
<1>4. "trail" \in a => Chosen(a) # "reset"
  <2> SUFFICES ASSUME "trail" \in a PROVE Chosen(a) # "reset"
    OBVIOUS
  <2>1. 12 \in Hits(a)
    BY DEF Hits, Order, Wanted
  <2>2. PICK i \in Hits(a) : i <= 12 /\ Chosen(a) = Order[i]
    BY <2>1, FirstHit
  <2>3. i \in 1..12
    BY <2>2 DEF Hits
  <2> QED
    BY <2>2, <2>3 DEF Order
<1>5. Chosen(a) \in Solitary => a = {Chosen(a)}
  BY <1>2 DEF Admitted, Wanted, Solitary, Exports
<1>6. Chosen(a) = "trail" => "trail" \in a /\ a \subseteq {"trail", "web", "reset"}
  BY <1>1, <1>2 DEF Admitted, Wanted
<1>7. Chosen(a) = "web" => a = {"web"} \/ ("demo" \in a /\ a \subseteq {"demo", "web"})
  BY <1>1, <1>2, <1>3 DEF Admitted, Wanted
<1>8. Chosen(a) = "reset" => a \in {{"reset"}, {"web", "reset"}}
  BY <1>1, <1>2, <1>4 DEF Admitted, Wanted
<1>9. Chosen(a) = "scan" => a \in {{}, {"resume"}}
  <2> SUFFICES ASSUME Chosen(a) = "scan" PROVE a \in {{}, {"resume"}}
    OBVIOUS
  <2>1. \A m \in Modes \ {"version", "extras", "demo", "resume"} : \E i \in 1..14 : m = Order[i]
    BY DEF Modes, Exports, Order
  <2>2. Wanted(a) \cap (Modes \ {"version", "extras", "demo", "resume"}) = {}
    BY <1>2, <2>1
  <2>3. a \subseteq {"resume"}
    BY <1>1, <2>2 DEF Wanted, Admitted, Modes, Info
  <2> QED
    BY <2>3
<1> QED
  BY <1>5, <1>6, <1>7, <1>8, <1>9


-----------------------------------------------------------------------------
(* Types.                                                                  *)

USE DEF Running, Killed

LEMMA FilesAreTyped ==
    /\ NoFile \in Files
    /\ NoDest \in Destinations /\ Foreign \in Destinations
    /\ [NoDest EXCEPT !.kind = "file"] \in Destinations
    /\ \A f \in Files : f.has \in {"nothing", "empty", "rows"} /\ f.private \in BOOLEAN
  BY DEF NoFile, NoDest, Foreign, Files, Destinations

LEMMA TypeInit == Init => TypeOK
<1> SUFFICES ASSUME Init PROVE TypeOK
  OBVIOUS
<1>1. L3TypeOK
  BY FilesAreTyped DEF Init, L3Init, L3TypeOK
<1> QED
  BY <1>1 DEF Init, TypeOK

LEMMA L3Frame == L3TypeOK /\ UNCHANGED l3vars => L3TypeOK'
  BY DEF L3TypeOK, l3vars

LEMMA L3KeepsTypes ==
    ASSUME TypeOK, NEW p \in Procs, L3Step(p), UNCHANGED cmdvars
    PROVE  TypeOK'
<1> USE DEF TypeOK, L3TypeOK, cmdvars, l3vars, Goto, Leave, Persisting
<1>1. CASE CheckDestination(p)
  BY <1>1 DEF CheckDestination
<1>2. CASE Create(p)
  <2>1. \A private \in BOOLEAN : [has |-> "empty", private |-> private] \in Files
    BY DEF Files
  <2> QED
    BY <1>2, <2>1 DEF Create
<1>3. CASE Verify(p)
  <2>1. PICK private \in BOOLEAN, l \in {"owner_only", "not_enforced"} :
            /\ tmp' = [tmp EXCEPT ![p].private = private]
            /\ label' = [label EXCEPT ![p] = l]
    BY <1>3, FilesAreTyped DEF Verify
  <2>2. [tmp[p] EXCEPT !.private = private] \in Files
    BY DEF Files
  <2> QED
    BY <1>3, <2>1, <2>2 DEF Verify
<1>4. CASE WriteRows(p)
  <2>1. \A h \in {"rows", "nothing"} : [tmp[p] EXCEPT !.has = h] \in Files
    BY DEF Files
  <2> QED
    BY <1>4, <2>1 DEF WriteRows
<1>5. CASE Recheck(p)
  BY <1>5 DEF Recheck
<1>6. CASE Replace(p)
  <2>1. dest' \in Destinations
    BY <1>6, FilesAreTyped DEF Replace, Destinations
  <2> QED
    BY <1>6, <2>1, FilesAreTyped DEF Replace
<1>7. CASE Abort(p)
  <2>1. CASE tmp' = [tmp EXCEPT ![p] = NoFile] /\ UNCHANGED told
    BY <1>7, <2>1, FilesAreTyped DEF Abort
  <2>2. CASE told' = [told EXCEPT ![p] = TRUE] /\ UNCHANGED tmp
    BY <1>7, <2>2 DEF Abort
  <2> QED
    BY <1>7, <2>1, <2>2 DEF Abort
<1> QED
  BY <1>1, <1>2, <1>3, <1>4, <1>5, <1>6, <1>7 DEF L3Step

LEMMA AskedAreModes == \A p \in Procs : \A a \in MayAsk[p] : a \in SUBSET Modes
  BY MayAskAssumption

LEMMA TypeStep == TypeOK /\ [Next]_vars => TypeOK'
<1> SUFFICES ASSUME TypeOK, [Next]_vars PROVE TypeOK'
  OBVIOUS
<1> USE DEF TypeOK, cmdvars
<1>1. ASSUME NEW p \in Procs, StartInfo(p) PROVE TypeOK'
  BY <1>1, L3Frame, AskedAreModes DEF StartInfo, Goto, Leave, Finish, l3vars
<1>2. ASSUME NEW p \in Procs, StartRefused(p) PROVE TypeOK'
  BY <1>2, L3Frame DEF StartRefused, Goto, Leave, Finish, l3vars
<1>3. ASSUME NEW p \in Procs, Start(p) PROVE TypeOK'
  <2>1. PICK a \in MayAsk[p], o \in Options :
            /\ asked' = [asked EXCEPT ![p] = a]
            /\ persist' = [persist EXCEPT ![p] = o.persist]
            /\ allow' = [allow EXCEPT ![p] = o.allow]
            /\ \E ss \in Given(a, o) : about' = [about EXCEPT ![p] = ss]
    BY <1>3 DEF Start
  <2>2. a \in SUBSET Modes /\ Given(a, o) \subseteq SUBSET Sessions /\ o.persist \in BOOLEAN /\ o.allow \in BOOLEAN
    BY AskedAreModes DEF Given, Options
  <2>3. /\ pc' = [pc EXCEPT ![p] = "run"]
        /\ UNCHANGED <<exit, tmp, label, told, dest, known, found, lost, declined, did, listen>>
    BY <1>3 DEF Start, Goto
  <2>4. L3TypeOK'
    BY <2>1, <2>2, <2>3 DEF L3TypeOK
  <2> QED
    BY <2>1, <2>2, <2>3, <2>4
<1>4. ASSUME NEW p \in Procs, Report(p) PROVE TypeOK'
  BY <1>4, L3Frame DEF Report, Goto, Leave, Finish, l3vars, Modes, Exports
<1>5. ASSUME NEW p \in Procs, RefuseTrail(p) PROVE TypeOK'
  BY <1>5, L3Frame DEF RefuseTrail, Goto, Leave, Finish, l3vars
<1>6. ASSUME NEW p \in Procs, LookUp(p) PROVE TypeOK'
  BY <1>6, L3Frame DEF LookUp, Goto, Leave, Finish, l3vars
<1>7. ASSUME NEW p \in Procs, UnknownSession(p) PROVE TypeOK'
  BY <1>7, L3Frame DEF UnknownSession, Goto, Leave, Finish, l3vars
<1>8. ASSUME NEW p \in Procs, ReadAtOnce(p) PROVE TypeOK'
  BY <1>8, L3Frame DEF ReadAtOnce, Goto, Leave, Finish, l3vars
<1>9. ASSUME NEW p \in Procs, ReadRows(p) PROVE TypeOK'
  BY <1>9, L3Frame DEF ReadRows, Goto, Leave, Finish, l3vars
<1>10. ASSUME NEW p \in Procs, Deliver(p) PROVE TypeOK'
  BY <1>10, ChosenIs, L3Frame DEF Deliver, Goto, Leave, Finish, l3vars
<1>11. ASSUME NEW p \in Procs, Scan(p) PROVE TypeOK'
  BY <1>11, L3Frame DEF Scan, Goto, Leave, Finish, l3vars
<1>12. ASSUME NEW p \in Procs, ResumeUnknown(p) PROVE TypeOK'
  BY <1>12, L3Frame DEF ResumeUnknown, Goto, Leave, Finish, l3vars
<1>13. ASSUME NEW p \in Procs, ScanEnds(p) PROVE TypeOK'
  BY <1>13, L3Frame DEF ScanEnds, Goto, Leave, Finish, l3vars
<1>14. ASSUME NEW p \in Procs, LicenceRefuses(p) PROVE TypeOK'
  BY <1>14, L3Frame DEF LicenceRefuses, Goto, Leave, Finish, l3vars
<1>15. ASSUME NEW p \in Procs, Decline(p) PROVE TypeOK'
  BY <1>15, L3Frame DEF Decline, Goto, Leave, Finish, l3vars
<1>16. ASSUME NEW p \in Procs, Wipe(p) PROVE TypeOK'
  BY <1>16, L3Frame DEF Wipe, Goto, Leave, Finish, l3vars
<1>17. ASSUME NEW p \in Procs, RemoveReports(p) PROVE TypeOK'
  BY <1>17, L3Frame DEF RemoveReports, Goto, Leave, Finish, l3vars, Modes
<1>18. ASSUME NEW p \in Procs, Serve(p) PROVE TypeOK'
  BY <1>18, L3Frame DEF Serve, Goto, Leave, Finish, l3vars
<1>19. ASSUME NEW p \in Procs, ServeRefused(p) PROVE TypeOK'
  BY <1>19, L3Frame DEF ServeRefused, Goto, Leave, Finish, l3vars
<1>20. ASSUME NEW p \in Procs, Stop(p) PROVE TypeOK'
  BY <1>20, L3Frame DEF Stop, Goto, Leave, Finish, l3vars, Modes
<1>21. ASSUME NEW p \in Procs, L3Refused(p) PROVE TypeOK'
  BY <1>21, L3Frame DEF L3Refused, Goto, Leave, Finish, l3vars
<1>22. ASSUME NEW p \in Procs, L3Rows(p) PROVE TypeOK'
  BY <1>22, L3Frame DEF L3Rows, Goto, Leave, Finish, l3vars, Modes, Exports
<1>23. ASSUME NEW p \in Procs, L3Audit(p) PROVE TypeOK'
  BY <1>23, L3Frame DEF L3Audit, Goto, Leave, Finish, l3vars, Modes, Exports
<1>24. ASSUME NEW p \in Procs, Fails(p) PROVE TypeOK'
  BY <1>24, L3Frame DEF Fails, Goto, Leave, Finish, l3vars
<1>25. ASSUME NEW p \in Procs, Interrupted(p) PROVE TypeOK'
  BY <1>25, L3Frame DEF Interrupted, Goto, Leave, Finish, l3vars
<1>26. ASSUME NEW p \in Procs, L3Step(p), UNCHANGED cmdvars PROVE TypeOK'
  BY <1>26, L3KeepsTypes
<1>27. CASE Meanwhile /\ UNCHANGED cmdvars
  <2>1. tmp' \in [Procs -> Files] /\ dest' \in Destinations
    BY <1>27, FilesAreTyped DEF Meanwhile, L3TypeOK
  <2> QED
    BY <1>27, <2>1 DEF Meanwhile, L3TypeOK
<1>28. CASE UNCHANGED vars
  BY <1>28 DEF vars, l3vars, L3TypeOK
<1> QED
  BY <1>1, <1>2, <1>3, <1>4, <1>5, <1>6, <1>7, <1>8, <1>9, <1>10, <1>11, <1>12, <1>13,
     <1>14, <1>15, <1>16, <1>17, <1>18, <1>19, <1>20, <1>21, <1>22, <1>23, <1>24, <1>25,
     <1>26, <1>27, <1>28 DEF Next

\* Every variable keeps its type, for any processes, sessions and bounds.
THEOREM TypeCorrect == Spec => []TypeOK
  BY TypeInit, TypeStep, PTL DEF Spec


-----------------------------------------------------------------------------
(* Raw rows.                                                               *)

\* Where a process is, given what its temporary file has; rows and whatever gets
\* them next are declared; and once they are in place the process only leaves.
RowsOf(p) ==
    /\ tmp[p].has # "nothing" => pc[p] \in {"verify", "rows", "recheck", "replace", "ended"}
    /\ tmp[p].has = "empty" => pc[p] \in {"verify", "rows", "ended"}
    /\ tmp[p].has = "rows" => pc[p] \in {"recheck", "replace", "ended"}
    /\ tmp[p].has = "rows" \/ (pc[p] = "rows" /\ tmp[p].has # "nothing") =>
           Declared(p, tmp[p].private)
    /\ tmp[p].has = "rows" /\ pc[p] = "ended" => exit[p] \in {130, Killed} \/ told[p]
    /\ dest.by = p => pc[p] \in {"replaced", "ended"} /\ Declared(p, dest.private)

RowsInv == \A p \in Procs : RowsOf(p)

LEMMA RowsInit == Init => RowsInv
<1> SUFFICES ASSUME Init, NEW p \in Procs PROVE RowsOf(p)
  BY DEF RowsInv
<1>1. tmp[p].has = "nothing"
  BY DEF Init, L3Init, NoFile
<1>2. dest.by = NoProc
  BY DEF Init, L3Init, NoDest, Foreign
<1> QED
  BY <1>1, <1>2, NoProcAssumption DEF RowsOf

\* Processes share nothing but the destination.
LEMMA OthersKeepRows ==
    ASSUME RowsInv, TypeOK, NEW p \in Procs, NEW q \in Procs, q # p,
           pc'[q] = pc[q], exit'[q] = exit[q], allow'[q] = allow[q], tmp'[q] = tmp[q],
           label'[q] = label[q], told'[q] = told[q], dest' = dest \/ dest'.by = p
    PROVE  RowsOf(q)'
  BY DEF RowsInv, RowsOf, Declared

LEMMA OutsideKeepsRows ==
    ASSUME RowsInv, TypeOK, NEW p \in Procs, NEW at,
           pc[p] \notin Persisting \cup {"ended"}, pc[p] = "replaced" => at = "ended",
           pc' = [pc EXCEPT ![p] = at],
           \A q \in Procs : q # p => exit'[q] = exit[q],
           UNCHANGED l3vars
    PROVE  RowsInv'
<1>1. tmp[p].has = "nothing"
  BY DEF RowsInv, RowsOf, Persisting
<1>2. RowsOf(p)'
  BY <1>1 DEF RowsInv, RowsOf, Declared, TypeOK, l3vars
<1>3. ASSUME NEW q \in Procs, q # p PROVE RowsOf(q)'
  <2>1. pc'[q] = pc[q]
    BY <1>3 DEF TypeOK
  <2> QED
    BY <1>3, <2>1, OthersKeepRows DEF l3vars
<1> QED
  BY <1>2, <1>3 DEF RowsInv


\* What others keep of a step of p.
LEMMA L3StepsAreLocal ==
    ASSUME TypeOK, NEW p \in Procs, L3Step(p), NEW q \in Procs, q # p
    PROVE  /\ pc'[q] = pc[q] /\ exit'[q] = exit[q] /\ allow'[q] = allow[q]
           /\ tmp'[q] = tmp[q] /\ label'[q] = label[q] /\ told'[q] = told[q]
           /\ dest' = dest \/ dest'.by = p
<1> USE DEF TypeOK, L3TypeOK, l3vars, Goto, Leave
<1>1. CASE CheckDestination(p)
  BY <1>1 DEF CheckDestination
<1>2. CASE Create(p)
  BY <1>2 DEF Create
<1>3. CASE Verify(p)
  BY <1>3 DEF Verify
<1>4. CASE WriteRows(p)
  BY <1>4 DEF WriteRows
<1>5. CASE Recheck(p)
  BY <1>5 DEF Recheck
<1>6. CASE Replace(p)
  BY <1>6 DEF Replace
<1>7. CASE Abort(p)
  BY <1>7 DEF Abort
<1> QED
  BY <1>1, <1>2, <1>3, <1>4, <1>5, <1>6, <1>7 DEF L3Step

LEMMA L3KeepsRows ==
    ASSUME RowsInv, TypeOK, NEW p \in Procs, L3Step(p)
    PROVE  RowsInv'
<1>1. ASSUME NEW q \in Procs, q # p PROVE RowsOf(q)'
  BY <1>1, L3StepsAreLocal, OthersKeepRows
<1>2. RowsOf(p)'
  <2> USE DEF TypeOK, L3TypeOK, l3vars, Goto, Leave, RowsInv, RowsOf, Declared, Persisting
  <2>1. CASE CheckDestination(p)
    BY <2>1 DEF CheckDestination
  <2>2. CASE Create(p)
    BY <2>2 DEF Create
  <2>3. CASE Verify(p)
    BY <2>3 DEF Verify, PathIsMine
  <2>4. CASE WriteRows(p)
    BY <2>4 DEF WriteRows, PathIsMine
  <2>5. CASE Recheck(p)
    BY <2>5 DEF Recheck, PathIsMine
  <2>6. CASE Replace(p)
    <3>1. tmp[p].has = "rows"
      BY <2>6, FilesAreTyped DEF Replace, PathIsMine
    <3>2. Declared(p, tmp[p].private)
      BY <3>1
    <3>3. /\ pc'[p] = "replaced" /\ tmp'[p].has = "nothing" /\ dest'.private = tmp[p].private
          /\ UNCHANGED <<allow, label>>
      BY <2>6 DEF Replace, NoFile
    <3> QED
      BY <3>2, <3>3
  <2>7. CASE Abort(p)
    <3>1. /\ pc'[p] = "ended" /\ pc[p] \in Persisting /\ UNCHANGED <<allow, label, dest>>
          /\ tmp'[p].has = "nothing" \/ (tmp'[p] = tmp[p] /\ told'[p])
      BY <2>7 DEF Abort, NoFile, PathIsMine
    <3>2. dest.by # p
      BY <3>1
    <3> QED
      BY <3>1, <3>2
  <2> QED
    BY <2>1, <2>2, <2>3, <2>4, <2>5, <2>6, <2>7 DEF L3Step
<1> QED
  BY <1>1, <1>2 DEF RowsInv


LEMMA RowsStep == TypeOK /\ RowsInv /\ [Next]_vars => RowsInv'
<1> SUFFICES ASSUME TypeOK, RowsInv, [Next]_vars PROVE RowsInv'
  OBVIOUS
<1>1. ASSUME NEW p \in Procs, NEW at, NEW c,
             pc[p] \notin Persisting \cup {"ended"}, pc[p] = "replaced" => at = "ended",
             pc' = [pc EXCEPT ![p] = at], exit' = exit \/ exit' = [exit EXCEPT ![p] = c],
             UNCHANGED l3vars
      PROVE  RowsInv'
  <2>1. \A q \in Procs : q # p => exit'[q] = exit[q]
    BY <1>1 DEF TypeOK
  <2> QED
    BY <1>1, <2>1, OutsideKeepsRows
<1>2. ASSUME NEW p \in Procs, StartInfo(p) PROVE RowsInv'
  BY <1>2, <1>1 DEF StartInfo, Does, Finish, Goto, Leave, Persisting
<1>3. ASSUME NEW p \in Procs, StartRefused(p) PROVE RowsInv'
  BY <1>3, <1>1 DEF StartRefused, Does, Finish, Goto, Leave, Persisting
<1>4. ASSUME NEW p \in Procs, Report(p) PROVE RowsInv'
  BY <1>4, <1>1 DEF Report, Does, Finish, Goto, Leave, Persisting
<1>5. ASSUME NEW p \in Procs, RefuseTrail(p) PROVE RowsInv'
  BY <1>5, <1>1 DEF RefuseTrail, Does, Finish, Goto, Leave, Persisting
<1>6. ASSUME NEW p \in Procs, LookUp(p) PROVE RowsInv'
  BY <1>6, <1>1 DEF LookUp, Does, Finish, Goto, Leave, Persisting
<1>7. ASSUME NEW p \in Procs, UnknownSession(p) PROVE RowsInv'
  BY <1>7, <1>1 DEF UnknownSession, Does, Finish, Goto, Leave, Persisting
<1>8. ASSUME NEW p \in Procs, ReadAtOnce(p) PROVE RowsInv'
  BY <1>8, <1>1 DEF ReadAtOnce, Does, Finish, Goto, Leave, Persisting
<1>9. ASSUME NEW p \in Procs, ReadRows(p) PROVE RowsInv'
  BY <1>9, <1>1 DEF ReadRows, Does, Finish, Goto, Leave, Persisting
<1>10. ASSUME NEW p \in Procs, Deliver(p) PROVE RowsInv'
  BY <1>10, <1>1 DEF Deliver, Does, Finish, Goto, Leave, Persisting
<1>11. ASSUME NEW p \in Procs, Scan(p) PROVE RowsInv'
  BY <1>11, <1>1 DEF Scan, Does, Finish, Goto, Leave, Persisting
<1>12. ASSUME NEW p \in Procs, ResumeUnknown(p) PROVE RowsInv'
  BY <1>12, <1>1 DEF ResumeUnknown, Does, Finish, Goto, Leave, Persisting
<1>13. ASSUME NEW p \in Procs, ScanEnds(p) PROVE RowsInv'
  BY <1>13, <1>1 DEF ScanEnds, Does, Finish, Goto, Leave, Persisting
<1>14. ASSUME NEW p \in Procs, LicenceRefuses(p) PROVE RowsInv'
  BY <1>14, <1>1 DEF LicenceRefuses, Does, Finish, Goto, Leave, Persisting
<1>15. ASSUME NEW p \in Procs, Decline(p) PROVE RowsInv'
  BY <1>15, <1>1 DEF Decline, Does, Finish, Goto, Leave, Persisting
<1>16. ASSUME NEW p \in Procs, Wipe(p) PROVE RowsInv'
  BY <1>16, <1>1 DEF Wipe, Does, Finish, Goto, Leave, Persisting
<1>17. ASSUME NEW p \in Procs, RemoveReports(p) PROVE RowsInv'
  BY <1>17, <1>1 DEF RemoveReports, Does, Finish, Goto, Leave, Persisting
<1>18. ASSUME NEW p \in Procs, Serve(p) PROVE RowsInv'
  BY <1>18, <1>1 DEF Serve, Does, Finish, Goto, Leave, Persisting
<1>19. ASSUME NEW p \in Procs, ServeRefused(p) PROVE RowsInv'
  BY <1>19, <1>1 DEF ServeRefused, Does, Finish, Goto, Leave, Persisting
<1>20. ASSUME NEW p \in Procs, Stop(p) PROVE RowsInv'
  BY <1>20, <1>1 DEF Stop, Does, Finish, Goto, Leave, Persisting
<1>21. ASSUME NEW p \in Procs, L3Refused(p) PROVE RowsInv'
  BY <1>21, <1>1 DEF L3Refused, Does, Finish, Goto, Leave, Persisting
<1>22. ASSUME NEW p \in Procs, L3Rows(p) PROVE RowsInv'
  BY <1>22, <1>1 DEF L3Rows, Does, Finish, Goto, Leave, Persisting
<1>23. ASSUME NEW p \in Procs, L3Audit(p) PROVE RowsInv'
  BY <1>23, <1>1 DEF L3Audit, Does, Finish, Goto, Leave, Persisting
<1>24. ASSUME NEW p \in Procs, Fails(p) PROVE RowsInv'
  BY <1>24, <1>1 DEF Fails, Does, Finish, Goto, Leave, Persisting
<1>25. ASSUME NEW p \in Procs, Start(p) PROVE RowsInv'
  <2>1. /\ pc[p] = "new" /\ pc' = [pc EXCEPT ![p] = "run"]
        /\ UNCHANGED <<exit, tmp, label, told, dest>>
        /\ \A q \in Procs : q # p => allow'[q] = allow[q]
    BY <1>25 DEF Start, Goto, TypeOK, L3TypeOK
  <2>2. RowsOf(p)'
    BY <2>1 DEF RowsInv, RowsOf, TypeOK
  <2>3. ASSUME NEW q \in Procs, q # p PROVE RowsOf(q)'
    BY <2>1, <2>3, OthersKeepRows DEF TypeOK
  <2> QED
    BY <2>2, <2>3 DEF RowsInv
<1>26. ASSUME NEW p \in Procs, Interrupted(p) PROVE RowsInv'
  <2>1. PICK c \in {130, Killed} : Leave(p, c)
    BY <1>26 DEF Interrupted
  <2>2. RowsOf(p)'
    BY <1>26, <2>1 DEF Interrupted, Leave, RowsInv, RowsOf, Declared, TypeOK, l3vars
  <2>3. ASSUME NEW q \in Procs, q # p PROVE RowsOf(q)'
    BY <1>26, <2>1, <2>3, OthersKeepRows DEF Interrupted, Leave, TypeOK, l3vars
  <2> QED
    BY <2>2, <2>3 DEF RowsInv
<1>27. ASSUME NEW p \in Procs, L3Step(p) PROVE RowsInv'
  BY <1>27, L3KeepsRows
<1>28. CASE Meanwhile
  <2> SUFFICES ASSUME NEW q \in Procs PROVE RowsOf(q)'
    BY DEF RowsInv
  <2>1. UNCHANGED <<pc, exit, allow, label, told>>
    BY <1>28 DEF Meanwhile
  <2>2. tmp'[q] = tmp[q] \/ tmp'[q].has = "nothing"
    BY <1>28 DEF Meanwhile, NoFile, TypeOK, L3TypeOK
  <2>3. dest' = dest \/ dest'.by # q
    BY <1>28, NoProcAssumption DEF Meanwhile, NoDest, Foreign
  <2> QED
    BY <2>1, <2>2, <2>3 DEF RowsInv, RowsOf, Declared
<1>29. CASE UNCHANGED vars
  BY <1>29 DEF vars, l3vars, RowsInv, RowsOf, Declared
<1> QED
  BY <1>2, <1>3, <1>4, <1>5, <1>6, <1>7, <1>8, <1>9, <1>10, <1>11, <1>12, <1>13, <1>14,
     <1>15, <1>16, <1>17, <1>18, <1>19, <1>20, <1>21, <1>22, <1>23, <1>24, <1>25, <1>26,
     <1>27, <1>28, <1>29 DEF Next

\* What `--l3-persist` promises (persist_l3_body): rows lie unprotected only where
\* that was allowed and is labelled, and a run that ends by itself leaves none in
\* its temporary file without saying so; for any number of exports to one path.
THEOREM AllRowsStayContained == Spec => []RowsStayContained
<1>1. RowsInv => RowsStayContained
  BY DEF RowsInv, RowsOf, RowsStayContained, Declared
<1> QED
  BY <1>1, TypeInit, TypeStep, RowsInit, RowsStep, PTL DEF Spec


-----------------------------------------------------------------------------
(* What was asked for is done.                                             *)

Reading == {"read", "read_more", "deliver"}

\* What exit code 0 stands for.
Accomplished(p) ==
    \/ asked[p] \cap Info # {}
    \/ declined[p]
    \/ asked[p] = {"web", "reset"} /\ did[p] = {"reset"}
    \/ /\ asked[p] \subseteq did[p]
       /\ asked[p] \cap Checked # {} => found[p] = "all" \/ lost[p]

\* What a process was asked for, given where it is.
AskedOf(p) ==
    /\ pc[p] \notin {"new", "ended"} => Admitted(asked[p])
    /\ pc[p] \in Reading =>
           Chosen(asked[p]) \in AboutSessions \cup {"trail"} /\ asked[p] = {Chosen(asked[p])}
    /\ pc[p] = "scanning" =>
           asked[p] \in {{}, {"resume"}} \/ ("demo" \in asked[p] /\ asked[p] \subseteq {"demo", "web"})
    /\ pc[p] \in {"listen", "serving"} =>
           asked[p] \subseteq {"demo", "web"} /\ asked[p] \subseteq did[p] \cup {"web"}
    /\ pc[p] = "remove_reports" => asked[p] \in {{"reset"}, {"web", "reset"}}
    /\ pc[p] \in Persisting \cup {"check_dest", "replaced"} => asked[p] = {"l3"}

\* A session that was looked for is there until a wipe.
ReadOf(p) ==
    asked[p] \cap Checked # {} =>
        /\ pc[p] \in Reading => about[p] \subseteq known \/ lost[p]
        /\ pc[p] \in {"read_more", "deliver"} => found[p] = "all" \/ lost[p]

DoneOf(p) ==
    /\ pc[p] # "ended" => exit[p] = Running
    /\ pc[p] \notin {"listen", "serving", "ended"} => did[p] = {}
    /\ pc[p] = "serving" => listen[p] \in Listeners
    /\ AskedOf(p) /\ ReadOf(p)
    /\ exit[p] = 0 => Accomplished(p)

DoneInv == \A p \in Procs : DoneOf(p)

LEMMA DoneInit == Init => DoneInv
  BY DEF Init, DoneInv, DoneOf, AskedOf, ReadOf, Reading, Persisting

LEMMA OthersStayDone ==
    ASSUME NEW q, DoneOf(q),
           pc'[q] = pc[q], exit'[q] = exit[q], asked'[q] = asked[q], about'[q] = about[q],
           found'[q] = found[q], declined'[q] = declined[q], did'[q] = did[q],
           listen'[q] = listen[q],
           lost[q] => lost'[q], known \subseteq known' \/ lost'[q]
    PROVE  DoneOf(q)'
<1>1. AskedOf(q)'
  BY DEF DoneOf, AskedOf
<1>2. ReadOf(q)'
  BY DEF DoneOf, ReadOf
<1>3. Accomplished(q) => Accomplished(q)'
  BY DEF Accomplished
<1> QED
  BY <1>1, <1>2, <1>3 DEF DoneOf

\* Steps of p leave the others alone, but for the sessions in the database.
LEMMA DoneFrame ==
    ASSUME DoneInv, TypeOK, NEW p \in Procs, NEW at, NEW c,
           pc' = [pc EXCEPT ![p] = at],
           exit' = exit \/ exit' = [exit EXCEPT ![p] = c],
           \A q \in Procs : q # p =>
               /\ asked'[q] = asked[q] /\ about'[q] = about[q] /\ found'[q] = found[q]
               /\ declined'[q] = declined[q] /\ did'[q] = did[q] /\ listen'[q] = listen[q]
               /\ lost[q] => lost'[q],
           known \subseteq known' \/ \A q \in Procs : lost'[q],
           DoneOf(p)'
    PROVE  DoneInv'
<1> SUFFICES ASSUME NEW q \in Procs, q # p PROVE DoneOf(q)'
  BY DEF DoneInv
<1>1. pc'[q] = pc[q] /\ exit'[q] = exit[q]
  BY DEF TypeOK
<1> QED
  BY <1>1, OthersStayDone DEF DoneInv

LEMMA FailuresAreNotDone ==
    ASSUME DoneInv, TypeOK, NEW p \in Procs, NEW c, c # 0, Leave(p, c), UNCHANGED cmdvars
    PROVE  DoneInv'
<1>1. pc' = [pc EXCEPT ![p] = "ended"] /\ exit' = [exit EXCEPT ![p] = c]
  BY DEF Leave
<1>2. pc'[p] = "ended" /\ exit'[p] # 0
  BY <1>1 DEF TypeOK
<1>3. DoneOf(p)'
  BY <1>2 DEF DoneOf, AskedOf, ReadOf, Reading, Persisting
<1> QED
  BY <1>1, <1>3, DoneFrame DEF cmdvars


LEMMA L3KeepsDone ==
    ASSUME DoneInv, TypeOK, NEW p \in Procs, L3Step(p), UNCHANGED cmdvars
    PROVE  DoneInv'
<1>1. ASSUME NEW at \in Persisting \cup {"replaced"}, pc[p] \in Persisting \cup {"check_dest"},
             Goto(p, at)
      PROVE  DoneInv'
  <2>1. pc' = [pc EXCEPT ![p] = at] /\ exit' = exit /\ pc'[p] = at
    BY <1>1 DEF Goto, TypeOK
  <2>2. asked[p] = {"l3"} /\ Admitted(asked[p]) /\ exit[p] = Running /\ did[p] = {}
    BY <1>1 DEF DoneInv, DoneOf, AskedOf, Persisting
  <2>3. DoneOf(p)'
    BY <2>1, <2>2, <1>1 DEF DoneOf, AskedOf, ReadOf, Reading, Persisting, cmdvars, Checked
  <2> QED
    BY <2>1, <2>3, DoneFrame DEF cmdvars
<1>2. CASE CheckDestination(p)
  BY <1>1, <1>2, FailuresAreNotDone DEF CheckDestination, Persisting
<1>3. CASE Create(p) \/ Verify(p) \/ WriteRows(p) \/ Recheck(p) \/ Replace(p)
  BY <1>1, <1>3 DEF Create, Verify, WriteRows, Recheck, Replace, Persisting
<1>4. CASE Abort(p)
  BY <1>4, FailuresAreNotDone DEF Abort
<1> QED
  BY <1>2, <1>3, <1>4 DEF L3Step

LEMMA StartKeepsDone ==
    ASSUME DoneInv, TypeOK, NEW p \in Procs, Start(p)
    PROVE  DoneInv'
<1>1. PICK a \in MayAsk[p], o \in Options :
          a \cap Info = {} /\ ~Refused(a, o) /\ asked' = [asked EXCEPT ![p] = a]
  BY DEF Start, Info
<1>2. Admitted(a)
  BY <1>1, AskedAreModes, OneModeIsLeft
<1>3. /\ pc[p] = "new" /\ pc' = [pc EXCEPT ![p] = "run"] /\ UNCHANGED exit
      /\ UNCHANGED <<known, found, lost, declined, did, listen>>
      /\ asked'[p] = a /\ pc'[p] = "run"
  BY <1>1 DEF Start, Goto, TypeOK
<1>4. exit[p] = Running /\ did[p] = {}
  BY <1>3 DEF DoneInv, DoneOf
<1>5. DoneOf(p)'
  BY <1>2, <1>3, <1>4 DEF DoneOf, AskedOf, ReadOf, Reading, Persisting
<1>6. \A q \in Procs : q # p => asked'[q] = asked[q] /\ about'[q] = about[q]
  BY DEF Start, TypeOK
<1> QED
  BY <1>3, <1>5, <1>6, DoneFrame

LEMMA FinishIsDone ==
    ASSUME DoneInv, TypeOK, NEW p \in Procs, NEW modes, Finish(p, modes),
           asked[p] \subseteq did[p] \cup modes,
           asked[p] \cap Checked # {} => found[p] = "all" \/ lost[p],
           UNCHANGED <<asked, persist, about, known, found, lost, declined, listen>>
    PROVE  DoneInv'
<1>1. /\ pc' = [pc EXCEPT ![p] = "ended"] /\ exit' = [exit EXCEPT ![p] = 0]
      /\ did' = [did EXCEPT ![p] = did[p] \cup modes]
  BY DEF Finish, Leave
<1>2. pc'[p] = "ended" /\ did'[p] = did[p] \cup modes
  BY <1>1 DEF TypeOK
<1>3. Accomplished(p)'
  BY <1>2 DEF Accomplished
<1>4. DoneOf(p)'
  BY <1>2, <1>3 DEF DoneOf, AskedOf, ReadOf, Reading, Persisting
<1>5. \A q \in Procs : q # p => did'[q] = did[q]
  BY <1>1 DEF TypeOK
<1> QED
  BY <1>1, <1>4, <1>5, DoneFrame


LEMMA GoesOn ==
    ASSUME DoneInv, TypeOK, NEW p \in Procs, NEW at, Goto(p, at), at # "ended",
           \A q \in Procs : q # p =>
               /\ about'[q] = about[q] /\ found'[q] = found[q] /\ listen'[q] = listen[q]
               /\ did'[q] = did[q]
               /\ lost[q] => lost'[q],
           UNCHANGED <<asked, declined>>,
           known \subseteq known' \/ \A q \in Procs : lost'[q],
           pc[p] # "ended",
           at \notin {"listen", "serving"} => did'[p] = {},
           at = "serving" => listen'[p] \in Listeners,
           AskedOf(p)', ReadOf(p)'
    PROVE  DoneInv'
<1>1. pc' = [pc EXCEPT ![p] = at] /\ UNCHANGED exit /\ pc'[p] = at
  BY DEF Goto, TypeOK
<1>2. exit[p] = Running
  BY DEF DoneInv, DoneOf
<1>3. DoneOf(p)'
  BY <1>1, <1>2 DEF DoneOf
<1> QED
  BY <1>1, <1>3, DoneFrame

LEMMA AskedAtRun ==
    ASSUME DoneInv, NEW p \in Procs, NEW m, Does(p, m)
    PROVE  /\ pc[p] = "run" /\ did[p] = {} /\ exit[p] = Running /\ Admitted(asked[p])
           /\ m \in Solitary => asked[p] = {m}
           /\ m = "trail" => "trail" \in asked[p] /\ asked[p] \subseteq {"trail", "web", "reset"}
           /\ m = "web" => asked[p] = {"web"} \/ ("demo" \in asked[p] /\ asked[p] \subseteq {"demo", "web"})
           /\ m = "reset" => asked[p] \in {{"reset"}, {"web", "reset"}}
           /\ m = "scan" => asked[p] \in {{}, {"resume"}}
<1>1. /\ pc[p] = "run" /\ Chosen(asked[p]) = m
      /\ did[p] = {} /\ exit[p] = Running /\ Admitted(asked[p])
  BY DEF Does, DoneInv, DoneOf, AskedOf
<1> QED
  BY <1>1, ChosenShape

LEMMA ReadingKeepsDone ==
    ASSUME DoneInv, TypeOK, NEW p \in Procs,
           Report(p) \/ LookUp(p) \/ ReadAtOnce(p) \/ ReadRows(p) \/ Deliver(p)
    PROVE  DoneInv'
<1>1. CASE Report(p)
  <2>1. PICK m \in {"validate", "plan", "prefilter"} : Does(p, m) /\ Finish(p, {m})
    BY <1>1 DEF Report
  <2>2. asked[p] = {m}
    BY <2>1, AskedAtRun DEF Solitary
  <2> QED
    BY <1>1, <2>1, <2>2, FinishIsDone DEF Report, Checked
<1>2. CASE LookUp(p)
  <2>1. PICK m \in Checked : Does(p, m)
    BY <1>2 DEF LookUp
  <2>2. asked[p] = {m} /\ m = Chosen(asked[p]) /\ did[p] = {} /\ pc[p] = "run" /\ Admitted(asked[p])
    BY <2>1, AskedAtRun DEF Solitary, Checked, Exports, Does
  <2>3. /\ Goto(p, "read") /\ pc'[p] = "read" /\ about'[p] \subseteq known
        /\ \A q \in Procs : q # p => about'[q] = about[q] /\ lost'[q] = lost[q]
        /\ UNCHANGED <<asked, known, found, declined, did, listen>>
    BY <1>2 DEF LookUp, Goto, TypeOK
  <2>4. AskedOf(p)' /\ ReadOf(p)'
    BY <2>2, <2>3 DEF AskedOf, ReadOf, Reading, Persisting, Checked, AboutSessions
  <2> QED
    BY <2>2, <2>3, <2>4, GoesOn
<1>3. CASE ReadAtOnce(p)
  <2>1. /\ asked[p] = {Chosen(asked[p])} /\ Chosen(asked[p]) \in (AboutSessions \cup {"trail"}) \ Checked
        /\ pc[p] = "run" /\ did[p] = {} /\ Admitted(asked[p])
    <3>1. ASSUME NEW m \in AboutSessions \ Checked, Does(p, m) PROVE m \in Solitary
      BY <3>1 DEF AboutSessions, Checked, Solitary, Exports
    <3>2. CASE \E m \in AboutSessions \ Checked : Does(p, m)
      BY <3>1, <3>2, AskedAtRun DEF Does
    <3>3. CASE Does(p, "trail") /\ asked[p] \cap {"web", "reset"} = {}
      BY <3>3, AskedAtRun DEF Does, Checked
    <3> QED
      BY <1>3, <3>2, <3>3 DEF ReadAtOnce
  <2>2. Goto(p, "read") /\ pc'[p] = "read" /\ UNCHANGED cmdvars
    BY <1>3 DEF ReadAtOnce, Goto, TypeOK
  <2>3. AskedOf(p)' /\ ReadOf(p)'
    BY <2>1, <2>2 DEF AskedOf, ReadOf, Reading, Persisting, cmdvars
  <2> QED
    BY <2>1, <2>2, <2>3, GoesOn DEF cmdvars
<1>4. CASE ReadRows(p)
  <2>1. PICK at \in {"read_more", "deliver"} : Goto(p, at) /\ pc'[p] = at
    BY <1>4 DEF ReadRows, Goto, TypeOK
  <2>2. /\ pc[p] \in {"read", "read_more"}
        /\ UNCHANGED <<asked, about, known, lost, declined, did, listen>>
        /\ \A q \in Procs : q # p => found'[q] = found[q]
    BY <1>4 DEF ReadRows, TypeOK
  <2>3. AskedOf(p) /\ ReadOf(p) /\ did[p] = {}
    BY <2>2 DEF DoneInv, DoneOf
  <2>4. AskedOf(p)'
    BY <2>1, <2>2, <2>3 DEF AskedOf, Reading, Persisting
  <2>5. about[p] \subseteq known /\ (pc[p] = "read" \/ found[p] = "all") => found'[p] = "all"
    BY <1>4 DEF ReadRows, TypeOK
  <2>6. ReadOf(p)'
    BY <2>1, <2>2, <2>3, <2>5 DEF ReadOf, Reading
  <2> QED
    BY <2>1, <2>2, <2>3, <2>4, <2>6, GoesOn
<1>5. CASE Deliver(p)
  <2>1. asked[p] = {Chosen(asked[p])} /\ (asked[p] \cap Checked # {} => found[p] = "all" \/ lost[p])
    BY <1>5 DEF Deliver, DoneInv, DoneOf, AskedOf, ReadOf, Reading
  <2> QED
    BY <1>5, <2>1, FinishIsDone DEF Deliver
<1> QED
  BY <1>1, <1>2, <1>3, <1>4, <1>5


LEMMA ScansKeepDone ==
    ASSUME DoneInv, TypeOK, NEW p \in Procs, Scan(p) \/ ScanEnds(p)
    PROVE  DoneInv'
<1>1. CASE Scan(p)
  <2>1. /\ pc[p] = "run" /\ did[p] = {} /\ Admitted(asked[p])
        /\ asked[p] \in {{}, {"resume"}} \/ ("demo" \in asked[p] /\ asked[p] \subseteq {"demo", "web"})
    BY <1>1, AskedAtRun DEF Scan
  <2>2. /\ Goto(p, "scanning") /\ pc'[p] = "scanning" /\ known \subseteq known'
        /\ UNCHANGED <<asked, about, found, lost, declined, did, listen>>
    BY <1>1 DEF Scan, Goto, TypeOK
  <2>3. AskedOf(p)' /\ ReadOf(p)'
    BY <2>1, <2>2 DEF AskedOf, ReadOf, Reading, Persisting
  <2> QED
    BY <2>1, <2>2, <2>3, GoesOn
<1>2. CASE ScanEnds(p) /\ "demo" \in asked[p]
  <2>1. /\ pc[p] = "scanning" /\ Admitted(asked[p]) /\ asked[p] \subseteq {"demo", "web"}
    BY <1>2 DEF ScanEnds, DoneInv, DoneOf, AskedOf
  <2>2. /\ Goto(p, "listen") /\ pc'[p] = "listen" /\ did'[p] = {"demo"}
        /\ \A q \in Procs : q # p => did'[q] = did[q]
        /\ UNCHANGED <<asked, about, known, found, lost, declined, listen>>
    BY <1>2 DEF ScanEnds, Goto, TypeOK
  <2>3. AskedOf(p)' /\ ReadOf(p)'
    BY <2>1, <2>2 DEF AskedOf, ReadOf, Reading, Persisting
  <2> QED
    BY <2>1, <2>2, <2>3, GoesOn
<1>3. CASE ScanEnds(p) /\ "demo" \notin asked[p]
  <2>1. asked[p] \in {{}, {"resume"}}
    BY <1>3 DEF ScanEnds, DoneInv, DoneOf, AskedOf
  <2>2. asked[p] \subseteq did[p] \cup (asked[p] \cap {"resume"}) /\ asked[p] \cap Checked = {}
    BY <2>1 DEF Checked
  <2> QED
    BY <1>3, <2>2, FinishIsDone DEF ScanEnds
<1> QED
  BY <1>1, <1>2, <1>3

LEMMA WipesKeepDone ==
    ASSUME DoneInv, TypeOK, NEW p \in Procs, Decline(p) \/ Wipe(p) \/ RemoveReports(p)
    PROVE  DoneInv'
<1>1. CASE Decline(p)
  <2>1. /\ pc' = [pc EXCEPT ![p] = "ended"] /\ exit' = [exit EXCEPT ![p] = 0]
        /\ pc'[p] = "ended" /\ declined'[p]
        /\ \A q \in Procs : q # p => declined'[q] = declined[q]
        /\ UNCHANGED <<asked, about, known, found, lost, did, listen>>
    BY <1>1 DEF Decline, Leave, TypeOK
  <2>2. DoneOf(p)'
    BY <2>1 DEF DoneOf, AskedOf, ReadOf, Accomplished, Reading, Persisting
  <2> QED
    BY <2>1, <2>2, DoneFrame
<1>2. CASE Wipe(p)
  <2>1. /\ pc[p] = "run" /\ did[p] = {} /\ Admitted(asked[p])
        /\ asked[p] \in {{"reset"}, {"web", "reset"}}
    BY <1>2, AskedAtRun DEF Wipe
  <2>2. /\ Goto(p, "remove_reports") /\ pc'[p] = "remove_reports" /\ \A q \in Procs : lost'[q]
        /\ UNCHANGED <<asked, about, found, declined, did, listen>>
    BY <1>2 DEF Wipe, Goto, TypeOK
  <2>3. AskedOf(p)' /\ ReadOf(p)'
    BY <2>1, <2>2 DEF AskedOf, ReadOf, Reading, Persisting
  <2> QED
    BY <2>1, <2>2, <2>3, GoesOn
<1>3. CASE RemoveReports(p)
  <2>1. /\ pc[p] = "remove_reports" /\ did[p] = {} /\ asked[p] \in {{"reset"}, {"web", "reset"}}
    BY <1>3 DEF RemoveReports, DoneInv, DoneOf, AskedOf
  <2>2. /\ pc' = [pc EXCEPT ![p] = "ended"] /\ exit' = [exit EXCEPT ![p] = 0]
        /\ pc'[p] = "ended" /\ did'[p] = {"reset"}
        /\ \A q \in Procs : q # p => did'[q] = did[q]
        /\ UNCHANGED <<asked, about, known, found, lost, declined, listen>>
    BY <1>3, <2>1 DEF RemoveReports, Finish, Leave, TypeOK
  <2>3. Accomplished(p)'
    BY <2>1, <2>2 DEF Accomplished, Checked
  <2>4. DoneOf(p)'
    BY <2>2, <2>3 DEF DoneOf, AskedOf, ReadOf, Reading, Persisting
  <2> QED
    BY <2>2, <2>4, DoneFrame
<1> QED
  BY <1>1, <1>2, <1>3

LEMMA ServingKeepsDone ==
    ASSUME DoneInv, TypeOK, NEW p \in Procs, Serve(p) \/ Stop(p)
    PROVE  DoneInv'
<1>1. CASE Serve(p)
  <2>1. /\ pc[p] \in {"run", "listen"} /\ Admitted(asked[p])
        /\ asked[p] \subseteq {"demo", "web"} /\ asked[p] \subseteq did[p] \cup {"web"}
    <3>1. CASE pc[p] = "listen"
      BY <3>1 DEF DoneInv, DoneOf, AskedOf
    <3>2. CASE Does(p, "web") /\ "demo" \notin asked[p]
      BY <3>2, AskedAtRun
    <3> QED
      BY <1>1, <3>1, <3>2 DEF Serve
  <2>2. /\ Goto(p, "serving") /\ pc'[p] = "serving" /\ listen'[p] \in Listeners
        /\ \A q \in Procs : q # p => listen'[q] = listen[q]
        /\ UNCHANGED <<asked, about, known, found, lost, declined, did>>
    BY <1>1 DEF Serve, Goto, TypeOK
  <2>3. AskedOf(p)' /\ ReadOf(p)'
    BY <2>1, <2>2 DEF AskedOf, ReadOf, Reading, Persisting
  <2> QED
    BY <2>1, <2>2, <2>3, GoesOn
<1>2. CASE Stop(p)
  <2>1. asked[p] \subseteq did[p] \cup {"web"} /\ asked[p] \cap Checked = {}
    BY <1>2 DEF Stop, DoneInv, DoneOf, AskedOf, Checked
  <2> QED
    BY <1>2, <2>1, FinishIsDone DEF Stop
<1> QED
  BY <1>1, <1>2


LEMMA ExportsKeepDone ==
    ASSUME DoneInv, TypeOK, NEW p \in Procs, L3Rows(p) \/ L3Audit(p)
    PROVE  DoneInv'
<1>1. CASE L3Rows(p)
  <2>1. asked[p] = {"l3"} /\ did[p] = {} /\ pc[p] = "run" /\ Admitted(asked[p])
    BY <1>1, AskedAtRun DEF L3Rows, Solitary, Exports
  <2>2. CASE persist[p]
    <3>1. /\ Goto(p, "check_dest") /\ pc'[p] = "check_dest"
          /\ UNCHANGED <<asked, about, known, found, lost, declined, did, listen>>
      BY <1>1, <2>2 DEF L3Rows, Goto, TypeOK
    <3>2. AskedOf(p)' /\ ReadOf(p)'
      BY <2>1, <3>1 DEF AskedOf, ReadOf, Reading, Persisting
    <3> QED
      BY <2>1, <3>1, <3>2, GoesOn
  <2>3. CASE ~persist[p]
    BY <1>1, <2>1, <2>3, FinishIsDone DEF L3Rows, Checked
  <2> QED
    BY <2>2, <2>3
<1>2. CASE L3Audit(p)
  <2>1. asked[p] = {"l3"}
    BY <1>2 DEF L3Audit, DoneInv, DoneOf, AskedOf
  <2> QED
    BY <1>2, <2>1, FinishIsDone DEF L3Audit, Checked
<1> QED
  BY <1>1, <1>2

LEMMA DoneStep == TypeOK /\ DoneInv /\ [Next]_vars => DoneInv'
<1> SUFFICES ASSUME TypeOK, DoneInv, [Next]_vars PROVE DoneInv'
  OBVIOUS
<1>1. ASSUME NEW p \in Procs, StartInfo(p) PROVE DoneInv'
  <2>1. /\ pc' = [pc EXCEPT ![p] = "ended"] /\ exit' = [exit EXCEPT ![p] = 0]
        /\ pc'[p] = "ended" /\ asked'[p] \cap Info # {}
        /\ \A q \in Procs : q # p => asked'[q] = asked[q]
        /\ UNCHANGED <<about, known, found, lost, declined, did, listen>>
    BY <1>1 DEF StartInfo, Leave, TypeOK, Info
  <2>2. DoneOf(p)'
    BY <2>1 DEF DoneOf, AskedOf, ReadOf, Accomplished, Reading, Persisting
  <2> QED
    BY <2>1, <2>2, DoneFrame
<1>2. ASSUME NEW p \in Procs, Start(p) PROVE DoneInv'
  BY <1>2, StartKeepsDone
<1>3. ASSUME NEW p \in Procs,
             Report(p) \/ LookUp(p) \/ ReadAtOnce(p) \/ ReadRows(p) \/ Deliver(p)
      PROVE  DoneInv'
  BY <1>3, ReadingKeepsDone
<1>4. ASSUME NEW p \in Procs, Scan(p) \/ ScanEnds(p) PROVE DoneInv'
  BY <1>4, ScansKeepDone
<1>5. ASSUME NEW p \in Procs, Decline(p) \/ Wipe(p) \/ RemoveReports(p) PROVE DoneInv'
  BY <1>5, WipesKeepDone
<1>6. ASSUME NEW p \in Procs, Serve(p) \/ Stop(p) PROVE DoneInv'
  BY <1>6, ServingKeepsDone
<1>7. ASSUME NEW p \in Procs, L3Rows(p) \/ L3Audit(p) PROVE DoneInv'
  BY <1>7, ExportsKeepDone
<1>8. ASSUME NEW p \in Procs, L3Step(p), UNCHANGED cmdvars PROVE DoneInv'
  BY <1>8, L3KeepsDone
<1>9. ASSUME NEW p \in Procs, StartRefused(p) PROVE DoneInv'
  BY <1>9, FailuresAreNotDone DEF StartRefused
<1>10. ASSUME NEW p \in Procs, RefuseTrail(p) PROVE DoneInv'
  BY <1>10, FailuresAreNotDone DEF RefuseTrail
<1>11. ASSUME NEW p \in Procs, UnknownSession(p) PROVE DoneInv'
  BY <1>11, FailuresAreNotDone DEF UnknownSession
<1>12. ASSUME NEW p \in Procs, ResumeUnknown(p) PROVE DoneInv'
  BY <1>12, FailuresAreNotDone DEF ResumeUnknown
<1>13. ASSUME NEW p \in Procs, LicenceRefuses(p) PROVE DoneInv'
  BY <1>13, FailuresAreNotDone DEF LicenceRefuses
<1>14. ASSUME NEW p \in Procs, ServeRefused(p) PROVE DoneInv'
  BY <1>14, FailuresAreNotDone DEF ServeRefused
<1>15. ASSUME NEW p \in Procs, L3Refused(p) PROVE DoneInv'
  BY <1>15, FailuresAreNotDone DEF L3Refused
<1>16. ASSUME NEW p \in Procs, Fails(p) PROVE DoneInv'
  BY <1>16, FailuresAreNotDone DEF Fails
<1>17. ASSUME NEW p \in Procs, Interrupted(p) PROVE DoneInv'
  BY <1>17, FailuresAreNotDone DEF Interrupted
<1>18. CASE Meanwhile /\ UNCHANGED cmdvars
  BY <1>18, OthersStayDone DEF Meanwhile, cmdvars, DoneInv
<1>19. CASE UNCHANGED vars
  BY <1>19, OthersStayDone DEF vars, cmdvars, DoneInv
<1> QED
  BY <1>1, <1>2, <1>3, <1>4, <1>5, <1>6, <1>7, <1>8, <1>9, <1>10, <1>11, <1>12, <1>13,
     <1>14, <1>15, <1>16, <1>17, <1>18, <1>19 DEF Next

\* No combination of modes, no race with a wipe and no failure in between makes
\* main exit with 0 when a mode is not done or has not read all there was, but for
\* the cases that ExitZeroMeansDone names.
THEOREM ZeroAlwaysMeansDone == Spec => []ExitZeroMeansDone
<1>1. DoneInv => ExitZeroMeansDone
  BY DEF DoneInv, DoneOf, ExitZeroMeansDone, Accomplished, Info
<1> QED
  BY <1>1, TypeInit, TypeStep, DoneInit, DoneStep, PTL DEF Spec

-----------------------------------------------------------------------------
(* The gate in front of the listener.                                      *)

\* Behind the gate the key is asked of whoever has no session: the application
\* has what the gate has seen, or asks for a key all the same.
LEMMA GateKeepsOut ==
    ASSUME NEW s \in Settings, Starts(s), Exposed(Host(s)), s.same \/ s.appRequiresKey
    PROVE  KeptOut(Listening(s))
<1>1. s.requireKey
  BY DEF Starts, Blocked, AuthBoundaryResolved
<1>2. s.appRequiresKey
  BY <1>1 DEF Settings
<1> SUFFICES ASSUME NEW cfg \in Served(Listening(s)), NEW passkey \in BOOLEAN, NEW r \in Strangers,
                    Handled(cfg, passkey, r), ~ExemptFromKey(r)
             PROVE  FALSE
  BY DEF KeptOut
<1>3. cfg.requireKey
  BY <1>2 DEF Served, Listening
<1>4. ~HasKey(cfg, r) /\ ~HasSession(cfg, r)
  BY DEF Strangers, HasKey, HasSession
<1>5. KeyAnswer(cfg, r) \in {Refuse(401), Refuse(503)}
  BY <1>3, <1>4 DEF KeyAnswer
<1>6. Refuse(401) # Pass /\ Refuse(503) # Pass
  BY DEF Refuse, Pass
<1>7. Answer(cfg, passkey, r) = Pass => KeyAnswer(cfg, r) = Pass
  BY DEF Answer
<1> QED
  BY <1>5, <1>6, <1>7 DEF Handled

LEMMA GateAsksForTheKey == Listeners \subseteq AskForTheKey
<1> SUFFICES ASSUME NEW s \in Settings, Starts(s) PROVE Listening(s) \in AskForTheKey
  BY DEF Listeners
<1>1. Listening(s).exposed /\ (Listening(s).same \/ Listening(s).requireKey) => KeptOut(Listening(s))
  BY GateKeepsOut DEF Listening
<1> QED
  BY <1>1 DEF AskForTheKey, Listeners

\* However the address and the key are set, by the command line, the file of --config
\* and the environment, what main starts keeps strangers out (main.py and
\* core/host_resolution.py against the middlewares of api/routes.py), unless the
\* application has loaded another configuration that asks for no key.
THEOREM EveryListenerAsks == Spec => []ListenersAskForTheKey
<1>1. DoneInv => ListenersAskForTheKey
  BY GateAsksForTheKey DEF DoneInv, DoneOf, ListenersAskForTheKey
<1> QED
  BY <1>1, TypeInit, TypeStep, DoneInit, DoneStep, PTL DEF Spec

=============================================================================
