---------------------------- MODULE CommandLine ----------------------------
(***************************************************************************)
(* main.py: what a command line asks for, what of it is refused, the one   *)
(* mode that is then run, and the exit code.  Processes share the sessions *)
(* of one database, which any of them may wipe, and one --l3-persist path. *)
(*                                                                         *)
(* Scans are one step here (ScanSessions and ScanRun have them in full).   *)
(***************************************************************************)
EXTENDS Naturals, Sequences, FiniteSets, L3Export, Listener

CONSTANTS
    Sessions,
    MayAsk          \* the sets of modes each process may ask for; a bound of the model

VARIABLES
    asked,          \* the modes a process was asked for
    persist,        \* --l3-persist
    about,          \* the sessions it is asked about
    known,          \* the sessions in the database
    found,          \* how much of their rows it has read
    lost,           \* was the database wiped since it looked for them?
    declined,       \* was "yes" not typed?
    did,            \* the modes it has finished
    listen          \* how it listens

cmdvars == <<asked, persist, about, known, found, lost, declined, did, listen>>
vars == <<pc, exit, l3vars, cmdvars>>

Exports ==
    {"trail", "dsar", "l1", "l3", "sink", "remediation", "regenerate", "governance"}

Modes ==
    Exports \cup {"version", "extras", "demo", "validate", "plan", "resume",
                  "prefilter", "diff", "web", "reset"}

ASSUME MayAskAssumption == MayAsk \in [Procs -> SUBSET (SUBSET Modes)]

\* Modes that look at given sessions.
AboutSessions == {"diff", "dsar", "l1", "sink", "remediation", "regenerate", "governance"}
\* Those of them that make sure that there are such sessions.
Checked == {"diff", "remediation", "regenerate", "governance"}

-----------------------------------------------------------------------------
(* The parser's refusals.                                                  *)

\* Which modes refuse which others, as the blocks of main list them.
Clashes ==
         ({"demo"} \X (Exports \cup {"validate", "plan", "resume", "prefilter", "extras", "reset", "diff"}))
    \cup ({"validate"} \X (Exports \cup {"web", "plan", "resume", "reset", "prefilter"}))
    \cup ({"plan", "resume"} \X (Exports \cup {"web", "plan", "resume", "reset", "prefilter", "diff"}))
    \cup ({"resume"} \X {"validate"})
    \cup ({"prefilter"} \X (Exports \cup {"web", "plan", "reset", "diff"}))
    \cup ({"diff"} \X (Exports \cup {"web", "reset", "validate"}))
    \cup ((Exports \ {"trail"}) \X (Exports \cup {"web", "reset", "validate", "diff"}))
    \cup ({"remediation", "governance"} \X {"prefilter"})

Options == [session : BOOLEAN, grant : BOOLEAN, persist : BOOLEAN, allow : BOOLEAN]

\* Options without the mode they belong to, modes without their options.
BadOptions(a, o) ==
    \/ (o.grant \/ o.persist \/ o.allow) /\ "l3" \notin a
    \/ o.allow /\ ~o.persist
    \/ "remediation" \in a /\ ~o.session
    \/ o.session /\ a \cap {"remediation", "governance"} = {}

Refused(a, o) ==
    \/ \E m, n \in a : m # n /\ <<m, n>> \in Clashes
    \/ BadOptions(a, o)

\* The order in which main looks for a mode; without any it scans.
Order == <<"validate", "plan", "prefilter", "diff", "dsar", "l1", "sink", "l3",
           "remediation", "regenerate", "governance", "trail", "web", "reset">>

\* --demo sets args.web, and --reset-data comes before --web.
Wanted(a) ==
    LET b == IF "demo" \in a THEN a \cup {"web"} ELSE a
    IN  IF "reset" \in b THEN b \ {"web"} ELSE b

Hits(a) == {i \in 1..Len(Order) : Order[i] \in Wanted(a)}

Chosen(a) ==
    IF Hits(a) = {} THEN "scan"
    ELSE Order[CHOOSE i \in Hits(a) : \A j \in Hits(a) : i <= j]

-----------------------------------------------------------------------------

TypeOK ==
    /\ pc \in [Procs -> {"new", "run", "read", "read_more", "deliver", "scanning",
                        "remove_reports", "listen", "serving", "check_dest", "replaced",
                        "ended"} \cup Persisting]
    /\ exit \in [Procs -> Nat]
    /\ L3TypeOK
    /\ asked \in [Procs -> SUBSET Modes]
    /\ persist \in [Procs -> BOOLEAN]
    /\ about \in [Procs -> SUBSET Sessions]
    /\ known \in SUBSET Sessions
    /\ found \in [Procs -> {"none", "some", "all"}]
    /\ lost \in [Procs -> BOOLEAN] /\ declined \in [Procs -> BOOLEAN]
    /\ did \in [Procs -> SUBSET (Modes \cup {"scan"})]
    /\ listen \in [Procs -> Listeners \cup {NotListening}]

Init ==
    /\ pc = [p \in Procs |-> "new"]
    /\ exit = [p \in Procs |-> Running]
    /\ L3Init
    /\ asked = [p \in Procs |-> {}]
    /\ persist = [p \in Procs |-> FALSE]
    /\ about = [p \in Procs |-> {}]
    /\ known \in SUBSET Sessions
    /\ found = [p \in Procs |-> "none"]
    /\ lost = [p \in Procs |-> FALSE]
    /\ declined = [p \in Procs |-> FALSE]
    /\ did = [p \in Procs |-> {}]
    /\ listen = [p \in Procs |-> NotListening]

Does(p, mode) == pc[p] = "run" /\ Chosen(asked[p]) = mode

\* A mode was finished with exit code 0.
Finish(p, modes) ==
    /\ Leave(p, 0)
    /\ did' = [did EXCEPT ![p] = @ \cup modes]

\* The sessions that are given on the command line.
Given(a, o) ==
    IF "diff" \in a THEN {{s, t} : s, t \in Sessions}
    ELSE IF a \cap (AboutSessions \cup {"resume"}) # {} /\ ("governance" \in a => o.session)
      THEN {{s} : s \in Sessions}
    ELSE {{}}

\* --version and --check-extras come before everything else.
StartInfo(p) ==
    /\ pc[p] = "new"
    /\ \E a \in MayAsk[p] :
           /\ a \cap {"version", "extras"} # {}
           /\ asked' = [asked EXCEPT ![p] = a]
    /\ Leave(p, 0)
    /\ UNCHANGED <<l3vars, persist, about, known, found, lost, declined, did, listen>>

\* A pack of extras for another interpreter, a refused combination, or a
\* configuration that does not load; --export-l3 without a grant.
StartRefused(p) ==
    /\ pc[p] = "new"
    /\ \E c \in {1, 2, 3} : Leave(p, c)
    /\ UNCHANGED <<l3vars, cmdvars>>

Start(p) ==
    /\ pc[p] = "new"
    /\ \E a \in MayAsk[p], o \in Options :
           /\ a \cap {"version", "extras"} = {}
           /\ ~Refused(a, o)
           /\ "l3" \in a => o.grant
           /\ asked' = [asked EXCEPT ![p] = a]
           /\ persist' = [persist EXCEPT ![p] = o.persist]
           /\ allow' = [allow EXCEPT ![p] = o.allow]
           /\ \E ss \in Given(a, o) : about' = [about EXCEPT ![p] = ss]
    /\ Goto(p, "run")
    /\ UNCHANGED <<tmp, label, told, dest, known, found, lost, declined, did, listen>>

\* _validate_config_and_exit, run_scan_plan, --prefilter-status.  (An invalid
\* configuration is an exit code 1 like any failure: Fails.)
Report(p) ==
    /\ \E m \in {"validate", "plan", "prefilter"} : Does(p, m) /\ Finish(p, {m})
    /\ UNCHANGED <<l3vars, asked, persist, about, known, found, lost, declined, listen>>

\* --export-audit-trail is the last of the exports and refuses by itself.
RefuseTrail(p) ==
    /\ Does(p, "trail") /\ asked[p] \cap {"web", "reset"} # {}
    /\ Leave(p, 2)
    /\ UNCHANGED <<l3vars, cmdvars>>

-----------------------------------------------------------------------------
(* Documents about sessions.                                               *)

\* Mutant of LookUp: the session is taken on trust.
LookUpNothing(p) ==
    /\ \E m \in Checked : Does(p, m)
    /\ Goto(p, "read")
    /\ UNCHANGED <<l3vars, asked, persist, about, known, found, lost, declined, did, listen>>

\* _session_exists or list_sessions; a governance report is about the last
\* session if none is given.
LookUp(p) ==
    /\ \E m \in Checked : Does(p, m)
    /\ \E ss \in IF about[p] = {} THEN {{s} : s \in known} ELSE {about[p]} :
           /\ ss \subseteq known
           /\ about' = [about EXCEPT ![p] = ss]
    /\ lost' = [lost EXCEPT ![p] = FALSE]
    /\ Goto(p, "read")
    /\ UNCHANGED <<l3vars, asked, persist, known, found, declined, did, listen>>

UnknownSession(p) ==
    /\ \E m \in Checked : Does(p, m)
    /\ IF about[p] = {} THEN known = {} ELSE ~(about[p] \subseteq known)
    /\ Leave(p, IF Chosen(asked[p]) \in {"diff", "regenerate"} THEN 2 ELSE 1)
    /\ UNCHANGED <<l3vars, cmdvars>>

\* The others go straight to the rows.
ReadAtOnce(p) ==
    /\ \/ \E m \in AboutSessions \ Checked : Does(p, m)
       \/ Does(p, "trail") /\ asked[p] \cap {"web", "reset"} = {}
    /\ Goto(p, "read")
    /\ UNCHANGED <<l3vars, cmdvars>>

\* Queries for the several kinds of findings, each by itself.
ReadRows(p) ==
    /\ pc[p] \in {"read", "read_more"}
    /\ LET now == IF about[p] \subseteq known THEN "all" ELSE "none" IN
       found' = [found EXCEPT ![p] =
                    IF pc[p] = "read" \/ found[p] = now THEN now ELSE "some"]
    /\ Goto(p, IF pc[p] = "read" THEN "read_more" ELSE "deliver")
    /\ UNCHANGED <<l3vars, asked, persist, about, known, lost, declined, did, listen>>

\* Written, printed or sent.  (--fail-on-new-high is a failure.)
Deliver(p) ==
    /\ pc[p] = "deliver"
    /\ Finish(p, {Chosen(asked[p])})
    /\ UNCHANGED <<l3vars, asked, persist, about, known, found, lost, declined, listen>>

-----------------------------------------------------------------------------
(* Scans, wipes, the server and --export-l3.                               *)

\* start_audit, or --resume of a session there is; a demo scans first, into a
\* database of its own.
Scan(p) ==
    /\ Does(p, "scan") \/ (Does(p, "web") /\ "demo" \in asked[p])
    /\ IF "resume" \in asked[p] THEN about[p] \subseteq known /\ UNCHANGED known
       ELSE IF "demo" \in asked[p] THEN UNCHANGED known
       ELSE \E s \in Sessions \ known : known' = known \cup {s}
    /\ Goto(p, "scanning")
    /\ UNCHANGED <<l3vars, asked, persist, about, found, lost, declined, did, listen>>

ResumeUnknown(p) ==
    /\ Does(p, "scan") /\ "resume" \in asked[p] /\ ~(about[p] \subseteq known)
    /\ Leave(p, 2)
    /\ UNCHANGED <<l3vars, cmdvars>>

ScanEnds(p) ==
    /\ pc[p] = "scanning"
    /\ IF "demo" \in asked[p]
         THEN Goto(p, "listen") /\ did' = [did EXCEPT ![p] = {"demo"}]
         ELSE Finish(p, asked[p] \cap {"resume"})
    /\ UNCHANGED <<l3vars, asked, persist, about, known, found, lost, declined, listen>>

\* A refusal of the licence: the scan, a feature of an export or of the sink.
LicenceRefuses(p) ==
    /\ \/ pc[p] = "scanning"
       \/ \E m \in {"sink", "remediation", "governance"} : Does(p, m)
    /\ Leave(p, 2)
    /\ UNCHANGED <<l3vars, cmdvars>>

\* Anything but "yes", also Ctrl+C.
Decline(p) ==
    /\ Does(p, "reset")
    /\ declined' = [declined EXCEPT ![p] = TRUE]
    /\ Leave(p, 0)
    /\ UNCHANGED <<l3vars, asked, persist, about, known, found, lost, did, listen>>

\* wipe_all_data; the reports are removed after that, as far as possible.
Wipe(p) ==
    /\ Does(p, "reset")
    /\ known' = {}
    /\ lost' = [q \in Procs |-> TRUE]
    /\ Goto(p, "remove_reports")
    /\ UNCHANGED <<l3vars, asked, persist, about, found, declined, did, listen>>

RemoveReports(p) ==
    /\ pc[p] = "remove_reports"
    /\ Finish(p, {"reset"})
    /\ UNCHANGED <<l3vars, asked, persist, about, known, found, lost, declined, listen>>

Serve(p) ==
    /\ pc[p] = "listen" \/ (Does(p, "web") /\ "demo" \notin asked[p])
    /\ \E l \in Listeners : listen' = [listen EXCEPT ![p] = l]
    /\ Goto(p, "serving")
    /\ UNCHANGED <<l3vars, asked, persist, about, known, found, lost, declined, did>>

\* The gate or the choice of the transport.
ServeRefused(p) ==
    /\ Does(p, "web") /\ "demo" \notin asked[p]
    /\ Leave(p, 2)
    /\ UNCHANGED <<l3vars, cmdvars>>

\* uvicorn.run returns.
Stop(p) ==
    /\ pc[p] = "serving"
    /\ Finish(p, {"web"})
    /\ UNCHANGED <<l3vars, asked, persist, about, known, found, lost, declined, listen>>

\* The tier, the grant, the columns, the pinned contract.
L3Refused(p) ==
    /\ Does(p, "l3")
    /\ \E c \in {1, 3, 4} : Leave(p, c)
    /\ UNCHANGED <<l3vars, cmdvars>>

\* The rows are built; without --l3-persist they go to the standard output.
L3Rows(p) ==
    /\ Does(p, "l3")
    /\ IF persist[p] THEN Goto(p, "check_dest") /\ UNCHANGED did ELSE Finish(p, {"l3"})
    /\ UNCHANGED <<l3vars, asked, persist, about, known, found, lost, declined, listen>>

\* The audit record, after the rows are in place.
L3Audit(p) ==
    /\ pc[p] = "replaced"
    /\ Finish(p, {"l3"})
    /\ UNCHANGED <<l3vars, asked, persist, about, known, found, lost, declined, listen>>

-----------------------------------------------------------------------------

\* An exception that main reports, or a traceback.
Fails(p) ==
    /\ pc[p] \notin Persisting \cup {"new", "check_dest", "ended"}
    /\ Leave(p, 1)
    /\ UNCHANGED <<l3vars, cmdvars>>

\* Ctrl+C is no Exception; a kill is nothing at all.
Interrupted(p) ==
    /\ pc[p] \notin {"new", "ended"}
    /\ \E c \in {130, Killed} : Leave(p, c)
    /\ UNCHANGED <<l3vars, cmdvars>>

Next ==
    \/ \E p \in Procs :
          \/ StartInfo(p) \/ StartRefused(p) \/ Start(p) \/ Report(p) \/ RefuseTrail(p)
          \/ LookUp(p) \/ UnknownSession(p) \/ ReadAtOnce(p) \/ ReadRows(p) \/ Deliver(p)
          \/ Scan(p) \/ ResumeUnknown(p) \/ ScanEnds(p) \/ LicenceRefuses(p)
          \/ Decline(p) \/ Wipe(p) \/ RemoveReports(p)
          \/ Serve(p) \/ ServeRefused(p) \/ Stop(p)
          \/ L3Refused(p) \/ L3Rows(p) \/ L3Audit(p)
          \/ Fails(p) \/ Interrupted(p)
          \/ L3Step(p) /\ UNCHANGED cmdvars
    \/ Meanwhile /\ UNCHANGED cmdvars

Spec == Init /\ [][Next]_vars

-----------------------------------------------------------------------------

\* Whatever listens where other hosts reach it, answers those without a key only
\* at the endpoints meant for them, with every further setting and whether or
\* not passkeys are registered: the gate of main against the middlewares of the
\* server (#1714).  Except: an application that has loaded another configuration
\* than the gate (main.py:1430 reads --config, api/routes.py:582-584 CONFIG_PATH
\* or ./config.yaml), or a later one, and that asks for no key.
ListenersAskForTheKey ==
    \A p \in Procs : pc[p] = "serving" => listen[p] \in AskForTheKey

\* Exit code 0 means that each mode that was asked for is done, with all rows of
\* the sessions it is about: no combination loses a mode silently, and none reads
\* what is not there.  Except: --version and --check-extras, which come first;
\* --reset-data, which comes before --web and may be declined; the exports that
\* do not look for their session; and a wipe after that was looked for.
ExitZeroMeansDone ==
    \A p \in Procs : exit[p] = 0 =>
        \/ asked[p] \cap {"version", "extras"} # {}
        \/ declined[p]
        \/ asked[p] = {"web", "reset"} /\ did[p] = {"reset"}
        \/ /\ asked[p] \subseteq did[p]
           /\ asked[p] \cap Checked # {} => found[p] = "all" \/ lost[p]
=============================================================================
