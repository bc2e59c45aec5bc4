------------------------------- MODULE Delivery -------------------------------
(***************************************************************************)
(* What leaves the scanner for a session: the echo of its findings in the  *)
(* external sink (core/findings_sink.py), and the scan-complete message to *)
(* the operator's channels and the tenant's (utils/notify.py).             *)
(*                                                                         *)
(* The sink's tables are the customer's: a row per session and, under the  *)
(* unique key of the DDL, a row per finding.  Of rows with one key that a  *)
(* push writes, which is written last is left open (get_findings has no    *)
(* order); samples, tiers and redaction are left out.                      *)
(***************************************************************************)
EXTENDS Naturals, FiniteSets

CONSTANTS
    Findings, Keys,
    KeyOf,          \* _UNIQUE_KEYS of a finding
    Pushers,        \* the requests, or the command line, that push
    Operators,      \* operator.channels
    Tenants,        \* the tenant's channel, if there is one
    MaxAttempts,    \* _WEBHOOK_MAX_ATTEMPTS
    NoRow, NoPush

Channels == Operators \cup Tenants

ASSUME DeliveryAssumption ==
    /\ KeyOf \in [Findings -> Keys]
    /\ Operators \cap Tenants = {} /\ MaxAttempts \in Nat \ {0}
    /\ NoRow \notin Findings /\ NoRow \notin Nat

VARIABLES
    block,          \* the findings_sink block: type ("none" if not enabled), on_conflict
    sink,           \* data_boar_findings of the session
    total,          \* total_findings of its row in data_boar_sessions
    push,           \* of each pusher, the push it is in
    sinkError,      \* a sink_error row in scan_failures
    echoed,         \* history: the findings of the pushes that ended well
    note,           \* the notifier's thread: "none", "operators", "tenant", "ended"
    tries,          \* attempts made at each channel
    answer,         \* what came of a channel: "none", "ok", "failed"
    audit,          \* notification_send_log
    marked,         \* is the session in _SCAN_COMPLETE_OK_SESSIONS?
    cut,            \* history: an error took the thread with it
    received        \* history: channels that got the message

sinkVars == <<block, sink, total, push, sinkError, echoed>>
noteVars == <<note, tries, answer, audit, marked, cut, received>>

SinkBlocks == [type : {"none", "sql", "mongo"}, on_conflict : {"upsert", "skip", "fail"}]
NoteBlocks == [enabled : BOOLEAN, onComplete : BOOLEAN, onFailure : BOOLEAN,
               onlyHigh : BOOLEAN, dedupe : BOOLEAN, log : BOOLEAN]

DeliveryInit(b) ==
    /\ block = b
    /\ sink = [k \in Keys |-> NoRow] /\ total = NoRow
    /\ push = [p \in Pushers |-> NoPush]
    /\ sinkError = FALSE /\ echoed = {}
    /\ note = "none" /\ tries = [c \in Channels |-> 0]
    /\ answer = [c \in Channels |-> "none"] /\ audit = [c \in Channels |-> "none"]
    /\ marked = FALSE /\ cut = FALSE /\ received = {}

-----------------------------------------------------------------------------
(* The sink.                                                               *)

\* maybe_push_findings_sink: push_session_to_sink reads the findings, then connects.
BeginPush(p, rows) ==
    /\ push[p] = NoPush
    /\ push' = IF block.type = "none" THEN push
               ELSE [push EXCEPT ![p] = [rows |-> rows, todo |-> rows, stage |-> "session"]]
    /\ UNCHANGED <<block, sink, total, sinkError, echoed, noteVars>>

\* The session's row has a transaction of its own.
PutSession(p) ==
    /\ push[p] # NoPush /\ push[p].stage = "session"
    /\ total' = Cardinality(push[p].rows)
    /\ push' = [push EXCEPT ![p].stage = "rows"]
    /\ UNCHANGED <<block, sink, sinkError, echoed, noteVars>>

Sharing(S, k) == {f \in S : KeyOf[f] = k}

\* The unique index refuses a row of S.
Clashes(S) ==
    block.on_conflict = "fail" /\ \E k \in Keys :
        \/ Cardinality(Sharing(S, k)) > 1
        \/ Sharing(S, k) # {} /\ sink[k] # NoRow

Kept(k) == block.on_conflict = "skip" /\ sink[k] # NoRow

\* Mutant of Writes: a push begins by deleting the session's rows.
WritesAnew(S) ==
    \E row \in [Keys -> S \cup {NoRow}] :
        /\ \A k \in Keys : IF Sharing(S, k) = {} THEN row[k] = NoRow
                           ELSE row[k] \in Sharing(S, k)
        /\ sink' = row

\* The rows of S go in, update what is there, or leave it.
Writes(S) ==
    \E row \in [Keys -> S \cup {NoRow}] :
        /\ \A k \in Keys : IF Sharing(S, k) = {} THEN row[k] = NoRow
                           ELSE row[k] \in Sharing(S, k)
        /\ sink' = [k \in Keys |-> IF row[k] = NoRow \/ Kept(k) THEN sink[k] ELSE row[k]]

\* One transaction in SQL, document by document in MongoDB.
Portions(p) == IF block.type = "sql" THEN {push[p].todo} ELSE {{f} : f \in push[p].todo}

PutRows(p) ==
    /\ push[p] # NoPush /\ push[p].stage = "rows" /\ push[p].todo # {}
    /\ \E S \in Portions(p) :
           /\ ~Clashes(S)
           /\ Writes(S)
           /\ push' = [push EXCEPT ![p].todo = @ \ S]
    /\ UNCHANGED <<block, total, sinkError, echoed, noteVars>>

EndPush(p) ==
    /\ push[p] # NoPush /\ push[p].stage = "rows" /\ push[p].todo = {}
    /\ echoed' = echoed \cup push[p].rows
    /\ push' = [push EXCEPT ![p] = NoPush]
    /\ UNCHANGED <<block, sink, total, sinkError, noteVars>>

\* Connection lost, row refused: the push ends, and the session has a failure if its
\* row can be written.
FailPush(p) ==
    /\ push[p] # NoPush
    /\ push' = [push EXCEPT ![p] = NoPush]
    /\ sinkError' \in {TRUE, sinkError}
    /\ UNCHANGED <<block, sink, total, echoed, noteVars>>

PushStep(p) == PutSession(p) \/ PutRows(p) \/ EndPush(p)

-----------------------------------------------------------------------------
(* The notification.                                                       *)

\* should_send_scan_complete_notification
ShouldSend(n, status, high) ==
    /\ n.enabled
    /\ IF status = "completed_errors" THEN n.onFailure
       ELSE n.onComplete /\ (n.onlyHigh => high)

\* notify_scan_complete_sync up to the first message; the thread ends at a
\* summary that cannot be read.
StartNote(n, status, high) ==
    /\ note = "none"
    /\ \/ /\ note' = IF ~ShouldSend(n, status, high) \/ (n.dedupe /\ marked) THEN "ended"
                     ELSE "operators"
          /\ UNCHANGED cut
       \/ note' = "ended" /\ cut' = TRUE
    /\ UNCHANGED <<tries, answer, audit, marked, received, sinkVars>>

\* Whose turn it is; the tenant's block comes last.
Turn(c) ==
    /\ answer[c] = "none"
    /\ \/ note = "operators" /\ c \in Operators
       \/ note = "tenant" /\ c \in Tenants

\* An attempt may reach the channel and lose its answer on the way.
Reaches(c) == received' \in {received, received \cup {c}}

SendOk(c) ==
    /\ Turn(c) /\ tries[c] < MaxAttempts
    /\ tries' = [tries EXCEPT ![c] = @ + 1]
    /\ received' = received \cup {c}
    /\ answer' = [answer EXCEPT ![c] = "ok"]
    /\ UNCHANGED <<note, audit, marked, cut, sinkVars>>

\* Mutant of LastTry: the count is not looked at.
NeverLast(c) == FALSE

LastTry(c) == tries[c] + 1 >= MaxAttempts

\* 5xx or no connection: again, or failed.
SendLost(c) ==
    /\ Turn(c) /\ tries[c] < MaxAttempts
    /\ tries' = [tries EXCEPT ![c] = IF LastTry(c) THEN MaxAttempts ELSE @ + 1]
    /\ answer' = [answer EXCEPT ![c] = IF LastTry(c) THEN "failed" ELSE "none"]
    /\ Reaches(c)
    /\ UNCHANGED <<note, audit, marked, cut, sinkVars>>

\* 4xx, or a time-out while the answer is read: failed at once.
SendRefused(c) ==
    /\ Turn(c) /\ tries[c] < MaxAttempts
    /\ tries' = [tries EXCEPT ![c] = @ + 1]
    /\ answer' = [answer EXCEPT ![c] = "failed"]
    /\ Reaches(c)
    /\ UNCHANGED <<note, audit, marked, cut, sinkVars>>

\* IncompleteRead is no OSError: the thread ends, the other channels hear nothing.
SendCut(c) ==
    /\ Turn(c) /\ tries[c] < MaxAttempts
    /\ received' = received \cup {c}
    /\ cut' = TRUE /\ note' = "ended"
    /\ UNCHANGED <<tries, answer, audit, marked, sinkVars>>

\* Log rows are written when all channels of the kind have their answer, if the
\* log is on; a row that cannot be inserted is left out.
Record(n, stage, chs, next) ==
    /\ note = stage /\ \A c \in chs : answer[c] # "none"
    /\ \E written \in SUBSET (IF n.log THEN chs ELSE {}) :
           audit' = [c \in Channels |-> IF c \in written THEN answer[c] ELSE audit[c]]
    /\ note' = next
    /\ UNCHANGED <<tries, answer, cut, received, sinkVars>>

RecordOperators(n) == Record(n, "operators", Operators, "tenant") /\ UNCHANGED marked

\* One channel that answered is enough for _dedupe_mark_success.
RecordTenant(n) ==
    /\ Record(n, "tenant", Tenants, "ended")
    /\ marked' = (marked \/ \E c \in Channels : answer[c] = "ok")

NoteStep(n) ==
    \/ RecordOperators(n) \/ RecordTenant(n)
    \/ \E c \in Channels : SendOk(c) \/ SendLost(c) \/ SendRefused(c) \/ SendCut(c)

-----------------------------------------------------------------------------

DeliveryTypeOK ==
    /\ block \in SinkBlocks
    /\ sink \in [Keys -> Findings \cup {NoRow}] /\ total \in Nat \cup {NoRow}
    /\ sinkError \in BOOLEAN /\ marked \in BOOLEAN /\ cut \in BOOLEAN
    /\ echoed \subseteq Findings
    /\ note \in {"none", "operators", "tenant", "ended"}
    /\ tries \in [Channels -> 0..MaxAttempts]
    /\ answer \in [Channels -> {"none", "ok", "failed"}]
    /\ audit \in [Channels -> {"none", "ok", "failed"}]
    /\ received \subseteq Channels
=============================================================================
