---------------------------- MODULE ImpalaQuery ----------------------------
(***************************************************************************)
(* Impala queries of one message: ImpalaToolDispatcher on the event loop,  *)
(* ImpalaTools with one thread per query, the tool ledger, the files that  *)
(* are the evidence of a query (result.json, the query record, the         *)
(* budgets), the remote query, cancellation, shutdown and process death.   *)
(*                                                                         *)
(* An action is what a coroutine does between two awaits or a thread does  *)
(* under the lock of ImpalaTools, cut where a crash leaves something else  *)
(* on disk.  Left out: contents, SQL, bindings and authorization, bytes    *)
(* (charged like rows), the hour in the name of a budget file, the ledger  *)
(* rows of control calls, and stripes that two calls happen to share.      *)
(***************************************************************************)
EXTENDS Naturals, Sequences, FiniteSets

CONSTANTS Callers,     \* coroutines that call the dispatcher
          Calls,       \* call ids of the model: one operation each
          NBudgets,    \* budget files: of the message, the user and the department
          QueryLimit,  \* queries that a budget admits
          RowLimit,    \* rows that a budget admits
          MaxRows,     \* bound on max_rows of one query
          MaxActive,   \* max_user_concurrency, max_department_concurrency
          Faults,      \* what may raise: "input", "files", "driver", "persist"
          None

ASSUME CallsAssumption  == None \notin Callers /\ None \notin Calls
ASSUME LimitsAssumption == /\ QueryLimit \in Nat /\ RowLimit \in Nat
                           /\ MaxRows \in Nat /\ MaxActive \in Nat /\ NBudgets \in Nat

VARIABLES caller,      \* coroutines: where they are, and in which call
          lock,        \* _dispatch_locks: the coroutine that holds the stripe of a call
          ledger,      \* tool_executions.status of each call
          resultFile,  \* result.json: the status in it, or None
          record,      \* queries/<ref>.json: status, rows asked for or delivered; or None
          budget,      \* budgets/<key>.json
          active,      \* ImpalaTools._active
          flags,       \* the cancellation events that are set
          stopping,    \* ImpalaTools._stopping
          query,       \* the thread of each query
          sent,        \* how often the SQL of a call was sent
          remote,      \* the query at Impala
          executing    \* is the message RUNNING, in this attempt?

files == <<ledger, resultFile, record, budget, executing>>
impalaVars == <<caller, lock, files, active, flags, stopping, query, sent, remote>>

Certain == {"SUCCEEDED", "FAILED", "CANCELLED"}        \* as opposed to UNKNOWN
Ended   == Certain \cup {"UNKNOWN"}
ASSUME NoneIsNoRecord == None \notin [status : {"RUNNING"} \cup Ended, rows : Nat]

Resting  == [pc |-> "idle", call |-> None]
NoQuery  == [pc |-> "none", status |-> "RUNNING", asked |-> 0, rows |-> 0]
Over(status) == [NoQuery EXCEPT !.pc = "over", !.status = status]

ImpalaInit ==
    /\ caller = [c \in Callers |-> Resting]
    /\ lock = [k \in Calls |-> None]
    /\ ledger = [k \in Calls |-> "ABSENT"]
    /\ resultFile = [k \in Calls |-> None]
    /\ record = [k \in Calls |-> None]
    /\ budget = [i \in 1 .. NBudgets |-> [queries |-> 0, rows |-> 0]]
    /\ active = {} /\ flags = {} /\ stopping = FALSE
    /\ query = [k \in Calls |-> NoQuery]
    /\ sent = [k \in Calls |-> 0]
    /\ remote = [k \in Calls |-> "none"]
    /\ executing = TRUE

-----------------------------------------------------------------------------
\* The dispatcher.  A call waits for the stripe of its id ...
At(c, pc) == caller[c].pc = pc
Executes(c, k) ==
    /\ At(c, "idle")
    /\ caller' = [caller EXCEPT ![c] = [pc |-> "waiting", call |-> k]]
    /\ UNCHANGED <<lock, files, active, flags, stopping, query, sent, remote>>

\* ... and answers without dispatching if the message no longer executes, or if the
\* ledger has the operation in any state but PREPARED: with result.json, or UNKNOWN.
AlwaysFresh(k) == TRUE                        \* fault: finished operations run again
Fresh(k) == ledger[k] \in {"ABSENT", "PREPARED"}
TurnedAway(c) ==
    LET k == caller[c].call
    IN  /\ At(c, "waiting") /\ lock[k] = None
        /\ ~executing \/ ~Fresh(k)
        /\ caller' = [caller EXCEPT ![c] = Resting]
        /\ UNCHANGED <<lock, files, active, flags, stopping, query, sent, remote>>

\* prepare_tool, then input.txt and start_tool.
Prepares(c) ==
    LET k == caller[c].call
    IN  /\ At(c, "waiting") /\ lock[k] = None
        /\ executing /\ Fresh(k)
        /\ caller' = [caller EXCEPT ![c].pc = "prepared"]
        /\ lock' = [lock EXCEPT ![k] = c]
        /\ ledger' = [ledger EXCEPT ![k] = "PREPARED"]
        /\ UNCHANGED <<resultFile, record, budget, executing, active, flags, stopping, query, sent,
                       remote>>
NotStarted == "PREPARED"                      \* fault: the dispatch leaves no evidence
Started    == "RUNNING"
StartsTool(c) ==
    LET k == caller[c].call
    IN  /\ At(c, "prepared")
        /\ caller' = [caller EXCEPT ![c].pc = "started"]
        /\ ledger' = [ledger EXCEPT ![k] = Started]
        /\ UNCHANGED <<lock, resultFile, record, budget, executing, active, flags, stopping, query,
                       sent, remote>>
InputRaises(c) ==
    LET k == caller[c].call
    IN  /\ "input" \in Faults
        /\ At(c, "prepared")
        /\ caller' = [caller EXCEPT ![c] = Resting]
        /\ lock' = [lock EXCEPT ![k] = None]
        /\ UNCHANGED <<files, active, flags, stopping, query, sent, remote>>

-----------------------------------------------------------------------------
\* ImpalaTools.  _reserve admits a query against every budget, charges the budgets for
\* the rows it may return, one file after another, and then writes the query record.
AdmitsOneMore(rows) ==                        \* fault: off by one
    \A i \in 1 .. NBudgets : budget[i].queries <= QueryLimit /\ budget[i].rows <= RowLimit
Affords(rows) ==
    \A i \in 1 .. NBudgets : /\ budget[i].queries < QueryLimit
                              /\ budget[i].rows + rows <= RowLimit
Admits(k, rows) ==
    ~stopping /\ record[k] = None /\ Cardinality(active) < MaxActive /\ Affords(rows)

Charged(written, rows) ==
    [i \in 1 .. NBudgets |->
        IF i <= written
        THEN [queries |-> budget[i].queries + 1, rows |-> budget[i].rows + rows]
        ELSE budget[i]]

Reserves(c, rows) ==
    LET k == caller[c].call
    IN  /\ At(c, "started") /\ Admits(k, rows)
        /\ caller' = [caller EXCEPT ![c].pc = "calling"]
        /\ budget' = Charged(NBudgets, rows)
        /\ record' = [record EXCEPT ![k] = [status |-> "RUNNING", rows |-> rows]]
        /\ active' = active \cup {k}
        /\ query' = [query EXCEPT ![k] = [NoQuery EXCEPT !.pc = "connect", !.asked = rows]]
        /\ UNCHANGED <<lock, ledger, resultFile, executing, flags, stopping, sent, remote>>
Refused(c, rows) ==
    LET k == caller[c].call
    IN  /\ At(c, "started") /\ ~Admits(k, rows)
        /\ caller' = [caller EXCEPT ![c].pc = "calling"]
        /\ query' = [query EXCEPT ![k] = Over("FAILED")]
        /\ UNCHANGED <<lock, files, active, flags, stopping, sent, remote>>
\* A write that raises may have replaced its file.
ReserveRaises(c, rows, written) ==
    LET k == caller[c].call
    IN  /\ "files" \in Faults
        /\ At(c, "started") /\ Admits(k, rows)
        /\ caller' = [caller EXCEPT ![c].pc = "calling"]
        /\ budget' = Charged(written, rows)
        /\ \/ UNCHANGED record
           \/ /\ written = NBudgets
              /\ record' = [record EXCEPT ![k] = [status |-> "RUNNING", rows |-> rows]]
        /\ query' = [query EXCEPT ![k] = Over("UNKNOWN")]
        /\ UNCHANGED <<lock, ledger, resultFile, executing, active, flags, stopping, sent, remote>>

\* _execute, in the thread of query k.  checkpoint raises when somebody asked for
\* cancellation, or for the deadline, a lost binding, a failed remote query.
Asked(k) == k \in flags \/ stopping \/ ~executing
Runs(k, pc) == query[k].pc = pc
Connects(k) ==
    /\ Runs(k, "connect") /\ ~Asked(k)
    /\ query' = [query EXCEPT ![k].pc = "identity"]
    /\ UNCHANGED <<caller, lock, files, active, flags, stopping, sent, remote>>
\* The account is verified by a query of its own; then the SQL is sent.
Submits(k) ==
    /\ Runs(k, "identity") /\ ~Asked(k)
    /\ query' = [query EXCEPT ![k].pc = "sent"]
    /\ sent' = [sent EXCEPT ![k] = @ + 1]
    /\ remote' = [remote EXCEPT ![k] = "running"]
    /\ UNCHANGED <<caller, lock, files, active, flags, stopping>>
Fetches(k, rows) ==
    /\ Runs(k, "sent") /\ remote[k] = "finished" /\ ~Asked(k)
    /\ query' = [query EXCEPT ![k].pc = "cleanup", ![k].status = "SUCCEEDED",
                              ![k].rows = rows]
    /\ UNCHANGED <<caller, lock, files, active, flags, stopping, sent, remote>>
Interruptible(k) == query[k].pc \in {"connect", "identity", "sent"}
AfterFailure(k) == IF Runs(k, "connect") THEN "saving" ELSE "cleanup"
Interrupted(k) ==
    /\ Interruptible(k)
    /\ query' = [query EXCEPT ![k].pc = AfterFailure(k),
                              ![k].status = IF Asked(k) THEN "CANCELLED" ELSE "FAILED"]
    /\ UNCHANGED <<caller, lock, files, active, flags, stopping, sent, remote>>
\* The driver raises: FAILED before anything was dispatched, UNKNOWN afterwards; the
\* SQL may have arrived although the call raised.
DriverRaises(k, arrived) ==
    /\ "driver" \in Faults
    /\ Interruptible(k)
    /\ arrived => Runs(k, "identity") /\ ~Asked(k)
    /\ query' = [query EXCEPT ![k].pc = AfterFailure(k),
                    ![k].status = IF Runs(k, "connect") THEN "FAILED" ELSE "UNKNOWN"]
    /\ sent' = [sent EXCEPT ![k] = IF arrived THEN @ + 1 ELSE @]
    /\ remote' = [remote EXCEPT ![k] = IF arrived THEN "running" ELSE @]
    /\ UNCHANGED <<caller, lock, files, active, flags, stopping>>

\* The remote query ends by itself, if ever.
RemoteEnds(k) ==
    /\ remote[k] = "running"
    /\ remote' = [remote EXCEPT ![k] = "finished"]
    /\ UNCHANGED <<caller, lock, files, active, flags, stopping, query, sent>>

\* Unless it succeeded the query is cancelled at Impala and its state is asked for.  If
\* it has not ended, or if cleaning up raises, the result is UNKNOWN.
KeepsStatus(k) == query[k].status             \* fault: an unconfirmed cancellation counts
Unconfirmed(k) == "UNKNOWN"
CleansUp(k) ==
    /\ Runs(k, "cleanup")
    /\ \/ /\ query' = [query EXCEPT ![k].pc = "saving"]
          /\ remote' = [remote EXCEPT ![k] =
                           IF query[k].status # "SUCCEEDED" /\ @ = "running" THEN "cancelled"
                           ELSE @]
       \/ /\ query[k].status # "SUCCEEDED" \/ "driver" \in Faults
          /\ query' = [query EXCEPT ![k].pc = "saving", ![k].rows = 0,
                                    ![k].status = Unconfirmed(k)]
          /\ UNCHANGED remote
    /\ UNCHANGED <<caller, lock, files, active, flags, stopping, sent>>

\* The record is written, the budgets get back what was not used, one file after
\* another, and the query is no longer active.
RefundsAll(k) == query[k].asked               \* fault: delivered rows are not kept
Refund(k) == query[k].asked - query[k].rows
Refunded(k, written) ==
    [i \in 1 .. NBudgets |->
        IF i <= written THEN [budget[i] EXCEPT !.rows = @ - Refund(k)] ELSE budget[i]]
Saved(k) == [record EXCEPT ![k] = [status |-> query[k].status, rows |-> query[k].rows]]

Saves(k) ==
    /\ Runs(k, "saving")
    /\ record' = Saved(k)
    /\ budget' = Refunded(k, NBudgets)
    /\ active' = active \ {k} /\ flags' = flags \ {k}
    /\ query' = [query EXCEPT ![k].pc = "over"]
    /\ UNCHANGED <<caller, lock, ledger, resultFile, executing, stopping, sent, remote>>
SaveRaises(k, written) ==
    /\ "files" \in Faults
    /\ Runs(k, "saving")
    /\ \/ record' = record /\ budget' = budget
       \/ record' = Saved(k) /\ budget' = Refunded(k, written)
    /\ active' = active \ {k} /\ flags' = flags \ {k}
    /\ query' = [query EXCEPT ![k] = Over("UNKNOWN")]
    /\ UNCHANGED <<caller, lock, ledger, resultFile, executing, stopping, sent, remote>>

-----------------------------------------------------------------------------
\* Back in the dispatcher: result.json, then finish_tool; if either raises the operation
\* is UNKNOWN.  (That a cancelled query ends its message is part of Runtime.)
WritesResult(c) ==
    LET k == caller[c].call
    IN  /\ At(c, "calling") /\ Runs(k, "over")
        /\ caller' = [caller EXCEPT ![c].pc = "written"]
        /\ resultFile' = [resultFile EXCEPT ![k] = query[k].status]
        /\ UNCHANGED <<lock, ledger, record, budget, executing, active, flags, stopping, query, sent,
                       remote>>
UnknownAsFailed(k) ==                         \* fault: the ledger never says UNKNOWN
    IF query[k].status = "UNKNOWN" THEN "FAILED" ELSE query[k].status
LedgerStatus(k) == query[k].status
FinishesTool(c) ==
    LET k == caller[c].call
    IN  /\ At(c, "written")
        /\ caller' = [caller EXCEPT ![c] = Resting]
        /\ lock' = [lock EXCEPT ![k] = None]
        /\ ledger' = [ledger EXCEPT ![k] = LedgerStatus(k)]
        /\ query' = [query EXCEPT ![k] = NoQuery]
        /\ UNCHANGED <<resultFile, record, budget, executing, active, flags, stopping, sent,
                       remote>>
PersistRaises(c) ==
    LET k == caller[c].call
    IN  /\ "persist" \in Faults
        /\ At(c, "written") \/ (At(c, "calling") /\ Runs(k, "over"))
        /\ caller' = [caller EXCEPT ![c] = Resting]
        /\ lock' = [lock EXCEPT ![k] = None]
        /\ ledger' = [ledger EXCEPT ![k] = "UNKNOWN"]
        /\ query' = [query EXCEPT ![k] = NoQuery]
        /\ UNCHANGED <<resultFile, record, budget, executing, active, flags, stopping, sent,
                       remote>>

-----------------------------------------------------------------------------
\* impala_cancel_query, cancel_run of the message, stop, and the end of the process: what
\* is on disk stays, and a write of several files may have been cut short.
CancelsQuery(k) ==
    /\ k \in active \ flags
    /\ flags' = flags \cup {k}
    /\ UNCHANGED <<caller, lock, files, active, stopping, query, sent, remote>>
CancelsRun ==
    /\ executing
    /\ executing' = FALSE
    /\ UNCHANGED <<caller, lock, ledger, resultFile, record, budget, active, flags, stopping,
                   query, sent, remote>>
Stops ==
    /\ ~stopping
    /\ stopping' = TRUE
    /\ UNCHANGED <<caller, lock, files, active, flags, query, sent, remote>>

CutShort ==
    \/ UNCHANGED <<record, budget>>
    \/ \E c \in Callers, rows \in 1 .. MaxRows, written \in 1 .. NBudgets :
         /\ At(c, "started") /\ Admits(caller[c].call, rows)
         /\ budget' = Charged(written, rows)
         /\ UNCHANGED record
    \/ \E k \in Calls, written \in 0 .. NBudgets :
         /\ Runs(k, "saving")
         /\ record' = Saved(k)
         /\ budget' = Refunded(k, written)
ProcessDies ==
    /\ CutShort
    /\ caller' = [c \in Callers |-> Resting]
    /\ lock' = [k \in Calls |-> None]
    /\ active' = {} /\ flags' = {} /\ stopping' = FALSE
    /\ query' = [k \in Calls |-> NoQuery]
    /\ UNCHANGED <<ledger, resultFile, executing, sent, remote>>

Dispatches(c) ==
    \/ TurnedAway(c) \/ Prepares(c) \/ StartsTool(c) \/ InputRaises(c)
    \/ \E rows \in 1 .. MaxRows :
         \/ Reserves(c, rows) \/ Refused(c, rows)
         \/ \E written \in 0 .. NBudgets : ReserveRaises(c, rows, written)
    \/ WritesResult(c) \/ FinishesTool(c) \/ PersistRaises(c)
Thread(k) ==
    \/ Connects(k) \/ Submits(k) \/ Interrupted(k)
    \/ \E rows \in 0 .. query[k].asked : Fetches(k, rows)
    \/ \E arrived \in BOOLEAN : DriverRaises(k, arrived)
    \/ CleansUp(k) \/ Saves(k)
    \/ \E written \in 0 .. NBudgets : SaveRaises(k, written)

ImpalaNext ==
    \/ \E c \in Callers : Dispatches(c) \/ \E k \in Calls : Executes(c, k)
    \/ \E k \in Calls : Thread(k) \/ RemoteEnds(k) \/ CancelsQuery(k)
    \/ CancelsRun \/ Stops \/ ProcessDies

ImpalaSpec == ImpalaInit /\ [][ImpalaNext]_impalaVars

-----------------------------------------------------------------------------
(***************************************************************************)
(* Properties.                                                             *)
(***************************************************************************)

\* Ledger, files, threads and budgets are well formed; no budget exceeds its limits.
ImpalaTypeOK ==
    /\ caller \in [Callers -> [pc : {"idle", "waiting", "prepared", "started", "calling",
                                    "written"}, call : Calls \cup {None}]]
    /\ lock \in [Calls -> Callers \cup {None}]
    /\ ledger \in [Calls -> {"ABSENT", "PREPARED", "RUNNING"} \cup Ended]
    /\ resultFile \in [Calls -> Ended \cup {None}]
    /\ \A k \in Calls : \/ record[k] = None
                        \/ record[k] \in [status : {"RUNNING"} \cup Ended, rows : 0 .. MaxRows]
    /\ budget \in [1 .. NBudgets -> [queries : 0 .. QueryLimit, rows : 0 .. RowLimit]]
    /\ active \subseteq Calls /\ flags \subseteq Calls /\ stopping \in BOOLEAN
    /\ query \in [Calls -> [pc : {"none", "connect", "identity", "sent", "cleanup", "saving",
                                 "over"},
                           status : {"RUNNING"} \cup Ended,
                           asked : 0 .. MaxRows, rows : 0 .. MaxRows]]
    /\ sent \in [Calls -> Nat]
    /\ remote \in [Calls -> {"none", "running", "finished", "cancelled"}]
    /\ executing \in BOOLEAN

\* The SQL of an operation is sent at most once, whatever is repeated or crashes, and
\* never without evidence of the dispatch in the ledger and in the query record.
SentAtMostOnce ==
    \A k \in Calls : sent[k] > 0 => /\ sent[k] = 1
                                    /\ ledger[k] \notin {"ABSENT", "PREPARED"}
                                    /\ record[k] # None

\* A budget never forgets rows: it counts at least what finished queries delivered and
\* what the others may still deliver, although its files are written one by one and the
\* process may die in between.
RowsOf(k) == IF record[k] = None THEN 0 ELSE record[k].rows
AllRows   == {row \in Calls \X (1 .. MaxRows) : row[2] <= RowsOf(row[1])}
BudgetCovers ==
    \A i \in 1 .. NBudgets : Cardinality(AllRows) <= budget[i].rows

\* Whoever reads that a query succeeded, failed or was cancelled may rely on it: it no
\* longer runs at Impala.
CertainMeansEnded ==
    \A k \in Calls :
        (ledger[k] \in Certain \/ (record[k] # None /\ record[k].status \in Certain))
            => remote[k] # "running"

\* A repeated call is answered with what the ledger says: a certain status is the one in
\* result.json and, if the query was reserved, in its record.
EvidenceAgrees ==
    \A k \in Calls :
        ledger[k] \in Certain => /\ resultFile[k] = ledger[k]
                                 /\ record[k] = None \/ record[k].status = ledger[k]

\* The ledger never moves back, although start_tool and finish_tool do not look at the
\* status they overwrite.
LedgerForward ==
    [][\A k \in Calls :
         /\ ledger[k] \in Ended => ledger'[k] = ledger[k]
         /\ ledger[k] = "RUNNING" => ledger'[k] \in {"RUNNING"} \cup Ended]_impalaVars
=============================================================================
