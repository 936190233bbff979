------------------------------ MODULE ToolRun ------------------------------
(***************************************************************************)
(* One code tool after another, as a worker runs them: the harness's       *)
(* _run_code_tool, the LocalProcessBackend's task for the operation, the   *)
(* operating system's processes, the tool ledger (tool_executions and its  *)
(* events) and the revisions of the project.                               *)
(*                                                                         *)
(* The harness and the backend's tasks are coroutines of one event loop,   *)
(* so an action is what one of them does between two awaits; processes,    *)
(* signals and the lease run beside them.  Time is abstract: a timeout may *)
(* pass whenever somebody waits, and a process that is signalled is killed *)
(* and gone before whoever waits ten seconds for it gives up.  Left out:   *)
(* contents of files and streams, Skill events, a ledger write that fails, *)
(* repeated operation ids (the harness draws a fresh one for each call),   *)
(* release (nobody calls it) and the copy per attempt of the mode without  *)
(* a user binding.                                                         *)
(***************************************************************************)
EXTENDS Naturals, Sequences, FiniteSets

CONSTANTS Ops,         \* operation ids (uuid4 in prepare_tool)
          Faults,      \* what may raise: "submit", "sink", "commit"
          MayCancel,   \* may somebody call ExecutionBackend.cancel?
          MaxOutput,   \* bound on the output events of one operation
          None

ASSUME FaultsAssumption == Faults \subseteq {"submit", "sink", "commit"}
ASSUME FlagsAssumption  == MayCancel \in BOOLEAN /\ MaxOutput \in Nat /\ None \notin Ops

VARIABLES caller,      \* the operation _wait_for_operation polls, or None
          ledger,      \* table tool_executions
          log,         \* the tool events of each operation, in commit order
          backend,     \* LocalProcessBackend._operations
          group,       \* the process group of each operation
          lease,       \* is the worker's workspace lease still good?
          revisions,   \* table workspace_revisions, by the operation that made each
          snapshots    \* operations whose revision directory is on disk

toolVars == <<caller, ledger, log, backend, group, lease, revisions, snapshots>>

\* ToolStatus: PREPARED and RUNNING are written without an await between them, and
\* UNKNOWN belongs to Impala queries.
FinalStatuses == {"SUCCEEDED", "FAILED", "CANCELLED"}

LedgerRow == [status : {"ABSENT", "RUNNING"} \cup FinalStatuses,
              revision : Ops \cup {None}]
ToolEvents == {"tool.prepared", "tool.started", "tool.output", "workspace.committed",
               "tool.finished"}

\* _RunningOperation and its _run_operation task:
\*   waiting    in asyncio.wait for the process and its readers
\*   killing    timed out, waits for the signalled process
\*   draining   has set the status, waits for the readers' results
\*   done       returned,  dead  raised,  none  not submitted
\*   aborted    cancelled itself: cancel() waited ten seconds for it
Tasks == {"none", "waiting", "killing", "draining", "done", "dead", "aborted"}
Operation == [status : {"ABSENT", "RUNNING"} \cup FinalStatuses, task : Tasks,
              commit : BOOLEAN, cancelled : BOOLEAN, raised : BOOLEAN]
\* The process (its leader) and what it may leave behind in its group: a child, which
\* may hold the output pipes; and a _kill_after_timeout waiting for its five seconds.
Group == [leader : {"none", "running", "ok", "failed"}, child : BOOLEAN, pipes : BOOLEAN,
          timer : BOOLEAN]

ToolInit ==
    /\ caller = None
    /\ ledger = [o \in Ops |-> [status |-> "ABSENT", revision |-> None]]
    /\ log = [o \in Ops |-> <<>>]
    /\ backend = [o \in Ops |-> [status |-> "ABSENT", task |-> "none", commit |-> FALSE,
                                 cancelled |-> FALSE, raised |-> FALSE]]
    /\ group = [o \in Ops |-> [leader |-> "none", child |-> FALSE, pipes |-> FALSE,
                               timer |-> FALSE]]
    /\ lease = TRUE
    /\ revisions = <<>>
    /\ snapshots = {}

-----------------------------------------------------------------------------
\* The harness.  prepare_tool and start_tool write the ledger, then submit spawns the
\* process and creates the task, and the harness begins to poll ...
StartedRow(row) == [row EXCEPT !.status = "RUNNING"]
Begun == <<"tool.prepared", "tool.started">>

RunTool(o) ==
    /\ caller = None
    /\ ledger[o].status = "ABSENT"
    /\ caller' = o
    /\ ledger' = [ledger EXCEPT ![o] = StartedRow(@)]
    /\ log' = [log EXCEPT ![o] = @ \o Begun]
    /\ backend' = [backend EXCEPT ![o].status = "RUNNING", ![o].task = "waiting"]
    /\ group' = [group EXCEPT ![o].leader = "running"]
    /\ UNCHANGED <<lease, revisions, snapshots>>

\* ... unless submit raises: the exception leaves _run_code_tool, the row stays RUNNING.
SubmitRaises(o) ==
    /\ "submit" \in Faults
    /\ caller = None
    /\ ledger[o].status = "ABSENT"
    /\ ledger' = [ledger EXCEPT ![o] = StartedRow(@)]
    /\ log' = [log EXCEPT ![o] = @ \o Begun]
    /\ UNCHANGED <<caller, backend, group, lease, revisions, snapshots>>

\* get_status answers with a final status.  From here to finish_tool the harness does
\* not await: the revision is recorded under the lease, or refused, and the operation is
\* finished with what was polled.
Publish(o) == backend[o].status = "SUCCEEDED" /\ backend[o].commit /\ lease
RefusalAsStatus(o) ==                         \* fault: the error code is stored as status
    IF backend[o].status = "SUCCEEDED" /\ backend[o].commit /\ ~lease THEN "STATE_CONFLICT"
    ELSE backend[o].status
FinalStatus(o) ==
    IF backend[o].status = "SUCCEEDED" /\ backend[o].commit /\ ~lease THEN "FAILED"
    ELSE backend[o].status

FinishTool(o) ==
    /\ caller = o
    /\ backend[o].status # "RUNNING"
    /\ caller' = None
    /\ revisions' = IF Publish(o) THEN Append(revisions, o) ELSE revisions
    /\ ledger' = [ledger EXCEPT ![o] =
                    [status |-> FinalStatus(o), revision |-> IF Publish(o) THEN o ELSE None]]
    /\ log' = [log EXCEPT ![o] =
                 @ \o (IF Publish(o) THEN <<"workspace.committed">> ELSE <<>>)
                   \o <<"tool.finished">>]
    /\ UNCHANGED <<backend, group, lease, snapshots>>

\* Nothing renews workspaces.lease_until.
LeaseLost ==
    /\ lease
    /\ lease' = FALSE
    /\ UNCHANGED <<caller, ledger, log, backend, group, revisions, snapshots>>

-----------------------------------------------------------------------------
\* The processes of an operation.
Leading(o)  == group[o].leader = "running"
PipesHeld(o) == Leading(o) \/ (group[o].child /\ group[o].pipes)

\* The program leaves a child in the background, with or without its output pipes.
Forks(o, keepsPipes) ==
    /\ Leading(o) /\ ~group[o].child
    /\ group' = [group EXCEPT ![o].child = TRUE, ![o].pipes = keepsPipes]
    /\ UNCHANGED <<caller, ledger, log, backend, lease, revisions, snapshots>>
Exits(o, code) ==
    /\ Leading(o)
    /\ group' = [group EXCEPT ![o].leader = code, ![o].timer = FALSE]
    /\ UNCHANGED <<caller, ledger, log, backend, lease, revisions, snapshots>>
ChildExits(o) ==
    /\ group[o].child
    /\ group' = [group EXCEPT ![o].child = FALSE]
    /\ UNCHANGED <<caller, ledger, log, backend, lease, revisions, snapshots>>

\* _kill_process_group: SIGTERM, which any process may ignore, and a timer.  A process
\* that has been waited for is not signalled, nor is what it left behind.
Terminates(g) == g                            \* fault: SIGTERM only
Signalled(g) == [g EXCEPT !.timer = @ \/ g.leader = "running"]
\* _kill_after_timeout: SIGKILL to the group, if the process itself still runs (Exits
\* clears the timer: afterwards it does nothing).
TimerFires(o) ==
    /\ group[o].timer
    /\ group' = [group EXCEPT ![o] =
                   [@ EXCEPT !.timer = FALSE, !.leader = "failed", !.child = FALSE]]
    /\ UNCHANGED <<caller, ledger, log, backend, lease, revisions, snapshots>>

-----------------------------------------------------------------------------
\* _read_bounded, both streams: what a process writes goes to the sink of the harness,
\* which appends an event.  A reader ends at end of file, or when its sink raises (the
\* other stream may go on, or raise too); the readers that are pending when the operation
\* times out are cancelled, those of an aborted task are not.
ReadsOn(o) == backend[o].task # "none"        \* fault: pending readers are left alone
Reading(o) == backend[o].task \in {"waiting", "killing", "aborted"}
ReadersPending(o) == PipesHeld(o)
ReadersDone(o) == ~PipesHeld(o) \/ backend[o].raised

Outputs(o) ==
    /\ Reading(o)
    /\ Cardinality({i \in DOMAIN log[o] : log[o][i] = "tool.output"}) < MaxOutput
    /\ log' = [log EXCEPT ![o] = Append(@, "tool.output")]
    /\ UNCHANGED <<caller, ledger, backend, group, lease, revisions, snapshots>>
SinkRaises(o) ==
    /\ "sink" \in Faults
    /\ Reading(o) /\ ~backend[o].raised
    /\ backend' = [backend EXCEPT ![o].raised = TRUE]
    /\ UNCHANGED <<caller, ledger, log, group, lease, revisions, snapshots>>

\* _run_operation.  Everything it waits for has completed: the status is published ...
Verdict(o, otherwise) == IF backend[o].cancelled THEN "CANCELLED" ELSE otherwise
Completes(o) ==
    /\ backend[o].task = "waiting"
    /\ ~Leading(o) /\ ReadersDone(o)
    /\ backend' = [backend EXCEPT ![o].task = "draining",
                     ![o].status = Verdict(o, IF group[o].leader = "ok" THEN "SUCCEEDED"
                                              ELSE "FAILED")]
    /\ UNCHANGED <<caller, ledger, log, group, lease, revisions, snapshots>>

\* ... or the time is up: the group is signalled, ...
TimesOut(o) ==
    /\ backend[o].task = "waiting"
    /\ Leading(o) \/ ReadersPending(o)
    /\ backend' = [backend EXCEPT ![o].task = "killing"]
    /\ group' = [group EXCEPT ![o] = Signalled(@)]
    /\ UNCHANGED <<caller, ledger, log, lease, revisions, snapshots>>
\* ... and once the process has exited the readers are cancelled and the status is set.
NotAwaited(o) == TRUE                         \* fault: the exit is not awaited
Terminated(o) == ~Leading(o)
GivesUp(o) ==
    /\ backend[o].task = "killing"
    /\ Terminated(o)
    /\ backend' = [backend EXCEPT ![o].task = "draining",
                     ![o].status = Verdict(o, "FAILED")]
    /\ UNCHANGED <<caller, ledger, log, group, lease, revisions, snapshots>>

\* Then gather, and the results of the readers: one that raised ends the task here.
\* After success the attempt is committed: the revision directory and the manifests are
\* written in one go, or the commit raises and the operation has failed after all.
CommitsAlways(o) == TRUE                      \* fault: failed operations are committed too
MayCommit(o) == backend[o].status = "SUCCEEDED"
Drains(o) ==
    /\ backend[o].task = "draining"
    /\ \/ /\ backend[o].raised
          /\ backend' = [backend EXCEPT ![o].task = "dead"]
          /\ UNCHANGED snapshots
       \/ /\ ~backend[o].raised /\ MayCommit(o)
          /\ backend' = [backend EXCEPT ![o].task = "done", ![o].commit = TRUE]
          /\ snapshots' = snapshots \cup {o}
       \/ /\ ~backend[o].raised /\ MayCommit(o) /\ "commit" \in Faults
          /\ backend' = [backend EXCEPT ![o].task = "done", ![o].status = "FAILED"]
          /\ UNCHANGED snapshots
       \/ /\ ~backend[o].raised /\ ~MayCommit(o)
          /\ backend' = [backend EXCEPT ![o].task = "done"]
          /\ UNCHANGED snapshots
    /\ UNCHANGED <<caller, ledger, log, group, lease, revisions>>

\* cancel, through the port: the flag and the signal.  Once the status is set the flag
\* has no reader and the process is gone, so a later call changes nothing ...
CancelOperation(o) ==
    /\ MayCancel
    /\ backend[o].status = "RUNNING" /\ ~backend[o].cancelled
    /\ backend' = [backend EXCEPT ![o].cancelled = TRUE]
    /\ group' = [group EXCEPT ![o] = Signalled(@)]
    /\ UNCHANGED <<caller, ledger, log, lease, revisions, snapshots>>

\* ... but wait_for cancels the task if it is not over in ten seconds.  By then the
\* process is; a child that holds the output is not.  The status stays RUNNING.
CancelDeadline(o) ==
    /\ backend[o].task = "waiting" /\ backend[o].cancelled
    /\ ~Leading(o) /\ ReadersPending(o)
    /\ backend' = [backend EXCEPT ![o].task = "aborted"]
    /\ UNCHANGED <<caller, ledger, log, group, lease, revisions, snapshots>>

Coroutines(o) ==
    Completes(o) \/ TimesOut(o) \/ GivesUp(o) \/ Drains(o) \/ CancelDeadline(o)
Processes(o)  ==
    \/ \E pipes \in BOOLEAN : Forks(o, pipes)
    \/ \E code \in {"ok", "failed"} : Exits(o, code)
    \/ ChildExits(o)
ToolNext ==
    \/ LeaseLost
    \/ \E o \in Ops :
         \/ RunTool(o) \/ SubmitRaises(o) \/ FinishTool(o)
         \/ Processes(o) \/ TimerFires(o)
         \/ Outputs(o) \/ SinkRaises(o)
         \/ Coroutines(o) \/ CancelOperation(o)

ToolSpec == ToolInit /\ [][ToolNext]_toolVars

\* The event loop runs: timeouts pass, timers fire, the harness polls.  Nothing is
\* assumed of the program.
ToolFairness ==
    \A o \in Ops : /\ WF_toolVars(Coroutines(o))
                   /\ WF_toolVars(TimerFires(o))
                   /\ WF_toolVars(FinishTool(o))
FairToolSpec == ToolSpec /\ ToolFairness

-----------------------------------------------------------------------------
(***************************************************************************)
(* Properties.                                                             *)
(***************************************************************************)

\* Ledger, operations, processes and tables are well formed.
ToolTypeOK ==
    /\ caller \in Ops \cup {None}
    /\ ledger \in [Ops -> LedgerRow]
    /\ log \in [Ops -> Seq(ToolEvents)]
    /\ backend \in [Ops -> Operation]
    /\ group \in [Ops -> Group]
    /\ lease \in BOOLEAN
    /\ revisions \in Seq(Ops)
    /\ snapshots \subseteq Ops

\* A result is published only when the operation's process itself has exited: a timeout
\* or a cancellation waits for it, however it reacts to signals.
ResultAfterExit ==
    \A o \in Ops : backend[o].status \in FinalStatuses => ~Leading(o)

\* The events of an operation are a session's only view of it: prepared, started, any
\* output, the revision if there is one, finished; nothing follows tool.finished,
\* although readers, cancellation and the harness's poll run independently.
ToolEventsInOrder ==
    \A o \in Ops : \A i \in DOMAIN log[o] :
        /\ log[o][i] = "tool.finished" => i = Len(log[o])
        /\ log[o][i] = "workspace.committed" => i = Len(log[o]) - 1
        /\ log[o][i] = "tool.output" => i > Len(Begun)

\* What is recorded exists: a revision of the table has its directory on disk, was made
\* by a process that exited with 0, and is the one its finished operation names; only
\* such processes leave a revision directory at all.
RecordedRevisionsExist ==
    /\ \A o \in snapshots : group[o].leader = "ok"
    /\ \A i \in DOMAIN revisions :
         LET o == revisions[i]
         IN  /\ o \in snapshots
             /\ ledger[o] = [status |-> "SUCCEEDED", revision |-> o]
             /\ \A j \in DOMAIN revisions : revisions[j] = o => j = i

\* Whatever the program does (hang, ignore signals, leave children, close or flood its
\* output) the harness is answered and finishes the tool, unless somebody cancels the
\* operation: an aborted task leaves the harness polling.
EveryToolFinishes ==
    \A o \in Ops : caller = o ~> \/ ledger[o].status \in FinalStatuses
                                 \/ backend[o].cancelled

\* Every tool that succeeded has its revision (docs/agent-data-lifecycle.md, section 7).
SuccessIsRecorded ==
    \A o \in Ops : ledger[o].status = "SUCCEEDED" => ledger[o].revision = o

\* A timeout ends the whole process group (docs/detailed-design.md, section 8).
TimeoutEndsGroup ==
    \A o \in Ops : backend[o].task = "killing" ~> ~group[o].child
=============================================================================
