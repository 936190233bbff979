--------------------------- MODULE ToolRunProofs ---------------------------
(***************************************************************************)
(* What ToolRun does for any number of operations, whichever calls raise   *)
(* and whatever the program does: results follow exits, recorded revisions *)
(* exist, events are in order.                                             *)
(***************************************************************************)
EXTENDS ProjectFiles, SequenceTheorems, TLAPS

\* The tasks that have not set a status yet (aborted ones never will).
Undecided == {"waiting", "killing", "aborted"}

\* The inductive invariant, one operation at a time.
\* The ledger runs ahead of the backend, and the harness polls what it has submitted.
LedgerLeads(o) ==
    /\ ledger[o].status = "ABSENT" => backend[o].task = "none"
    /\ ledger[o].status \in FinalStatuses => backend[o].status \in FinalStatuses
    /\ caller = o => ledger[o].status = "RUNNING" /\ backend[o].status # "ABSENT"

\* The status says how far the task is.
TaskStatus(o) ==
    /\ backend[o].task = "none" => backend[o].status = "ABSENT"
    /\ backend[o].task \in Undecided => backend[o].status = "RUNNING"
    /\ backend[o].task \in {"draining", "done", "dead"} => backend[o].status \in FinalStatuses

\* What the status says of the process: a result follows its exit, success exit code 0,
\* and a signal that is still to come finds it running.
ExitKnown(o) ==
    /\ backend[o].status \in FinalStatuses => ~Leading(o)
    /\ backend[o].status = "SUCCEEDED" => group[o].leader = "ok"
    /\ group[o].timer => Leading(o)

\* A commit has its directory, and only processes that succeeded have one.
CommitOnDisk(o) ==
    /\ backend[o].commit => o \in snapshots
    /\ o \in snapshots => group[o].leader = "ok"

OperationRow(o) == LedgerLeads(o) /\ TaskStatus(o) /\ ExitKnown(o) /\ CommitOnDisk(o)
OperationInv == \A o \in Ops : OperationRow(o)

-----------------------------------------------------------------------------
\* Types.
LEMMA LogTypes ==
    ASSUME NEW s \in Seq(ToolEvents), NEW b \in BOOLEAN
    PROVE  /\ s \o Begun \in Seq(ToolEvents)
           /\ Append(s, "tool.output") \in Seq(ToolEvents)
           /\ s \o (IF b THEN <<"workspace.committed">> ELSE <<>>) \o <<"tool.finished">>
                 \in Seq(ToolEvents)
<1>1. Begun \in Seq(ToolEvents)
  BY DEF Begun, ToolEvents
<1>2. <<"workspace.committed">> \in Seq(ToolEvents) /\ <<"tool.finished">> \in Seq(ToolEvents)
  BY DEF ToolEvents
<1>3. <<>> \in Seq(ToolEvents)
  OBVIOUS
<1>4. (IF b THEN <<"workspace.committed">> ELSE <<>>) \in Seq(ToolEvents)
  BY <1>2, <1>3
<1>5. s \o (IF b THEN <<"workspace.committed">> ELSE <<>>) \in Seq(ToolEvents)
  BY <1>4
<1> QED
  BY <1>1, <1>2, <1>5 DEF ToolEvents

\* No operation has been prepared.
LEMMA TypeInit == ToolInit => ToolTypeOK
  BY FlagsAssumption DEF ToolInit, ToolTypeOK, LedgerRow, Operation, Group, Tasks

\* Every step keeps rows, tasks and processes well formed.
LEMMA TypeStep ==
    ASSUME ToolTypeOK, OperationInv, ToolNext
    PROVE  ToolTypeOK'
<1> USE DEF ToolTypeOK
<1>1. ASSUME LeaseLost PROVE ToolTypeOK'
  BY <1>1 DEF LeaseLost
<1>2. ASSUME NEW o \in Ops, RunTool(o) PROVE ToolTypeOK'
  <2>1. log' \in [Ops -> Seq(ToolEvents)]
    BY <1>2, LogTypes DEF RunTool
  <2>2. StartedRow(ledger[o]) \in LedgerRow
    BY DEF StartedRow, LedgerRow
  <2>3. ledger' \in [Ops -> LedgerRow]
    BY <1>2, <2>2 DEF RunTool
  <2>4. backend' \in [Ops -> Operation]
    BY <1>2, ZenonT(40) DEF RunTool, Operation, Tasks
  <2>5. group' \in [Ops -> Group]
    BY <1>2 DEF RunTool, Group
  <2> QED
    BY <1>2, <2>1, <2>3, <2>4, <2>5 DEF RunTool
<1>3. ASSUME NEW o \in Ops, SubmitRaises(o) PROVE ToolTypeOK'
  <2>1. log' \in [Ops -> Seq(ToolEvents)]
    BY <1>3, LogTypes DEF SubmitRaises
  <2>2. StartedRow(ledger[o]) \in LedgerRow
    BY DEF StartedRow, LedgerRow
  <2>3. ledger' \in [Ops -> LedgerRow]
    BY <1>3, <2>2 DEF SubmitRaises
  <2> QED
    BY <1>3, <2>1, <2>3 DEF SubmitRaises
<1>4. ASSUME NEW o \in Ops, FinishTool(o) PROVE ToolTypeOK'
  <2>1. Publish(o) \in BOOLEAN
    BY DEF Publish, Operation
  <2>2. log' \in [Ops -> Seq(ToolEvents)]
    BY <1>4, <2>1, LogTypes DEF FinishTool
  <2>3. backend[o].status \in FinalStatuses
    BY <1>4 DEF FinishTool, OperationInv, OperationRow, LedgerLeads, Operation
  <2>4. FinalStatus(o) \in FinalStatuses
    BY <2>3 DEF FinalStatus, FinalStatuses
  <2>5. ledger' \in [Ops -> LedgerRow]
    BY <1>4, <2>4 DEF FinishTool, LedgerRow
  <2>6. revisions' \in Seq(Ops)
    BY <1>4 DEF FinishTool
  <2> QED
    BY <1>4, <2>2, <2>5, <2>6 DEF FinishTool
<1>5. ASSUME NEW o \in Ops, Processes(o) \/ TimerFires(o) PROVE ToolTypeOK'
  <2>1. ASSUME NEW pipes \in BOOLEAN, Forks(o, pipes) PROVE group' \in [Ops -> Group]
    BY <2>1 DEF Forks, Group
  <2>2. ASSUME NEW code \in {"ok", "failed"}, Exits(o, code) PROVE group' \in [Ops -> Group]
    BY <2>2 DEF Exits, Group
  <2>3. ASSUME ChildExits(o) PROVE group' \in [Ops -> Group]
    BY <2>3 DEF ChildExits, Group
  <2>4. ASSUME TimerFires(o) PROVE group' \in [Ops -> Group]
    BY <2>4 DEF TimerFires, Group
  <2>5. group' \in [Ops -> Group]
    BY <1>5, <2>1, <2>2, <2>3, <2>4 DEF Processes
  <2> QED
    BY <1>5, <2>5 DEF Processes, Forks, Exits, ChildExits, TimerFires
<1>6. ASSUME NEW o \in Ops, Outputs(o) PROVE ToolTypeOK'
  <2>1. log' \in [Ops -> Seq(ToolEvents)]
    BY <1>6, LogTypes DEF Outputs
  <2> QED
    BY <1>6, <2>1 DEF Outputs
<1>7. ASSUME NEW o \in Ops, SinkRaises(o) PROVE ToolTypeOK'
  BY <1>7 DEF SinkRaises, Operation
<1>8. ASSUME NEW o \in Ops, Coroutines(o) PROVE ToolTypeOK'
  <2>1. ASSUME Completes(o) PROVE backend' \in [Ops -> Operation]
    <3>1. backend[o] \in Operation
      OBVIOUS
    <3>2. ASSUME NEW status \in FinalStatuses
          PROVE  [backend EXCEPT ![o].task = "draining", ![o].status = status]
                    \in [Ops -> Operation]
      BY <3>1 DEF Operation, Tasks
    <3> QED
      BY <2>1, <3>2 DEF Completes, Verdict, FinalStatuses
  <2>2. ASSUME TimesOut(o) PROVE backend' \in [Ops -> Operation] /\ group' \in [Ops -> Group]
    <3>1. Signalled(group[o]) \in Group
      BY DEF Signalled, Group
    <3> QED
      BY <2>2, <3>1 DEF TimesOut, Operation, Tasks
  <2>3. ASSUME GivesUp(o) PROVE backend' \in [Ops -> Operation]
    <3>2. ASSUME NEW status \in FinalStatuses
          PROVE  [backend EXCEPT ![o].task = "draining", ![o].status = status]
                    \in [Ops -> Operation]
      BY DEF Operation, Tasks
    <3> QED
      BY <2>3, <3>2 DEF GivesUp, Verdict, FinalStatuses
  <2>4. ASSUME Drains(o)
        PROVE  backend' \in [Ops -> Operation] /\ snapshots' \subseteq Ops
    <3>1. \/ backend' = [backend EXCEPT ![o].task = "dead"]
          \/ backend' = [backend EXCEPT ![o].task = "done", ![o].commit = TRUE]
          \/ backend' = [backend EXCEPT ![o].task = "done", ![o].status = "FAILED"]
          \/ backend' = [backend EXCEPT ![o].task = "done"]
      BY <2>4 DEF Drains
    <3>2. backend' \in [Ops -> Operation]
      <4>1. CASE backend' = [backend EXCEPT ![o].task = "dead"]
        BY <4>1, ZenonT(40) DEF Operation, Tasks
      <4>2. CASE backend' = [backend EXCEPT ![o].task = "done", ![o].commit = TRUE]
        BY <4>2, ZenonT(40) DEF Operation, Tasks
      <4>3. CASE backend' = [backend EXCEPT ![o].task = "done", ![o].status = "FAILED"]
        BY <4>3, ZenonT(40) DEF Operation, Tasks, FinalStatuses
      <4>4. CASE backend' = [backend EXCEPT ![o].task = "done"]
        BY <4>4, ZenonT(40) DEF Operation, Tasks
      <4> QED
        BY <3>1, <4>1, <4>2, <4>3, <4>4
    <3>3. snapshots' \subseteq Ops
      BY <2>4 DEF Drains
    <3> QED
      BY <3>2, <3>3
  <2>5. ASSUME CancelDeadline(o) PROVE backend' \in [Ops -> Operation]
    BY <2>5 DEF CancelDeadline, Operation, Tasks
  <2> QED
    BY <1>8, <2>1, <2>2, <2>3, <2>4, <2>5
       DEF Coroutines, Completes, TimesOut, GivesUp, Drains, CancelDeadline
<1>9. ASSUME NEW o \in Ops, CancelOperation(o) PROVE ToolTypeOK'
  <2>1. backend' \in [Ops -> Operation]
    BY <1>9 DEF CancelOperation, Operation
  <2>2. group' \in [Ops -> Group]
    <3>1. Signalled(group[o]) \in Group
      BY DEF Signalled, Group
    <3> QED
      BY <1>9, <3>1 DEF CancelOperation
  <2> QED
    BY <1>9, <2>1, <2>2 DEF CancelOperation
<1> QED
  BY <1>1, <1>2, <1>3, <1>4, <1>5, <1>6, <1>7, <1>8, <1>9 DEF ToolNext

-----------------------------------------------------------------------------
\* Operations: what holds of one is disturbed only by its own steps.
LEMMA OperationInit == ToolInit => OperationInv
  BY FlagsAssumption
     DEF ToolInit, OperationInv, OperationRow, LedgerLeads, TaskStatus, ExitKnown, CommitOnDisk, Undecided,
         FinalStatuses

\* An operation that a step does not concern stays as it is.
LEMMA OperationFrame ==
    ASSUME NEW p \in Ops, OperationRow(p),
           ledger'[p] = ledger[p], backend'[p] = backend[p], group'[p] = group[p],
           caller' = p => caller = p,
           p \in snapshots' <=> p \in snapshots
    PROVE  OperationRow(p)'
  BY DEF OperationRow, LedgerLeads, TaskStatus, ExitKnown, CommitOnDisk, Leading

\* Every step keeps ledger, task and process of an operation in line.
LEMMA OperationStep ==
    ASSUME ToolTypeOK, OperationInv, ToolNext
    PROVE  OperationInv'
<1> SUFFICES ASSUME NEW p \in Ops PROVE OperationRow(p)'
  BY DEF OperationInv
<1> USE DEF ToolTypeOK
<1>0. OperationRow(p)
  BY DEF OperationInv
<1>1. ASSUME LeaseLost PROVE OperationRow(p)'
  BY <1>0, <1>1, OperationFrame DEF LeaseLost
<1>2. ASSUME NEW o \in Ops, ToolNext, o # p, ~LeaseLost,
             \/ RunTool(o) \/ SubmitRaises(o) \/ FinishTool(o)
             \/ Processes(o) \/ TimerFires(o)
             \/ Outputs(o) \/ SinkRaises(o)
             \/ Coroutines(o) \/ CancelOperation(o)
      PROVE  OperationRow(p)'
  <2>1. /\ ledger'[p] = ledger[p]
        /\ backend'[p] = backend[p]
        /\ group'[p] = group[p]
        /\ caller' = p => caller = p
        /\ p \in snapshots' <=> p \in snapshots
    <3>1. CASE RunTool(o) \/ SubmitRaises(o) \/ FinishTool(o)
      BY <1>2, <3>1, FlagsAssumption DEF RunTool, SubmitRaises, FinishTool
    <3>2. CASE Processes(o) \/ TimerFires(o)
      BY <1>2, <3>2 DEF Processes, Forks, Exits, ChildExits, TimerFires
    <3>3. CASE Outputs(o) \/ SinkRaises(o) \/ CancelOperation(o)
      BY <1>2, <3>3 DEF Outputs, SinkRaises, CancelOperation
    <3>4. CASE Completes(o) \/ TimesOut(o) \/ GivesUp(o) \/ CancelDeadline(o)
      BY <1>2, <3>4 DEF Completes, TimesOut, GivesUp, CancelDeadline
    <3>5. CASE Drains(o)
      BY <1>2, <3>5 DEF Drains
    <3> QED
      BY <1>2, <3>1, <3>2, <3>3, <3>4, <3>5 DEF Coroutines
  <2> QED
    BY <1>0, <2>1, OperationFrame
<1>3. ASSUME RunTool(p) PROVE OperationRow(p)'
  BY <1>0, <1>3
     DEF RunTool, StartedRow, OperationRow, LedgerLeads, TaskStatus, ExitKnown, CommitOnDisk,
         Leading, Undecided, FinalStatuses, LedgerRow, Operation, Group
<1>4. ASSUME SubmitRaises(p) PROVE OperationRow(p)'
  BY <1>0, <1>4
     DEF SubmitRaises, StartedRow, OperationRow, LedgerLeads, TaskStatus, ExitKnown,
         CommitOnDisk, Leading, Undecided, FinalStatuses, LedgerRow
<1>5. ASSUME FinishTool(p) PROVE OperationRow(p)'
  BY <1>0, <1>5, FlagsAssumption
     DEF FinishTool, FinalStatus, OperationRow, LedgerLeads, TaskStatus, ExitKnown,
         CommitOnDisk, Leading, FinalStatuses, Operation, LedgerRow
<1>6. ASSUME Processes(p) \/ TimerFires(p) PROVE OperationRow(p)'
  <2>1. ASSUME NEW pipes \in BOOLEAN, Forks(p, pipes) PROVE OperationRow(p)'
    BY <1>0, <2>1
       DEF Forks, OperationRow, LedgerLeads, TaskStatus, ExitKnown,
           CommitOnDisk, Leading, Group
  <2>2. ASSUME NEW code \in {"ok", "failed"}, Exits(p, code) PROVE OperationRow(p)'
    BY <1>0, <2>2
       DEF Exits, OperationRow, LedgerLeads, TaskStatus, ExitKnown,
           CommitOnDisk, Leading, Group
  <2>3. ASSUME ChildExits(p) PROVE OperationRow(p)'
    BY <1>0, <2>3
       DEF ChildExits, OperationRow, LedgerLeads, TaskStatus, ExitKnown,
           CommitOnDisk, Leading, Group
  <2>4. ASSUME TimerFires(p) PROVE OperationRow(p)'
    BY <1>0, <2>4
       DEF TimerFires, OperationRow, LedgerLeads, TaskStatus, ExitKnown,
           CommitOnDisk, Leading, Group
  <2> QED
    BY <1>6, <2>1, <2>2, <2>3, <2>4 DEF Processes
<1>7. ASSUME Outputs(p) PROVE OperationRow(p)'
  BY <1>0, <1>7, OperationFrame DEF Outputs
<1>8. ASSUME SinkRaises(p) PROVE OperationRow(p)'
  BY <1>0, <1>8
     DEF SinkRaises, OperationRow, LedgerLeads, TaskStatus, ExitKnown, CommitOnDisk, Leading,
         Operation
<1>9. ASSUME CancelOperation(p) PROVE OperationRow(p)'
  BY <1>0, <1>9
     DEF CancelOperation, Signalled, OperationRow, LedgerLeads, TaskStatus, ExitKnown,
         CommitOnDisk, Leading, Operation, Group
<1>10. ASSUME Completes(p) PROVE OperationRow(p)'
  BY <1>0, <1>10
     DEF Completes, Verdict, OperationRow, LedgerLeads, TaskStatus, ExitKnown,
         CommitOnDisk, Leading, Undecided, FinalStatuses, Operation
<1>11. ASSUME TimesOut(p) PROVE OperationRow(p)'
  BY <1>0, <1>11
     DEF TimesOut, Signalled, OperationRow, LedgerLeads, TaskStatus, ExitKnown,
         CommitOnDisk, Leading, Undecided, FinalStatuses, Operation, Group
<1>12. ASSUME GivesUp(p) PROVE OperationRow(p)'
  BY <1>0, <1>12
     DEF GivesUp, Terminated, Verdict, OperationRow, LedgerLeads, TaskStatus, ExitKnown,
         CommitOnDisk, Leading, Undecided, FinalStatuses, Operation
<1>13. ASSUME CancelDeadline(p) PROVE OperationRow(p)'
  BY <1>0, <1>13
     DEF CancelDeadline, OperationRow, LedgerLeads, TaskStatus, ExitKnown, CommitOnDisk,
         Leading, Undecided, FinalStatuses, Operation
<1>14. ASSUME Drains(p) PROVE OperationRow(p)'
  <2>1. /\ backend[p].task = "draining"
        /\ caller' = caller /\ ledger' = ledger /\ group' = group
    BY <1>14 DEF Drains
  <2>2. CASE snapshots' = snapshots /\ backend' = [backend EXCEPT ![p].task = "dead"]
    BY <1>0, <2>1, <2>2
       DEF OperationRow, LedgerLeads, TaskStatus, ExitKnown, CommitOnDisk,
           Leading, Undecided, FinalStatuses, Operation
  <2>3. CASE /\ snapshots' = snapshots \cup {p} /\ MayCommit(p)
             /\ backend' = [backend EXCEPT ![p].task = "done", ![p].commit = TRUE]
    BY <1>0, <2>1, <2>3
       DEF MayCommit, OperationRow, LedgerLeads, TaskStatus, ExitKnown, CommitOnDisk,
           Leading, Undecided, FinalStatuses, Operation
  <2>4. CASE /\ snapshots' = snapshots
             /\ backend' = [backend EXCEPT ![p].task = "done", ![p].status = "FAILED"]
    BY <1>0, <2>1, <2>4
       DEF OperationRow, LedgerLeads, TaskStatus, ExitKnown, CommitOnDisk,
           Leading, Undecided, FinalStatuses, Operation
  <2>5. CASE snapshots' = snapshots /\ backend' = [backend EXCEPT ![p].task = "done"]
    BY <1>0, <2>1, <2>5
       DEF OperationRow, LedgerLeads, TaskStatus, ExitKnown, CommitOnDisk,
           Leading, Undecided, FinalStatuses, Operation
  <2> QED
    BY <1>14, <2>2, <2>3, <2>4, <2>5 DEF Drains
<1> QED
  BY <1>1, <1>2, <1>3, <1>4, <1>5, <1>6, <1>7, <1>8, <1>9, <1>10, <1>11, <1>12, <1>13, <1>14
     DEF ToolNext, Coroutines

-----------------------------------------------------------------------------
\* The revision table: a finished operation is never finished again.
LEMMA RecordedStep ==
    ASSUME ToolTypeOK, OperationInv, RecordedRevisionsExist, ToolNext, OperationInv'
    PROVE  RecordedRevisionsExist'
<1> USE DEF ToolTypeOK
<1>1. \A o \in snapshots' : group'[o].leader = "ok"
  <2>1. snapshots' \subseteq Ops
    BY DEF ToolNext, LeaseLost, RunTool, SubmitRaises, FinishTool, Processes, Forks, Exits,
           ChildExits, TimerFires, Outputs, SinkRaises, Coroutines, Completes, TimesOut,
           GivesUp, Drains, CancelDeadline, CancelOperation
  <2> QED
    BY <2>1 DEF OperationInv, OperationRow, CommitOnDisk
<1>2. snapshots \subseteq snapshots'
  BY DEF ToolNext, LeaseLost, RunTool, SubmitRaises, FinishTool, Processes, Forks, Exits,
         ChildExits, TimerFires, Outputs, SinkRaises, Coroutines, Completes, TimesOut,
         GivesUp, Drains, CancelDeadline, CancelOperation
<1>3. CASE revisions' = revisions /\ \E o \in Ops : /\ ledger[o].status \in {"ABSENT", "RUNNING"}
                                                  /\ \A q \in Ops \ {o} : ledger'[q] = ledger[q]
  BY <1>1, <1>2, <1>3 DEF RecordedRevisionsExist
<1>4. CASE revisions' = revisions /\ ledger' = ledger
  BY <1>1, <1>2, <1>4 DEF RecordedRevisionsExist
<1>5. ASSUME NEW o \in Ops, FinishTool(o), Publish(o) PROVE RecordedRevisionsExist'
  <2>1. /\ ledger[o].status = "RUNNING"
        /\ backend[o].status = "SUCCEEDED"
        /\ o \in snapshots
        /\ o # None
    BY <1>5, FlagsAssumption
       DEF FinishTool, Publish, OperationInv, OperationRow, LedgerLeads, CommitOnDisk
  <2>2. ASSUME NEW i \in DOMAIN revisions, revisions[i] = o PROVE FALSE
    <3>1. ledger[o] = [status |-> "SUCCEEDED", revision |-> o]
      BY <2>2 DEF RecordedRevisionsExist
    <3> QED
      BY <2>1, <3>1
  <2>3. revisions' = Append(revisions, o)
    BY <1>5 DEF FinishTool
  <2>4. ledger' = [ledger EXCEPT ![o] = [status |-> "SUCCEEDED", revision |-> o]]
    BY <1>5, <2>1 DEF FinishTool, FinalStatus, Publish
  <2>5. DOMAIN revisions' = DOMAIN revisions \cup {Len(revisions) + 1}
    BY <2>3
  <2>6. /\ revisions'[Len(revisions) + 1] = o
        /\ \A i \in DOMAIN revisions : revisions'[i] = revisions[i]
    BY <2>3
  <2>7. \A i \in DOMAIN revisions : ledger'[revisions[i]] = ledger[revisions[i]]
    BY <2>2, <2>4
  <2>8. ledger'[o] = [status |-> "SUCCEEDED", revision |-> o]
    BY <2>4
  <2> QED
    BY <1>1, <1>2, <2>1, <2>2, <2>5, <2>6, <2>7, <2>8 DEF RecordedRevisionsExist
<1>6. ASSUME NEW o \in Ops, FinishTool(o), ~Publish(o) PROVE RecordedRevisionsExist'
  <2>1. ledger[o].status = "RUNNING"
    BY <1>6, FlagsAssumption DEF FinishTool, OperationInv, OperationRow, LedgerLeads
  <2>2. revisions' = revisions /\ \A q \in Ops \ {o} : ledger'[q] = ledger[q]
    BY <1>6 DEF FinishTool
  <2> QED
    BY <1>3, <2>1, <2>2
<1>7. ASSUME NEW o \in Ops, RunTool(o) \/ SubmitRaises(o) PROVE RecordedRevisionsExist'
  BY <1>3, <1>7 DEF RunTool, SubmitRaises
<1>8. ASSUME NEW o \in Ops,
             \/ Processes(o) \/ TimerFires(o) \/ Outputs(o) \/ SinkRaises(o)
             \/ Coroutines(o) \/ CancelOperation(o)
      PROVE  RecordedRevisionsExist'
  BY <1>4, <1>8
     DEF Processes, Forks, Exits, ChildExits, TimerFires, Outputs, SinkRaises, Coroutines,
         Completes, TimesOut, GivesUp, Drains, CancelDeadline, CancelOperation
<1> QED
  BY <1>4, <1>5, <1>6, <1>7, <1>8 DEF ToolNext, LeaseLost

-----------------------------------------------------------------------------
\* The events: nobody reads once the status is set, and only then is a tool finished.
EventRow(o) ==
    /\ ledger[o].status = "ABSENT" <=> Len(log[o]) = 0
    /\ Len(log[o]) > 0 => Len(log[o]) >= 2
    /\ ledger[o].status \notin FinalStatuses =>
         \A i \in DOMAIN log[o] : log[o][i] \notin {"tool.finished", "workspace.committed"}
    /\ \A i \in DOMAIN log[o] :
         /\ log[o][i] = "tool.finished" => i = Len(log[o])
         /\ log[o][i] = "workspace.committed" => i = Len(log[o]) - 1
         /\ log[o][i] = "tool.output" => i > 2

EventInv == \A o \in Ops : EventRow(o)

\* Nothing has been logged.
LEMMA EventInit == ToolInit => EventInv
  BY DEF ToolInit, EventInv, EventRow, FinalStatuses

\* tool.prepared and tool.started open the log of an operation.
LEMMA BegunRow ==
    ASSUME NEW o \in Ops, ToolTypeOK, EventRow(o), ledger[o].status = "ABSENT",
           ledger' = [ledger EXCEPT ![o] = StartedRow(@)],
           log' = [log EXCEPT ![o] = @ \o Begun]
    PROVE  EventRow(o)'
<1>1. log[o] = <<>>
  BY DEF EventRow, ToolTypeOK
<1>2. log'[o] = <<"tool.prepared", "tool.started">>
  BY <1>1 DEF Begun, ToolTypeOK
<1>3. ledger'[o].status = "RUNNING"
  BY DEF StartedRow, ToolTypeOK, LedgerRow
<1>4. /\ Len(log'[o]) = 2
      /\ DOMAIN log'[o] = 1 .. 2
      /\ log'[o][1] = "tool.prepared" /\ log'[o][2] = "tool.started"
  <2>1. ASSUME NEW t, t = <<"tool.prepared", "tool.started">>
        PROVE  /\ Len(t) = 2 /\ DOMAIN t = 1 .. 2
               /\ t[1] = "tool.prepared" /\ t[2] = "tool.started"
    BY <2>1
  <2> QED
    BY <1>2, <2>1
<1> QED
  BY <1>3, <1>4 DEF EventRow, FinalStatuses

\* tool.finished closes it, behind workspace.committed if there is a revision.
LEMMA FinishedRow ==
    ASSUME NEW o \in Ops, ToolTypeOK, OperationRow(o), EventRow(o), FinishTool(o)
    PROVE  EventRow(o)'
<1> DEFINE s == log[o]
           b == Publish(o)
           t == s \o (IF b THEN <<"workspace.committed">> ELSE <<>>)
<1>1. ledger[o].status = "RUNNING" /\ s \in Seq(ToolEvents) /\ Len(s) >= 2
  BY FlagsAssumption DEF FinishTool, OperationRow, LedgerLeads, EventRow, ToolTypeOK
<1>2. \A i \in DOMAIN s : s[i] \notin {"tool.finished", "workspace.committed"}
  BY <1>1 DEF EventRow, FinalStatuses
<1>3. \A i \in DOMAIN s : s[i] = "tool.output" => i > 2
  BY DEF EventRow
<1>4. ledger'[o].status = FinalStatus(o) /\ log'[o] = t \o <<"tool.finished">>
  BY DEF FinishTool, ToolTypeOK
<1>5. FinalStatus(o) \in FinalStatuses
  BY FlagsAssumption DEF FinishTool, FinalStatus, FinalStatuses, OperationRow, LedgerLeads, ToolTypeOK,
        Operation
<1> HIDE DEF s, b
<1> DEFINE n == Len(s)
           c == "workspace.committed"
           f == "tool.finished"
<1>c. c \in ToolEvents /\ f \in ToolEvents
  BY DEF ToolEvents
<1>6. CASE b
  <2>1. t = Append(s, c) /\ t \in Seq(ToolEvents)
    BY <1>1, <1>6, <1>c, AppendIsConcat, AppendProperties
  <2>2. log'[o] = Append(t, f)
    BY <1>4, <1>c, <2>1, AppendIsConcat
  <2>3. /\ Len(log'[o]) = n + 2
        /\ DOMAIN log'[o] = 1 .. (n + 2)
        /\ \A i \in 1 .. n : log'[o][i] = s[i]
        /\ log'[o][n + 1] = c
        /\ log'[o][n + 2] = f
    <3>1. /\ Len(t) = n + 1
          /\ \A i \in 1 .. n : t[i] = s[i]
          /\ t[n + 1] = c
      BY <1>1, <1>c, <2>1, AppendProperties
    <3>2. /\ Len(log'[o]) = n + 2 /\ log'[o] \in Seq(ToolEvents)
          /\ \A i \in 1 .. n + 1 : log'[o][i] = t[i]
          /\ log'[o][n + 2] = f
      <4>1. Len(t) + 1 = n + 2 /\ n \in Nat
        BY <1>1, <3>1
      <4> QED
        BY <1>c, <2>1, <2>2, <3>1, <4>1, AppendProperties
    <3> QED
      BY <1>1, <3>1, <3>2
  <2> QED
    BY <1>1, <1>2, <1>3, <1>4, <1>5, <2>3 DEF EventRow, FinalStatuses
<1>7. CASE ~b
  <2>1. t = s
    BY <1>1, <1>7, ConcatEmptySeq
  <2>2. log'[o] = Append(s, f)
    BY <1>1, <1>4, <1>c, <2>1, AppendIsConcat
  <2>3. /\ Len(log'[o]) = n + 1
        /\ DOMAIN log'[o] = 1 .. (n + 1)
        /\ \A i \in 1 .. n : log'[o][i] = s[i]
        /\ log'[o][n + 1] = f
    BY <1>1, <1>c, <2>2, AppendProperties
  <2> QED
    BY <1>1, <1>2, <1>3, <1>4, <1>5, <2>3 DEF EventRow, FinalStatuses
<1> QED
  BY <1>6, <1>7

\* Every step keeps the events of every operation in order.
LEMMA EventStep ==
    ASSUME ToolTypeOK, OperationInv, EventInv, ToolNext
    PROVE  EventInv'
<1> SUFFICES ASSUME NEW p \in Ops PROVE EventRow(p)'
  BY DEF EventInv
<1> USE DEF ToolTypeOK
<1>0. OperationRow(p) /\ EventRow(p)
  BY DEF OperationInv, EventInv
<1>1. CASE ledger'[p] = ledger[p] /\ log'[p] = log[p]
  BY <1>0, <1>1 DEF EventRow
<1>2. ASSUME NEW o \in Ops, o # p,
             RunTool(o) \/ SubmitRaises(o) \/ FinishTool(o) \/ Outputs(o)
      PROVE  EventRow(p)'
  BY <1>1, <1>2 DEF RunTool, SubmitRaises, FinishTool, Outputs
<1>3. ASSUME NEW o \in Ops,
             \/ Processes(o) \/ TimerFires(o) \/ SinkRaises(o)
             \/ Coroutines(o) \/ CancelOperation(o)
      PROVE  EventRow(p)'
  BY <1>1, <1>3
     DEF Processes, Forks, Exits, ChildExits, TimerFires, SinkRaises, Coroutines,
         Completes, TimesOut, GivesUp, Drains, CancelDeadline, CancelOperation
<1>4. ASSUME RunTool(p) \/ SubmitRaises(p) PROVE EventRow(p)'
  BY <1>0, <1>4, BegunRow DEF RunTool, SubmitRaises
<1>5. ASSUME FinishTool(p) PROVE EventRow(p)'
  BY <1>0, <1>5, FinishedRow
<1>6. ASSUME Outputs(p) PROVE EventRow(p)'
  <2>1. backend[p].status = "RUNNING" /\ ledger[p].status # "ABSENT"
    BY <1>0, <1>6 DEF Outputs, Reading, OperationRow, LedgerLeads, TaskStatus, Undecided
  <2>2. ledger[p].status \notin FinalStatuses
    BY <1>0, <2>1 DEF OperationRow, LedgerLeads, FinalStatuses
  <2>3. log'[p] = Append(log[p], "tool.output") /\ ledger' = ledger /\ Len(log[p]) >= 2
    BY <1>0, <1>6, <2>1 DEF Outputs, EventRow
  <2> QED
    BY <1>0, <2>1, <2>2, <2>3 DEF EventRow
<1> QED
  BY <1>1, <1>2, <1>3, <1>4, <1>5, <1>6 DEF ToolNext, LeaseLost

-----------------------------------------------------------------------------
(***************************************************************************)
(* Theorems.                                                               *)
(***************************************************************************)
LEMMA Inductive ==
    ToolSpec => [](ToolTypeOK /\ OperationInv /\ RecordedRevisionsExist /\ EventInv)
<1> DEFINE Inv == ToolTypeOK /\ OperationInv /\ RecordedRevisionsExist /\ EventInv
<1>1. ToolInit => Inv
  BY TypeInit, OperationInit, EventInit DEF ToolInit, RecordedRevisionsExist
<1>2. Inv /\ [ToolNext]_toolVars => Inv'
  <2> SUFFICES ASSUME Inv, [ToolNext]_toolVars PROVE Inv'
    OBVIOUS
  <2>1. CASE ToolNext
    <3>1. ToolTypeOK'
      BY <2>1, TypeStep
    <3>2. OperationInv'
      BY <2>1, OperationStep
    <3>3. RecordedRevisionsExist'
      BY <2>1, <3>2, RecordedStep
    <3>4. EventInv'
      BY <2>1, EventStep
    <3> QED
      BY <3>1, <3>2, <3>3, <3>4
  <2>2. CASE UNCHANGED toolVars
    BY <2>2
       DEF toolVars, ToolTypeOK, OperationInv, OperationRow, LedgerLeads, TaskStatus,
           ExitKnown, CommitOnDisk, Leading, RecordedRevisionsExist, EventInv, EventRow
  <2> QED
    BY <2>1, <2>2
<1> QED
  BY <1>1, <1>2, PTL DEF ToolSpec

\* Ledger rows, operations and tables of _run_code_tool and LocalProcessBackend are well
\* formed; in particular finish_tool never stores a status that is not final.
THEOREM ToolTypesTheorem == ToolSpec => []ToolTypeOK
  BY Inductive, PTL

\* LocalProcessBackend publishes no result while the process itself runs.
THEOREM ResultAfterExitTheorem == ToolSpec => []ResultAfterExit
<1>1. OperationInv => ResultAfterExit
  BY DEF OperationInv, OperationRow, ExitKnown, ResultAfterExit
<1> QED
  BY <1>1, Inductive, PTL

\* A recorded revision was committed to disk by a process that exited with 0, and is
\* the revision of exactly one operation, which succeeded.
THEOREM RecordedRevisionsTheorem == ToolSpec => []RecordedRevisionsExist
  BY Inductive, PTL

\* A tool's events are in order and nothing follows tool.finished.
THEOREM ToolEventsTheorem == ToolSpec => []ToolEventsInOrder
<1>1. Len(Begun) = 2
  BY DEF Begun
<1>2. EventInv => ToolEventsInOrder
  BY <1>1 DEF EventInv, EventRow, ToolEventsInOrder
<1> QED
  BY <1>2, Inductive, PTL
-----------------------------------------------------------------------------
(***************************************************************************)
(* The head on disk and the revisions of the table: for any number of      *)
(* operations, what a client is told a revision changed is its difference  *)
(* from the previous one, but for the two races the property names.  The   *)
(* theorems above hold of ProjectFiles too, which only adds to what        *)
(* ToolRun does.                                                           *)
(***************************************************************************)
ToolInv == ToolTypeOK /\ OperationInv /\ RecordedRevisionsExist

LastRevision == IF revisions = <<>> THEN None ELSE revisions[Len(revisions)]
Unrecorded   == snapshots \ Recorded
ManifestOf(o) == IF o = None THEN 0 ELSE images[o].manifest

ProjectTypes ==
    /\ head \in snapshots \cup {None}
    /\ images \in [Ops -> Image]
    /\ project \in Contents

\* A revision was compared with one that was there before it.
Based(o) ==
    /\ ledger[o].status # "ABSENT"
    /\ images[o].base \in snapshots \cup {None}
    /\ images[o].base # o
    /\ images[o].told <=> images[o].manifest # ManifestOf(images[o].base)

\* Commits and rows of the table have one order, except that the table may lack commits:
\* nothing recorded is based on what may still be recorded, the caller's commit.
Ordered ==
    /\ head = LastRevision \/ head \in Unrecorded
    /\ \A i \in DOMAIN revisions :
         /\ images[revisions[i]].base = Before(i) \/ images[revisions[i]].base \in Unrecorded
         /\ caller # None => images[revisions[i]].base # caller
    /\ caller \in snapshots =>
         /\ head \in Unrecorded
         /\ images[caller].base = LastRevision \/ images[caller].base \in Unrecorded

ProjectInv == ProjectTypes /\ (\A o \in snapshots : Based(o)) /\ Ordered

-----------------------------------------------------------------------------
\* What a step of ToolRun does to what ProjectFiles looks at.
LEMMA ToolCases ==
    ASSUME ToolInv, ToolNext
    PROVE  \/ /\ UNCHANGED <<caller, revisions, snapshots>>
              /\ \A o \in Ops : ledger[o].status # "ABSENT" => ledger'[o].status # "ABSENT"
           \/ \E o \in Ops : RunTool(o) \/ FinishTool(o)
           \/ \E o \in Ops : /\ snapshots' = snapshots \cup {o} /\ ledger[o].status # "ABSENT"
                             /\ UNCHANGED <<caller, ledger, revisions>>
<1>1. CASE LeaseLost
  BY <1>1 DEF LeaseLost
<1>2. ASSUME NEW o \in Ops, SubmitRaises(o)
      PROVE  /\ UNCHANGED <<caller, revisions, snapshots>>
             /\ \A p \in Ops : ledger[p].status # "ABSENT" => ledger'[p].status # "ABSENT"
  <2>1. PICK row : row = StartedRow(ledger[o])
    OBVIOUS
  <2>2. ledger[o] \in LedgerRow
    BY DEF ToolInv, ToolTypeOK
  <2>3. row.status = "RUNNING"
    BY <2>1, <2>2 DEF StartedRow, LedgerRow
  <2>4. ledger' = [ledger EXCEPT ![o] = row]
    BY <1>2, <2>1 DEF SubmitRaises
  <2> QED
    BY <1>2, <2>3, <2>4 DEF SubmitRaises, ToolInv, ToolTypeOK
<1>3. ASSUME NEW o \in Ops, Processes(o) \/ TimerFires(o) \/ Outputs(o) \/ SinkRaises(o) \/ CancelOperation(o)
      PROVE  UNCHANGED <<caller, ledger, revisions, snapshots>>
  BY <1>3 DEF Processes, Forks, Exits, ChildExits, TimerFires, Outputs, SinkRaises, CancelOperation
<1>4. ASSUME NEW o \in Ops, Completes(o) \/ TimesOut(o) \/ GivesUp(o) \/ CancelDeadline(o)
      PROVE  UNCHANGED <<caller, ledger, revisions, snapshots>>
  BY <1>4 DEF Completes, TimesOut, GivesUp, CancelDeadline
<1>5. ASSUME NEW o \in Ops, Drains(o)
      PROVE  /\ UNCHANGED <<caller, ledger, revisions>> /\ ledger[o].status # "ABSENT"
             /\ snapshots' = snapshots \/ snapshots' = snapshots \cup {o}
  <2>1. backend[o].task = "draining" /\ LedgerLeads(o)
    BY <1>5 DEF Drains, ToolInv, OperationInv, OperationRow
  <2> QED
    BY <1>5, <2>1 DEF Drains, LedgerLeads
<1> QED
  BY <1>1, <1>2, <1>3, <1>4, <1>5 DEF ToolNext, Coroutines

\* The project on disk is what the table says.
LEMMA ProjectInitInv == ProjectInit => ProjectInv
<1> SUFFICES ASSUME ProjectInit PROVE ProjectInv
  OBVIOUS
<1>1. /\ snapshots = {} /\ revisions = <<>> /\ head = None /\ project \in {0, 1}
      /\ images = [o \in Ops |-> NoImage]
  BY DEF ProjectInit, ToolInit
<1>2. NoImage \in Image /\ project \in Contents
  BY <1>1, WritesAssumption DEF NoImage, Image, Contents
<1> QED
  BY <1>1, <1>2 DEF ProjectInv, ProjectTypes, Ordered, LastRevision

\* Facts about the present state that every step uses.
LEMMA RowsNow ==
    ASSUME ToolInv
    PROVE  /\ snapshots \subseteq Ops /\ None \notin Ops /\ revisions \in Seq(Ops)
           /\ Recorded \subseteq snapshots
           /\ caller # None => caller \in Ops \ Recorded
<1>1. ToolTypeOK /\ OperationInv /\ RecordedRevisionsExist
  BY DEF ToolInv
<1>2. \A i \in DOMAIN revisions : revisions[i] \in snapshots /\ ledger[revisions[i]].status = "SUCCEEDED"
  <2> SUFFICES ASSUME NEW i \in DOMAIN revisions
               PROVE  revisions[i] \in snapshots /\ ledger[revisions[i]].status = "SUCCEEDED"
    OBVIOUS
  <2>1. PICK o : o = revisions[i]
    OBVIOUS
  <2>2. o \in snapshots /\ ledger[o] = [status |-> "SUCCEEDED", revision |-> o]
    BY <1>1, <2>1 DEF RecordedRevisionsExist
  <2> QED
    BY <2>1, <2>2
<1>3. caller # None => caller \in Ops /\ ledger[caller].status = "RUNNING"
  BY <1>1 DEF ToolTypeOK, OperationInv, OperationRow, LedgerLeads
<1> QED
  BY <1>1, <1>2, <1>3, FlagsAssumption DEF Recorded, ToolTypeOK

\* A step that commits and records nothing.
LEMMA QuietStep ==
    ASSUME ToolInv, ProjectInv, UNCHANGED <<revisions, snapshots, head, images>>,
           project' \in Contents,
           caller' \in {caller, None} \/ caller' \in Ops \ snapshots,
           \A o \in snapshots : ledger'[o].status # "ABSENT"
    PROVE  ProjectInv'
<1>1. ProjectTypes /\ (\A o \in snapshots : Based(o)) /\ Ordered
  BY DEF ProjectInv
<1>2. ProjectTypes'
  BY <1>1 DEF ProjectTypes
<1>3. \A o \in snapshots' : Based(o)'
  BY <1>1 DEF Based, ManifestOf
<1>4. \A i \in DOMAIN revisions : images[revisions[i]].base \in snapshots \cup {None}
  BY <1>1, RowsNow DEF Based, Recorded
<1>5. Ordered'
  <2>1. Recorded' = Recorded /\ Unrecorded' = Unrecorded /\ LastRevision' = LastRevision
    BY DEF Recorded, Unrecorded, LastRevision
  <2>2. \A i \in DOMAIN revisions : Before(i)' = Before(i)
    BY DEF Before
  <2>3. \A i \in DOMAIN revisions : caller' # None => images[revisions[i]].base # caller'
    BY <1>1, <1>4, RowsNow DEF Ordered
  <2>4. caller' \in snapshots => caller' = caller
    BY RowsNow
  <2> QED
    BY <1>1, <2>1, <2>2, <2>3, <2>4 DEF Ordered
<1> QED
  BY <1>2, <1>3, <1>5 DEF ProjectInv

\* finish_tool with its revision: the caller's commit becomes the last of the table.
LEMMA FinishStep ==
    ASSUME ToolInv, ProjectInv, NEW o \in Ops, FinishTool(o), UNCHANGED <<project, head, images>>
    PROVE  ProjectInv'
<1>1. ProjectTypes /\ (\A p \in snapshots : Based(p)) /\ Ordered
  BY DEF ProjectInv
<1>2. caller = o /\ caller' = None /\ snapshots' = snapshots
  BY DEF FinishTool
<1>3. \A p \in Ops : ledger[p].status # "ABSENT" => ledger'[p].status # "ABSENT"
  <2>1. PICK row : row = [status |-> FinalStatus(o), revision |-> IF Publish(o) THEN o ELSE None]
    OBVIOUS
  <2>2. ledger' = [ledger EXCEPT ![o] = row]
    BY <2>1 DEF FinishTool
  <2>3. backend[o].status # "ABSENT"
    BY <1>2 DEF ToolInv, OperationInv, OperationRow, LedgerLeads
  <2>4. row.status # "ABSENT"
    BY <2>1, <2>3 DEF FinalStatus
  <2> QED
    BY <2>2, <2>4 DEF ToolInv, ToolTypeOK
<1>4. CASE ~Publish(o)
  <2>1. UNCHANGED <<revisions, snapshots, head, images>>
    BY <1>2, <1>4 DEF FinishTool
  <2>2. \A p \in snapshots : ledger'[p].status # "ABSENT"
    BY <1>1, <1>3, RowsNow DEF Based
  <2> QED
    BY <1>1, <1>2, <2>1, <2>2, QuietStep DEF ProjectTypes
<1>5. CASE Publish(o)
  <2>1. revisions' = Append(revisions, o)
    BY <1>5 DEF FinishTool
  <2>2. PICK n : n = Len(revisions)
    OBVIOUS
  <2>3. /\ n \in Nat /\ DOMAIN revisions = 1..n /\ DOMAIN revisions' = 1..n + 1
        /\ revisions'[n + 1] = o /\ \A i \in 1..n : revisions'[i] = revisions[i]
        /\ Len(revisions') = n + 1 /\ revisions' # <<>>
    BY <2>1, <2>2, RowsNow
  <2>4. o \in snapshots /\ o \notin Recorded /\ o # None
    BY <1>2, <1>5, RowsNow DEF Publish, ToolInv, OperationInv, OperationRow, CommitOnDisk
  <2>5. Recorded' = Recorded \cup {o}
    BY <2>3 DEF Recorded
  <2>6. Unrecorded' = Unrecorded \ {o}
    BY <1>2, <2>5 DEF Unrecorded
  <2>7. LastRevision' = o
    BY <2>3 DEF LastRevision
  <2>8. ProjectTypes'
    BY <1>1, <1>2 DEF ProjectTypes
  <2>9. \A p \in snapshots' : Based(p)'
    BY <1>1, <1>2, <1>3, RowsNow DEF Based, ManifestOf
  <2>10. head = o \/ head \in Unrecorded'
    BY <1>1, <1>2, <2>4, <2>6 DEF Ordered
  <2>11. ASSUME NEW i \in 1..n + 1
         PROVE  images[revisions'[i]].base = Before(i)' \/ images[revisions'[i]].base \in Unrecorded'
    <3>1. CASE i \in 1..n
      <4>1. images[revisions[i]].base # o
        BY <1>1, <1>2, <2>3, <2>4, <3>1 DEF Ordered
      <4>2. Before(i)' = Before(i)
        BY <2>3, <3>1 DEF Before
      <4> QED
        BY <1>1, <2>3, <2>6, <3>1, <4>1, <4>2 DEF Ordered
    <3>2. CASE i = n + 1
      <4>1. images[o].base # o /\ (images[o].base = LastRevision \/ images[o].base \in Unrecorded)
        BY <1>1, <1>2, <2>4 DEF Ordered, Based
      <4>2. Before(i)' = LastRevision
        <5>1. CASE n = 0
          BY <2>2, <2>3, <3>2, <5>1, RowsNow DEF Before, LastRevision
        <5>2. CASE n # 0
          BY <2>2, <2>3, <3>2, <5>2, RowsNow DEF Before, LastRevision
        <5> QED
          BY <5>1, <5>2
      <4> QED
        BY <2>3, <2>6, <3>2, <4>1, <4>2
    <3> QED
      BY <2>3, <3>1, <3>2
  <2>12. caller' = None /\ None \notin snapshots'
    BY <1>2, RowsNow
  <2>13. Ordered'
    BY <2>3, <2>7, <2>10, <2>11, <2>12 DEF Ordered
  <2> QED
    BY <2>8, <2>9, <2>13 DEF ProjectInv
<1> QED
  BY <1>4, <1>5

\* commit_attempt: a new revision directory, based on the head.
LEMMA CommitStep ==
    ASSUME ToolInv, ProjectInv, NEW o \in Ops, NEW copied \in Contents,
           o \notin snapshots, snapshots' = snapshots \cup {o}, ledger[o].status # "ABSENT",
           UNCHANGED <<caller, ledger, revisions>>, MakesRevision(o, copied)
    PROVE  ProjectInv'
<1>1. ProjectTypes /\ (\A p \in snapshots : Based(p)) /\ Ordered
  BY DEF ProjectInv
<1>2. PICK image : image = [base |-> head, manifest |-> project, copied |-> copied,
                            told |-> project # HeadManifest]
  OBVIOUS
<1>3. images' = [images EXCEPT ![o] = image] /\ head' = o /\ project' = copied
  BY <1>2 DEF MakesRevision, NewHead
<1>4. image \in Image
  BY <1>1, <1>2, RowsNow DEF ProjectTypes, Image
<1>5. /\ images' \in [Ops -> Image] /\ images'[o] = image
      /\ \A p \in Ops \ {o} : images'[p] = images[p]
  BY <1>1, <1>3, <1>4 DEF ProjectTypes
<1>6. ProjectTypes'
  BY <1>3, <1>5 DEF ProjectTypes
<1>7. \A p \in snapshots \cup {None} : p # o /\ ManifestOf(p)' = ManifestOf(p)
  BY <1>5, RowsNow DEF ManifestOf
<1>8. ASSUME NEW p \in snapshots' PROVE Based(p)'
  <2>1. CASE p = o
    <3>1. images'[o].base = head /\ images'[o].manifest = project
      BY <1>2, <1>5
    <3>2. images'[o].told <=> project # HeadManifest
      <4>1. image.told = (project # HeadManifest)
        BY <1>2, Zenon
      <4>2. images'[o].told = image.told
        BY <1>5
      <4> QED
        BY <4>1, <4>2, Zenon
    <3>3. HeadManifest = ManifestOf(head)
      BY DEF HeadManifest, ManifestOf
    <3>4. PICK h : h = head
      OBVIOUS
    <3>5. h \in snapshots \cup {None} /\ h # o /\ ManifestOf(h)' = ManifestOf(h)
      BY <1>1, <1>7, <3>4 DEF ProjectTypes
    <3> QED
      BY <2>1, <3>1, <3>2, <3>3, <3>4, <3>5 DEF Based, ManifestOf
  <2>2. CASE p # o
    <3>1. PICK b : b = images[p].base
      OBVIOUS
    <3>2. p \in snapshots /\ images'[p] = images[p] /\ Based(p)
      BY <1>1, <1>5, <2>2, RowsNow
    <3>3. ManifestOf(b)' = ManifestOf(b) /\ b \in snapshots \cup {None}
      BY <1>7, <3>1, <3>2 DEF Based
    <3> QED
      BY <3>1, <3>2, <3>3 DEF Based, ManifestOf
  <2> QED
    BY <2>1, <2>2
<1>9. o \notin Recorded /\ Recorded' = Recorded /\ LastRevision' = LastRevision
  BY RowsNow DEF Recorded, LastRevision
<1>10. Unrecorded' = Unrecorded \cup {o}
  BY <1>9 DEF Unrecorded
<1>11. \A i \in DOMAIN revisions : revisions[i] \in snapshots /\ images'[revisions[i]] = images[revisions[i]]
  BY <1>5, RowsNow DEF Recorded
<1>12. \A i \in DOMAIN revisions : Before(i)' = Before(i)
  BY DEF Before
<1>13. caller \in snapshots' =>
         images'[caller].base = LastRevision \/ images'[caller].base \in Unrecorded
  BY <1>1, <1>2, <1>5, RowsNow, SMTT(30) DEF Ordered
<1>14. Ordered'
  BY <1>1, <1>3, <1>9, <1>10, <1>11, <1>12, <1>13 DEF Ordered
<1> QED
  BY <1>6, <1>8, <1>14 DEF ProjectInv

\* Every step keeps what is known of files, revisions and what clients were told.
LEMMA ProjectStep == ToolInv /\ ProjectInv /\ [ProjectNext]_projectVars => ProjectInv'
<1> SUFFICES ASSUME ToolInv, ProjectInv, [ProjectNext]_projectVars PROVE ProjectInv'
  OBVIOUS
<1>1. ProjectTypes /\ \A p \in snapshots : p \in Ops /\ ledger[p].status # "ABSENT"
  BY RowsNow DEF ProjectInv, Based
<1>2. CASE UNCHANGED projectVars
  BY <1>1, <1>2, QuietStep DEF projectVars, toolVars, ProjectTypes
<1>3. CASE Writes
  <2>1. UNCHANGED <<toolVars, head, images>> /\ project' \in Contents
    BY <1>1, <1>3, WritesAssumption DEF Writes, ProjectTypes, Contents
  <2> QED
    BY <1>1, <2>1, QuietStep DEF toolVars
<1>4. ASSUME ToolNext, Committed = {}, UNCHANGED <<project, head, images>>
      PROVE  ProjectInv'
  <2>1. CASE /\ UNCHANGED <<caller, revisions, snapshots>>
             /\ \A o \in Ops : ledger[o].status # "ABSENT" => ledger'[o].status # "ABSENT"
    BY <1>1, <1>4, <2>1, QuietStep DEF ProjectTypes
  <2>2. ASSUME NEW o \in Ops, RunTool(o) PROVE ProjectInv'
    <3>1. PICK row : row = StartedRow(ledger[o])
      OBVIOUS
    <3>2. ledger[o] \in LedgerRow /\ ledger[o].status = "ABSENT"
      BY <2>2 DEF RunTool, ToolInv, ToolTypeOK
    <3>3. row.status = "RUNNING"
      BY <3>1, <3>2 DEF StartedRow, LedgerRow
    <3>4. /\ ledger' = [ledger EXCEPT ![o] = row] /\ caller' = o
          /\ UNCHANGED <<revisions, snapshots>>
      BY <2>2, <3>1 DEF RunTool
    <3>5. o \notin snapshots /\ \A p \in snapshots : ledger'[p].status # "ABSENT"
      BY <1>1, <3>2, <3>3, <3>4 DEF ToolInv, ToolTypeOK
    <3> QED
      BY <1>1, <1>4, <3>4, <3>5, QuietStep DEF ProjectTypes
  <2>3. ASSUME NEW o \in Ops, FinishTool(o) PROVE ProjectInv'
    BY <1>4, <2>3, FinishStep
  <2>4. ASSUME NEW o \in Ops, snapshots' = snapshots \cup {o}, UNCHANGED <<caller, ledger, revisions>>
        PROVE  ProjectInv'
    <3>1. snapshots' = snapshots
      BY <1>4, <2>4 DEF Committed
    <3> QED
      BY <1>1, <1>4, <2>4, <3>1, QuietStep DEF ProjectTypes
  <2> QED
    BY <1>4, <2>1, <2>2, <2>3, <2>4, ToolCases
<1>5. ASSUME ToolNext, NEW o \in Committed, NEW copied \in Contents, MakesRevision(o, copied)
      PROVE  ProjectInv'
  <2>1. o \in snapshots' /\ o \notin snapshots
    BY <1>5 DEF Committed
  <2>2. \A p \in Ops : RunTool(p) \/ FinishTool(p) => snapshots' = snapshots
    BY DEF RunTool, FinishTool
  <2>3. PICK p \in Ops : /\ snapshots' = snapshots \cup {p} /\ ledger[p].status # "ABSENT"
                        /\ UNCHANGED <<caller, ledger, revisions>>
    BY <1>5, <2>1, <2>2, ToolCases
  <2>4. p = o
    BY <2>1, <2>3
  <2> QED
    BY <1>5, <2>1, <2>3, <2>4, CommitStep
<1> QED
  BY <1>2, <1>3, <1>4, <1>5 DEF ProjectNext, ToolStep

-----------------------------------------------------------------------------
\* ProjectFiles adds to ToolRun: its behaviours are behaviours of ToolRun.
THEOREM ProjectIsToolRun == ProjectSpec => ToolSpec
<1>1. ProjectInit => ToolInit
  BY DEF ProjectInit
<1>2. [ProjectNext]_projectVars => [ToolNext]_toolVars
  BY DEF ProjectNext, ToolStep, Writes, projectVars
<1> QED
  BY <1>1, <1>2, PTL DEF ProjectSpec, ToolSpec

\* workspace.committed tells a client exactly what a revision changed since the previous
\* one of the table, unless the head on disk was a commit the table never got, or a
\* process wrote while a revision was copied (_commit_bound_project).
THEOREM ChangesAreToldTheorem == ProjectSpec => []ChangesAreTold
<1>1. ProjectInit => ProjectInv
  BY ProjectInitInv
<1>2. ToolInv /\ ProjectInv /\ [ProjectNext]_projectVars => ProjectInv'
  BY ProjectStep
<1>3. ToolTypeOK /\ OperationInv /\ RecordedRevisionsExist /\ EventInv => ToolInv
  BY DEF ToolInv
<1>4. ToolInv /\ ProjectInv => ChangesAreTold
  <2> SUFFICES ASSUME ToolInv, ProjectInv, NEW i \in DOMAIN revisions,
                      images[revisions[i]].base \notin snapshots \ Recorded,
                      ~WrittenMeanwhile(revisions[i]), ~WrittenMeanwhile(Before(i))
               PROVE  images[revisions[i]].told <=> images[revisions[i]].copied # Copied(Before(i))
    BY DEF ChangesAreTold
  <2>1. PICK o : o = revisions[i]
    OBVIOUS
  <2>2. o \in snapshots /\ o # None /\ Based(o)
    BY <2>1, RowsNow DEF Recorded, ProjectInv
  <2>3. images[o].base = Before(i)
    BY <2>1 DEF ProjectInv, Ordered, Unrecorded
  <2>4. images[o].copied = images[o].manifest
    BY <2>1, <2>2 DEF WrittenMeanwhile
  <2>5. Copied(Before(i)) = ManifestOf(Before(i))
    BY DEF WrittenMeanwhile, Copied, ManifestOf
  <2> QED
    BY <2>1, <2>2, <2>3, <2>4, <2>5 DEF Based
<1> QED
  BY <1>1, <1>2, <1>3, <1>4, ProjectIsToolRun, Inductive, PTL DEF ProjectSpec
=============================================================================
