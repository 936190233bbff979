--------------------------- MODULE RuntimeProofs ---------------------------
(***************************************************************************)
(* The worker of Runtime, for any number of messages, attempts and cancel  *)
(* requests, under either harness and wherever the process dies: it owns   *)
(* the message it executes until its own last write, no message is         *)
(* executed twice, and the tables keep every invariant of RunStoreSafety.  *)
(***************************************************************************)
EXTENDS Runtime, RunStoreSafety

\* The statuses the worker writes.
WorkerTargets == {"SUCCEEDED", "FAILED", "CANCELLED"}

\* The worker's memory: its type, and what a place in the program says about it.
WorkerOK(row) ==
    /\ row \in WorkerType
    /\ row.steps <= StepLimit
    /\ row.pc = "check" => row.calls > 0
    /\ row.pc \in Executing => row.run \in Runs /\ row.attempt \in Attempts
    /\ row.pc = "write" => row.target \in WorkerTargets

\* What a cancel request remembers is older than the row, or still true of it.
RequestFresh(c) ==
    c.pc # "idle" =>
        /\ c.version <= runs[c.run].version
        /\ c.version = runs[c.run].version =>
             /\ c.pc = "read" /\ c.queued => runs[c.run].status = "QUEUED"
             /\ c.pc = "requested" => runs[c.run].attempt = None

\* A message in the queue has never been claimed: nothing here puts one back.
NeverRequeued == \A r \in Runs : runs[r].status = "QUEUED" => ~Claimed(r)

RuntimeInv ==
    /\ StoreInv
    /\ harness \in {"local", "langgraph"}
    /\ WorkerOK(worker)
    /\ \A q \in Requests : RequestFresh(cancels[q])
    /\ NeverRequeued
    /\ ExecutedAtMostOnce
    /\ ExecutorOwnsRun

-----------------------------------------------------------------------------
(***************************************************************************)
(* The worker's memory.  Every step of the worker but the claim and the    *)
(* last write leaves the rows it owns alone and keeps what it knows of     *)
(* them (Follows).                                                         *)
(***************************************************************************)
Follows(row) ==
    row.pc \in Executing =>
        /\ row.run = worker.run
        /\ row.attempt = worker.attempt
        /\ row.target = worker.target \/ Current.status # "CANCELLED"

\* A worker between two messages remembers nothing.
LEMMA RestingOK ==
    ASSUME NEW pc \in PCs \ Executing
    PROVE  WorkerOK(Resting(pc)) /\ Follows(Resting(pc))
<1>1. Resting(pc) \in WorkerType
  BY StepsAssumption DEF Resting, WorkerType
<1>2. Resting(pc).steps <= StepLimit
  BY StepsAssumption DEF Resting, StepLimit
<1> QED
  BY <1>1, <1>2 DEF WorkerOK, Follows, Resting, Executing

\* The worker's memory at another place of the same message.
Here(pc, steps, calls, planned, version, target) ==
    [pc |-> pc, run |-> worker.run, attempt |-> worker.attempt, steps |-> steps,
     calls |-> calls, planned |-> planned, version |-> version, target |-> target]

\* Wherever the worker goes with its message, it remembers it well.
LEMMA HereOK ==
    ASSUME WorkerOK(worker), worker.pc \in Executing, NEW pc \in Executing,
           NEW steps \in Nat, steps <= StepLimit,
           NEW calls \in 0 .. MaxCalls, pc = "check" => calls > 0,
           NEW planned \in BOOLEAN, NEW version \in Nat, NEW target \in Statuses \cup {None},
           pc = "write" => target \in WorkerTargets,
           target = worker.target \/ Current.status # "CANCELLED"
    PROVE  /\ WorkerOK(Here(pc, steps, calls, planned, version, target))
           /\ Follows(Here(pc, steps, calls, planned, version, target))
<1>1. PICK row : row = Here(pc, steps, calls, planned, version, target)
  OBVIOUS
<1>2. /\ row.pc = pc /\ row.run = worker.run /\ row.attempt = worker.attempt
      /\ row.steps = steps /\ row.calls = calls /\ row.target = target
  BY <1>1 DEF Here
<1>3. worker.run \in Runs /\ worker.attempt \in Attempts
  BY DEF WorkerOK
<1>4. steps \in 0 .. MaxSteps + 2
  BY StepsAssumption DEF StepLimit
<1>5. row \in WorkerType
  BY <1>1, <1>3, <1>4 DEF Here, WorkerType, PCs
<1> QED
  BY <1>1, <1>2, <1>3, <1>5 DEF WorkerOK, Follows

\* Going somewhere without changing anything else.
LEMMA AtOK ==
    ASSUME WorkerOK(worker), worker.pc \in Executing, NEW pc \in Executing \ {"write"},
           pc = "check" => worker.calls > 0
    PROVE  WorkerOK(At(pc)) /\ Follows(At(pc))
<1>1. worker \in WorkerType /\ worker.steps <= StepLimit
  BY DEF WorkerOK
<1>2. ASSUME NEW row, row = At(pc)
      PROVE  row = Here(pc, worker.steps, worker.calls, worker.planned, worker.version,
                        worker.target)
  BY <1>1, <1>2 DEF At, Here, WorkerType
<1>3. /\ worker.steps \in Nat /\ worker.calls \in 0 .. MaxCalls
      /\ worker.planned \in BOOLEAN /\ worker.version \in Nat
      /\ worker.target \in Statuses \cup {None}
  BY <1>1, StepsAssumption DEF WorkerType
<1> QED
  BY <1>1, <1>2, <1>3, HereOK

\* Where an exception takes the worker, and where a finished tool call does.
LEMMA RaisedOK ==
    ASSUME WorkerOK(worker), worker.pc \in Executing
    PROVE  WorkerOK(Raised) /\ Follows(Raised)
<1>1. "failing" \in Executing \ {"write"} /\ "dead" \in PCs \ Executing
  BY DEF Executing, PCs
<1> QED
  BY <1>1, AtOK, RestingOK DEF Raised

\* After a tool call come the plan, the next call or the next round.
LEMMA NextCallOK ==
    ASSUME WorkerOK(worker), worker.pc \in Executing
    PROVE  WorkerOK(NextCall) /\ Follows(NextCall)
<1>1. {"plan", "check", "head"} \subseteq Executing \ {"write"}
  BY DEF Executing
<1> QED
  BY <1>1, AtOK DEF NextCall

\* The steps of the worker that leave the tables alone.
Thinks ==
    \/ SetupDone \/ SetupRaises
    \/ \E n \in 1 .. MaxCalls : PlanActions(n) \/ ModelCallsTools(n)
    \/ NextAction \/ RoundHead \/ ModelAnswers \/ ModelFails
    \/ \E tool \in Tools : Dispatch(tool)
    \/ ToolReturns \/ ToolRaises
    \/ QueryReturns \/ QueryUnknown \/ QueryCancelled
    \/ ReadForFailure \/ ReadForResult
    \/ WriteConflict

\* Deciding where to go on touches no table.
LEMMA ThinksQuietly == Thinks => UNCHANGED vars /\ worker.pc \in Executing
BY DEF Thinks, SetupDone, SetupRaises, PlanActions, ModelCallsTools, NextAction, RoundHead,
       ModelAnswers, ModelFails, Dispatch, ToolReturns, ToolRaises, QueryReturns,
       QueryUnknown, QueryCancelled, ReadForFailure, ReadForResult, ReadCurrent,
       WriteConflict, Executing

\* Updates of the worker's memory besides its place.
LEMMA CallsUpdate ==
    ASSUME worker \in WorkerType, NEW pc, NEW n, NEW row, row = [At(pc) EXCEPT !.calls = n]
    PROVE  row = Here(pc, worker.steps, n, worker.planned, worker.version, worker.target)
BY DEF At, Here, WorkerType

\* A plan is made: so many calls.
LEMMA PlanUpdate ==
    ASSUME worker \in WorkerType, NEW pc, NEW n,
           NEW row, row = [At(pc) EXCEPT !.planned = TRUE, !.calls = n]
    PROVE  row = Here(pc, worker.steps, n, TRUE, worker.version, worker.target)
BY DEF At, Here, WorkerType

\* A round begins.
LEMMA StepsUpdate ==
    ASSUME worker \in WorkerType, NEW pc, NEW row, row = [At(pc) EXCEPT !.steps = @ + 1]
    PROVE  row = Here(pc, worker.steps + 1, worker.calls, worker.planned, worker.version,
                      worker.target)
BY DEF At, Here, WorkerType

\* The model calls so many tools.
LEMMA ToolsUpdate ==
    ASSUME worker \in WorkerType, NEW pc, NEW n,
           NEW row, row = [At(pc) EXCEPT !.calls = n, !.steps = @ + 1]
    PROVE  row = Here(pc, worker.steps + 1, n, worker.planned, worker.version,
                      worker.target)
BY DEF At, Here, WorkerType

\* The worker has read the row and knows what to write.
LEMMA TargetUpdate ==
    ASSUME worker \in WorkerType, NEW pc, NEW v, NEW t,
           NEW row, row = [At(pc) EXCEPT !.version = v, !.target = t]
    PROVE  row = Here(pc, worker.steps, worker.calls, worker.planned, v, t)
BY DEF At, Here, WorkerType

\* A call the model asked for is taken up, or answered with a refusal (Dispatch).
LEMMA AskedUpdate ==
    ASSUME worker \in WorkerType, NEW pc,
           NEW row, row = [[worker EXCEPT !.calls = @ - 1] EXCEPT !.pc = pc]
    PROVE  row = Here(pc, worker.steps, worker.calls - 1, worker.planned, worker.version,
                      worker.target)
BY DEF Here, WorkerType

\* The next planned call is taken up (NextAction).
LEMMA NextActionUpdate ==
    ASSUME worker \in WorkerType, NEW pc, NEW row, row = [At(pc) EXCEPT !.calls = @ - 1]
    PROVE  row = Here(pc, worker.steps, worker.calls - 1, worker.planned, worker.version,
                      worker.target)
BY DEF At, Here, WorkerType

\* Whatever the worker decides, its memory stays well formed, within the harness's limit
\* of steps, and about the message it has claimed.
LEMMA ThinksOK ==
    ASSUME WorkerOK(worker), harness \in {"local", "langgraph"}, TypeOK, Thinks
    PROVE  WorkerOK(worker') /\ Follows(worker')
<1> DEFINE Good == WorkerOK(worker') /\ Follows(worker')
<1>1. worker.pc \in Executing /\ worker \in WorkerType
  BY ThinksQuietly DEF WorkerOK
<1>2. /\ worker.run \in Runs /\ worker.steps \in Nat /\ worker.steps <= StepLimit
      /\ worker.calls \in 0 .. MaxCalls /\ worker.planned \in BOOLEAN
      /\ worker.version \in Nat /\ worker.target \in Statuses \cup {None}
      /\ StepLimit \in Nat
  BY <1>1, StepsAssumption DEF WorkerOK, WorkerType, StepLimit
<1>3. Current.version \in Nat
  BY <1>2 DEF TypeOK, RunRow, Current
<1>4. /\ {"setup", "plan", "head", "agent", "check", "code", "query", "failing", "read"}
           \subseteq Executing \ {"write"}
      /\ "write" \in Executing
      /\ {"idle", "dead"} \subseteq PCs \ Executing
  BY DEF Executing, PCs
<1>5. WorkerTargets \subseteq Statuses
  BY DEF WorkerTargets, Statuses
<1>6. \A pc \in {"head", "read", "plan"} : worker' = At(pc) => Good
  BY <1>1, <1>4, AtOK
<1>7. \A pc \in {"idle", "dead"} : worker' = Resting(pc) => Good
  BY <1>4, RestingOK
<1>8. worker' = Raised => Good
  BY <1>1, RaisedOK
<1>9. worker' = NextCall => Good
  BY <1>1, NextCallOK
<1>10. CASE SetupDone \/ SetupRaises
  BY <1>10, <1>6, <1>7 DEF SetupDone, SetupRaises
<1>11. ASSUME NEW n \in 1 .. MaxCalls, PlanActions(n)
       PROVE  Good
  <2>1. worker' = Here("plan", worker.steps, n, TRUE, worker.version, worker.target)
    BY <1>1, <1>11, PlanUpdate DEF PlanActions
  <2>2. n \in 0 .. MaxCalls
    OBVIOUS
  <2> QED
    BY <1>1, <1>2, <1>4, <2>1, <2>2, HereOK
<1>12. ASSUME NEW n \in 1 .. MaxCalls, ModelCallsTools(n)
       PROVE  Good
  <2>1. n \in 0 .. MaxCalls /\ n > 0
    BY StepsAssumption
  <2>2. CASE harness = "local"
    <3>1. worker' = Here("check", worker.steps, n, worker.planned, worker.version,
                         worker.target)
      BY <1>1, <1>12, <2>2, CallsUpdate DEF ModelCallsTools
    <3> QED
      BY <1>1, <1>2, <1>4, <2>1, <3>1, HereOK
  <2>3. CASE harness # "local" /\ ~StepsLeft
    BY <1>8, <1>12, <2>3 DEF ModelCallsTools
  <2>4. CASE harness # "local" /\ StepsLeft
    <3>1. worker' = Here("check", worker.steps + 1, n, worker.planned, worker.version,
                         worker.target)
      BY <1>1, <1>12, <2>4, ToolsUpdate DEF ModelCallsTools
    <3>2. worker.steps + 1 \in Nat /\ worker.steps + 1 <= StepLimit
      BY <1>2, <2>4 DEF StepsLeft
    <3> QED
      BY <1>1, <1>2, <1>4, <2>1, <3>1, <3>2, HereOK
  <2> QED
    BY <2>2, <2>3, <2>4
<1>13. CASE NextAction
  <2>1. CASE worker.calls = 0 \/ Current.status = "CANCELLING"
    BY <1>6, <1>13, <2>1 DEF NextAction
  <2>2. CASE ~(worker.calls = 0 \/ Current.status = "CANCELLING")
    <3>1. worker' = Here("code", worker.steps, worker.calls - 1, worker.planned,
                         worker.version, worker.target)
      BY <1>1, <1>13, <2>2, NextActionUpdate DEF NextAction
    <3>2. worker.calls - 1 \in 0 .. MaxCalls
      BY <1>2, <2>2, StepsAssumption
    <3> QED
      BY <1>1, <1>2, <1>4, <3>1, <3>2, HereOK
  <2> QED
    BY <2>1, <2>2
<1>14. CASE RoundHead
  <2>1. CASE worker' = [At("agent") EXCEPT !.steps = @ + 1] /\ StepsLeft
    <3>1. worker' = Here("agent", worker.steps + 1, worker.calls, worker.planned,
                         worker.version, worker.target)
      BY <1>1, <2>1, StepsUpdate
    <3>2. worker.steps + 1 \in Nat /\ worker.steps + 1 <= StepLimit
      BY <1>2, <2>1 DEF StepsLeft
    <3> QED
      BY <1>1, <1>2, <1>4, <3>1, <3>2, HereOK
  <2> QED
    BY <1>6, <1>8, <1>14, <2>1 DEF RoundHead
<1>15. CASE ModelAnswers \/ ModelFails
  BY <1>6, <1>8, <1>15 DEF ModelAnswers, ModelFails
<1>16. ASSUME NEW tool \in Tools, Dispatch(tool)
       PROVE  Good
  <2> DEFINE Asked(pc) == Here(pc, worker.steps, worker.calls - 1, worker.planned,
                               worker.version, worker.target)
  <2>1. worker.calls - 1 \in 0 .. MaxCalls
    BY <1>2, <1>16, StepsAssumption DEF Dispatch, WorkerOK
  <2>2. \A pc : worker' = [[worker EXCEPT !.calls = @ - 1] EXCEPT !.pc = pc]
                  => worker' = Asked(pc)
    BY <1>1, AskedUpdate
  <2>3. [worker EXCEPT !.calls = @ - 1].calls = worker.calls - 1
    BY <1>1 DEF WorkerType
  <2>4. \A pc \in {"code", "query", "head"} : worker' = Asked(pc) => Good
    BY <1>1, <1>2, <1>4, <2>1, HereOK
  <2>5. worker' = Asked("check") /\ worker.calls - 1 > 0 => Good
    BY <1>1, <1>2, <1>4, <2>1, HereOK
  <2> HIDE DEF Asked
  <2>6. CASE harness = "langgraph"
    BY <1>8, <1>16, <2>2, <2>4, <2>6 DEF Dispatch
  <2>7. CASE harness = "local" /\ tool = "code"
    BY <1>16, <2>2, <2>3, <2>4, <2>5, <2>7 DEF Dispatch
  <2>8. CASE harness = "local" /\ tool # "code"
    BY <1>6, <1>16, <2>2, <2>4, <2>8 DEF Dispatch
  <2> QED
    BY <2>6, <2>7, <2>8
<1>17. CASE ToolReturns \/ ToolRaises \/ QueryReturns \/ QueryUnknown
  BY <1>6, <1>8, <1>9, <1>17 DEF ToolReturns, ToolRaises, QueryReturns, QueryUnknown
<1>18. ASSUME NEW target \in WorkerTargets, Current.status # "CANCELLED",
              worker' = [At("write") EXCEPT !.version = Current.version, !.target = target]
       PROVE  Good
  <2>1. worker' = Here("write", worker.steps, worker.calls, worker.planned,
                       Current.version, target)
    BY <1>1, <1>18, TargetUpdate
  <2> QED
    BY <1>1, <1>2, <1>3, <1>4, <1>5, <1>18, <2>1, HereOK
<1>19. CASE QueryCancelled
  BY <1>18, <1>19 DEF QueryCancelled, WorkerTargets
<1>20. CASE ReadForFailure \/ ReadForResult
  BY <1>7, <1>18, <1>20 DEF ReadForFailure, ReadForResult, ReadCurrent, WorkerTargets
<1>21. CASE WriteConflict
  BY <1>7, <1>8, <1>21 DEF WriteConflict
<1> QED
  BY <1>10, <1>11, <1>12, <1>13, <1>14, <1>15, <1>16, <1>17, <1>19, <1>20, <1>21 DEF Thinks
-----------------------------------------------------------------------------
(***************************************************************************)
(* The tables.  Everything the process does to them is a call of the       *)
(* store, and no call of it puts a message back into the queue.            *)
(***************************************************************************)
EndStep == \E r \in Runs, v \in Nat, t \in WorkerTargets \cup {"CANCELLING"},
              o \in Outcomes \cup {None} : Transition(r, v, t, o)

\* The worker's last write is transition_run with the version it has read.
LEMMA WriteCalls ==
    ASSUME WorkerOK(worker), NEW o \in Outcomes \cup {None}, WriteResult(o)
    PROVE  AnyCall /\ EndStep
<1>1. /\ worker.run \in Runs /\ worker.version \in Nat /\ worker.target \in WorkerTargets
      /\ Transition(worker.run, worker.version, worker.target, o) /\ UNCHANGED cancels
  BY DEF WriteResult, WorkerOK, WorkerType, Executing
<1>2. WorkerTargets \subseteq Statuses \ {"RUNNING"}
  BY DEF WorkerTargets, Statuses
<1> QED
  BY <1>1, <1>2 DEF AnyCall, EndStep

\* Whatever thread moves, the tables change by one call of the store.
LEMMA RuntimeCalls ==
    ASSUME TypeOK, ForeignKeys, WorkerOK(worker), [RuntimeNext]_runtimeVars
    PROVE  /\ [AnyCall]_vars
           /\ AcceptStep \/ ClaimStep \/ EndStep \/ Frame
<1> DEFINE Goal == [AnyCall]_vars /\ (AcceptStep \/ ClaimStep \/ EndStep \/ Frame)
<1>1. ASSUME UNCHANGED vars
      PROVE  Goal
  BY <1>1, FrameSteps DEF vars
<1>2. ASSUME UNCHANGED tables, AnyCall
      PROVE  Goal
  BY <1>2 DEF tables, Frame, SameRun, SameHolder
<1>3. ASSUME NEW r \in Runs, NEW a \in Attempts, WorkerClaims(r, a)
      PROVE  Goal
  BY <1>3 DEF WorkerClaims, AnyCall, ClaimStep
<1>4. CASE ToolCommits
  <2>1. worker.attempt \in Attempts
    BY <1>4 DEF ToolCommits, WorkerOK, Executing
  <2> QED
    BY <1>4, <2>1, FrameSteps DEF ToolCommits, AnyCall
<1>5. ASSUME NEW o \in Outcomes \cup {None}, WriteResult(o)
      PROVE  Goal
  BY <1>5, WriteCalls
<1>6. CASE Thinks
  BY <1>1, <1>6, ThinksQuietly
<1>7. CASE WorkerStep
  BY <1>3, <1>4, <1>5, <1>6, <1>7 DEF WorkerStep, WorkerAction, Thinks
<1>8. ASSUME NEW r \in Runs, Sends(r)
      PROVE  Goal
  BY <1>8 DEF Sends, AnyCall, AcceptStep
<1>9. ASSUME NEW q \in Requests, Cancels(q)
      PROVE  Goal
  <2>1. ASSUME NEW t, Transition(cancels[q].run, cancels[q].version, t, None),
               t \in {"CANCELLING", "CANCELLED"}, cancels[q].pc # "idle"
        PROVE  EndStep
    <3>1. cancels[q].run \in Runs /\ cancels[q].version \in Nat
      BY <2>1 DEF TypeOK, ForeignKeys, CancelRow
    <3> QED
      BY <2>1, <3>1 DEF EndStep, WorkerTargets
  <2>2. CASE \E r \in Runs : CancelRead(q, r)
    BY <2>2, <1>2 DEF CancelRead, AnyCall
  <2>3. CASE CancelConflict(q)
    BY <2>3, <1>2 DEF CancelConflict, AnyCall
  <2>4. CASE CancelRequest(q) \/ CancelFinish(q)
    BY <2>1, <2>4 DEF CancelRequest, CancelFinish, AnyCall
  <2> QED
    BY <1>9, <2>2, <2>3, <2>4 DEF Cancels
<1>10. ASSUME NEW w \in Workspaces, LeasePasses(w)
       PROVE  Goal
  BY <1>10, FrameSteps DEF LeasePasses, AnyCall
<1>11. CASE Dies
  <2>1. ThreadsDie
    BY <1>11 DEF Dies, ThreadsDie, tables
  <2> QED
    BY <1>2, <2>1 DEF ThreadsDie, AnyCall
<1>12. CASE Starts
  BY <1>1, <1>12 DEF Starts
<1>13. CASE UNCHANGED runtimeVars
  BY <1>1, <1>13 DEF runtimeVars
<1> QED
  BY <1>7, <1>8, <1>9, <1>10, <1>11, <1>12, <1>13 DEF RuntimeNext, RuntimeNextUp

\* A claim takes a message that nobody has claimed, and no other step brings one back.
LEMMA ClaimedOnce ==
    ASSUME TypeOK, ForeignKeys, NeverRequeued, ExecutedAtMostOnce,
           AcceptStep \/ ClaimStep \/ EndStep \/ Frame
    PROVE  NeverRequeued' /\ ExecutedAtMostOnce'
<1>1. CASE AcceptStep
  <2>1. PICK r \in Runs, s \in Sessions, k \in Keys, b \in BOOLEAN : AcceptOnce(r, s, k, b)
    BY <1>1 DEF AcceptStep
  <2>2. AcceptEffect(r, s)
    BY <2>1, AcceptOnceEffect
  <2>3. ~Claimed(r)
    BY <2>2, NoneAssumption DEF AcceptEffect, Claimed, ForeignKeys, Created, Exists
  <2> QED
    BY <2>2, <2>3 DEF AcceptEffect, NeverRequeued, Claimed, ExecutedAtMostOnce, Created
<1>2. CASE ClaimStep
  <2>1. PICK r \in Runs, a \in Attempts : ClaimNextRun(r, a)
    BY <1>2 DEF ClaimStep
  <2>2. ClaimEffect(r, a)
    BY <2>1, ClaimNextRunEffect
  <2>3. ~Claimed(r) /\ ~Created(a)
    BY <2>1 DEF ClaimNextRun, Claimable, NeverRequeued
  <2>4. /\ runs'[r].status = "RUNNING" /\ \A p \in Runs \ {r} : runs'[p] = runs[p]
        /\ attempts'[a].run = r /\ \A b \in Attempts \ {a} : attempts'[b] = attempts[b]
    BY <2>2 DEF ClaimEffect
  <2>5. NeverRequeued'
    BY <2>4 DEF NeverRequeued, Claimed
  <2>6. ExecutedAtMostOnce'
    BY <2>3, <2>4 DEF ExecutedAtMostOnce, Created, Claimed
  <2> QED
    BY <2>5, <2>6
<1>3. CASE EndStep
  <2>1. PICK r \in Runs, v \in Nat, t \in WorkerTargets \cup {"CANCELLING"},
             o \in Outcomes \cup {None} : Transition(r, v, t, o)
    BY <1>3 DEF EndStep
  <2>2. MoveEffect(r, t) /\ t # "QUEUED"
    BY <2>1, TransitionEffect DEF WorkerTargets
  <2>3. /\ runs'[r].status = t /\ \A p \in Runs \ {r} : runs'[p] = runs[p]
        /\ \A b \in Attempts : attempts'[b].run = attempts[b].run
    BY <2>2 DEF MoveEffect
  <2> QED
    BY <2>2, <2>3 DEF NeverRequeued, Claimed, ExecutedAtMostOnce, Created
<1>4. CASE Frame
  BY <1>4 DEF Frame, SameRun, NeverRequeued, Claimed, ExecutedAtMostOnce, Created
<1> QED
  BY <1>1, <1>2, <1>3, <1>4

\* A message in the queue has no attempt.
LEMMA QueuedUnowned ==
    ASSUME StoreInv, NeverRequeued, NEW r \in Runs, runs[r].status = "QUEUED"
    PROVE  runs[r].attempt = None
<1>1. RunHoldsSlots(r) /\ runs[r].attempt \in Attempts \cup {None}
  BY DEF StoreInv, OwnershipAgrees, TypeOK, RunRow
<1> QED
  BY <1>1 DEF RunHoldsSlots, NeverRequeued, Claimed
-----------------------------------------------------------------------------
(***************************************************************************)
(* Cancel requests.  A request acts only while the row still has the       *)
(* version it read, and then what it read is still so: one that read a     *)
(* queued message cannot end it after the worker has claimed it.           *)
(***************************************************************************)
\* What a step does to one request.
LEMMA RequestSteps ==
    ASSUME TypeOK, [RuntimeNext]_runtimeVars, NEW q \in Requests
    PROVE  \/ cancels'[q] = cancels[q]
           \/ cancels'[q] = Idle
           \/ \E r \in Runs : CancelRead(q, r)
           \/ CancelRequest(q)
<1>1. CASE UNCHANGED cancels
  BY <1>1
<1>2. CASE WorkerStep
  <2>1. CASE Thinks
    BY <2>1, ThinksQuietly DEF vars
  <2> QED
    BY <1>2, <2>1 DEF WorkerStep, WorkerAction, Thinks, WorkerClaims, ClaimNextRun,
                      ToolCommits, RecordWorkspaceRevision, WriteResult
<1>3. ASSUME NEW p \in Requests, Cancels(p)
      PROVE  \/ cancels'[q] = cancels[q]
             \/ cancels'[q] = Idle
             \/ \E r \in Runs : CancelRead(q, r)
             \/ CancelRequest(q)
  BY <1>3 DEF Cancels, CancelRead, CancelRequest, CancelFinish, CancelConflict, TypeOK
<1> QED
  BY <1>1, <1>2, <1>3 DEF RuntimeNext, RuntimeNextUp, Sends, AcceptOnce, LeasePasses,
     LeaseExpires, Dies, Starts, vars, runtimeVars

\* What a cancel request has read stays older than the row, or true of it.
LEMMA RequestsStayFresh ==
    ASSUME RuntimeInv, [RuntimeNext]_runtimeVars, NEW q \in Requests
    PROVE  RequestFresh(cancels[q])'
<1> DEFINE c == cancels[q]
<1>1. TypeOK /\ ForeignKeys /\ [AnyCall]_vars /\ RequestFresh(c)
  BY RuntimeCalls DEF RuntimeInv, StoreInv
<1>2. CASE cancels'[q] = c /\ c.pc # "idle"
  <2>1. c.run \in Runs /\ Exists(c.run) /\ c.version \in Nat /\ runs[c.run].version \in Nat
    BY <1>1, <1>2 DEF ForeignKeys, TypeOK, CancelRow, RunRow
  <2>2. \/ /\ runs'[c.run].version = runs[c.run].version
           /\ runs'[c.run].status = runs[c.run].status
           /\ runs'[c.run].attempt = runs[c.run].attempt
        \/ runs'[c.run].version = runs[c.run].version + 1
    BY <1>1, <2>1, VersionsMove
  <2> QED
    BY <1>1, <1>2, <2>1, <2>2 DEF RequestFresh
<1>3. CASE cancels'[q].pc = "idle"
  BY <1>3 DEF RequestFresh
<1>4. ASSUME NEW r \in Runs, CancelRead(q, r)
      PROVE  RequestFresh(cancels[q])'
  <2>1. /\ runs' = runs /\ runs[r].version \in Nat
        /\ cancels'[q] = [pc |-> "read", run |-> r, version |-> runs[r].version,
                          queued |-> ReadAsQueued(r)]
    BY <1>1, <1>4 DEF CancelRead, tables, TypeOK, RunRow
  <2>2. /\ cancels'[q].run = r /\ cancels'[q].version = runs[r].version
        /\ cancels'[q].queued = ReadAsQueued(r) /\ cancels'[q].pc = "read"
    BY <2>1
  <2>3. /\ cancels'[q].version <= runs'[r].version
        /\ runs'[r].status = runs[r].status
    BY <2>1, <2>2
  <2> QED
    BY <2>2, <2>3 DEF RequestFresh, ReadAsQueued
<1>5. CASE CancelRequest(q)
  <2>1. /\ c \in CancelRow /\ c.pc = "read" /\ c.run \in Runs /\ runs[c.run].version \in Nat
        /\ Transition(c.run, c.version, "CANCELLING", None)
        /\ cancels'[q] = IF c.queued THEN Requested(c, runs[c.run].version + 1) ELSE Idle
    BY <1>1, <1>5 DEF CancelRequest, TypeOK, ForeignKeys, RunRow
  <2>2. CASE c.queued
    <3>1. /\ cancels'[q].pc = "requested" /\ cancels'[q].run = c.run
          /\ cancels'[q].version = runs[c.run].version + 1
      BY <2>1, <2>2, RequestedRow
    <3>2. c.version = runs[c.run].version
      BY <2>1 DEF Transition, VersionMatches
    <3>3. runs[c.run].attempt = None
      BY <1>1, <2>1, <2>2, <3>2, QueuedUnowned DEF RequestFresh, RuntimeInv
    <3>4. runs'[c.run].attempt = None
      BY <1>1, <2>1, <3>3, TransitionEffect DEF MoveEffect
    <3>5. runs'[c.run].version = runs[c.run].version + 1
      <4>1. RunLogs(c.run, SessionOf(c.run), "run.cancel_requested")
        <5>1. EventTypeOf("CANCELLING") = "run.cancel_requested"
          BY DEF EventTypeOf, TerminalStatuses, WaitingStatuses
        <5> QED
          BY <1>1, <2>1, <5>1, TransitionLogs
      <4>2. Exists(c.run)
        BY <2>1 DEF Transition
      <4> QED
        BY <4>1, <4>2 DEF RunLogs
    <3>6. /\ cancels'[q].version = runs'[c.run].version
          /\ runs'[c.run].version \in Nat
      BY <2>1, <3>1, <3>5
    <3>7. cancels'[q].version <= runs'[c.run].version
      BY <3>6
    <3> HIDE DEF c
    <3> QED
      BY <3>1, <3>4, <3>6, <3>7 DEF RequestFresh
  <2>3. CASE ~c.queued
    BY <2>1, <2>3, IdleRow DEF RequestFresh
  <2> QED
    BY <2>2, <2>3
<1>6. CASE cancels'[q] = c /\ c.pc = "idle"
  BY <1>6 DEF RequestFresh
<1> QED
  BY <1>1, <1>2, <1>3, <1>4, <1>5, <1>6, RequestSteps, IdleRow

-----------------------------------------------------------------------------
(***************************************************************************)
(* Nobody but the worker ends the message it executes.                     *)
(***************************************************************************)
\* The worker's own steps.
LEMMA WorkerKeepsItsRun ==
    ASSUME RuntimeInv, WorkerStep
    PROVE  /\ WorkerOK(worker')
           /\ ExecutorOwnsRun'
<1> USE DEF RuntimeInv
<1>1. TypeOK /\ ForeignKeys /\ WorkerOK(worker) /\ ExecutorOwnsRun
  BY DEF StoreInv
<1>2. ASSUME UNCHANGED runs, worker.pc \in Executing, WorkerOK(worker') /\ Follows(worker')
      PROVE  WorkerOK(worker') /\ ExecutorOwnsRun'
  BY <1>1, <1>2 DEF Follows, ExecutorOwnsRun, Current
<1>3. CASE Thinks
  BY <1>1, <1>2, <1>3, ThinksOK, ThinksQuietly DEF vars
<1>4. ASSUME NEW r \in Runs, NEW a \in Attempts, WorkerClaims(r, a)
      PROVE  WorkerOK(worker') /\ ExecutorOwnsRun'
  <2>1. ClaimEffect(r, a)
    BY <1>1, <1>4, ClaimNextRunEffect DEF WorkerClaims
  <2>2. /\ runs'[r].status = "RUNNING" /\ runs'[r].attempt = a
    BY <2>1 DEF ClaimEffect
  <2>3. worker' = [pc |-> "setup", run |-> r, attempt |-> a, steps |-> 0, calls |-> 0,
                   planned |-> FALSE, version |-> 0, target |-> None]
    BY <1>4 DEF WorkerClaims, Resting
  <2>4. worker' \in WorkerType
    BY <2>3, StepsAssumption DEF WorkerType, PCs, Executing
  <2>5. WorkerOK(worker')
    BY <2>3, <2>4, StepsAssumption DEF WorkerOK, StepLimit
  <2> QED
    BY <2>2, <2>3, <2>5 DEF ExecutorOwnsRun, Current
<1>5. CASE ToolCommits
  BY <1>1, <1>2, <1>5, NextCallOK DEF ToolCommits, RecordWorkspaceRevision, Executing
<1>6. ASSUME NEW o \in Outcomes \cup {None}, WriteResult(o)
      PROVE  WorkerOK(worker') /\ ExecutorOwnsRun'
  <2>1. /\ worker.pc \in Executing /\ worker \in WorkerType /\ worker.run \in Runs
        /\ "idle" \in PCs \ Executing /\ {"failing", "read"} \subseteq Executing \ {"write"}
        /\ worker' = AfterWrite
        /\ Transition(worker.run, worker.version, worker.target, o)
    BY <1>1, <1>6 DEF WriteResult, WorkerOK, Executing, PCs
  <2>2. WorkerOK(worker')
    BY <1>1, <2>1, AtOK, RestingOK DEF AfterWrite
  <2>3. CASE worker.target = "CANCELLED"
    <3>1. runs'[worker.run].status = "CANCELLED"
      BY <1>1, <2>1, <2>3, TransitionEffect DEF MoveEffect
    <3>2. \A pc : At(pc).run = worker.run /\ At(pc).target = worker.target
      BY <2>1 DEF At, WorkerType
    <3>3. worker'.run = worker.run /\ worker'.target = "CANCELLED"
      BY <2>1, <2>3, <3>2 DEF AfterWrite
    <3> QED
      BY <2>2, <3>1, <3>3 DEF ExecutorOwnsRun, Current
  <2>4. CASE worker.target # "CANCELLED"
    <3>1. worker'.pc \notin Executing
      BY <2>1, <2>4 DEF AfterWrite, Resting
    <3> QED
      BY <2>2, <3>1 DEF ExecutorOwnsRun
  <2> QED
    BY <2>3, <2>4
<1> QED
  BY <1>3, <1>4, <1>5, <1>6 DEF WorkerStep, WorkerAction, Thinks

\* A message that was accepted, and a cancellation, leave the worker its message: a
\* request that could end it has read it before the claim, and conflicts.
LEMMA OthersKeepItsRun ==
    ASSUME RuntimeInv, worker' = worker,
           \/ \E r \in Runs : Sends(r)
           \/ \E q \in Requests : Cancels(q)
           \/ \E w \in Workspaces : LeasePasses(w)
           \/ UNCHANGED vars
    PROVE  ExecutorOwnsRun'
<1> SUFFICES ASSUME worker.pc \in Executing
             PROVE  ExecutorOwnsRun'
  BY DEF ExecutorOwnsRun
<1> DEFINE mine == worker.run
<1>1. /\ TypeOK /\ ForeignKeys /\ mine \in Runs /\ worker.attempt # None
      /\ \/ runs[mine].status \in {"RUNNING", "CANCELLING"} /\ runs[mine].attempt = worker.attempt
         \/ runs[mine].status = "CANCELLED" /\ worker.target = "CANCELLED"
  BY NoneAssumption DEF RuntimeInv, StoreInv, WorkerOK, ExecutorOwnsRun, Current
<1>2. ASSUME runs'[mine] = runs[mine]
      PROVE  ExecutorOwnsRun'
  BY <1>1, <1>2 DEF ExecutorOwnsRun, Current
<1>3. ASSUME NEW r \in Runs, Sends(r)
      PROVE  ExecutorOwnsRun'
  BY <1>1, <1>2, <1>3 DEF Sends, AcceptOnce, Exists, TypeOK
<1>4. ASSUME NEW q \in Requests, NEW t \in {"CANCELLING", "CANCELLED"},
             Transition(cancels[q].run, cancels[q].version, t, None),
             cancels[q].pc # "idle", t = "CANCELLED" => cancels[q].pc = "requested"
      PROVE  ExecutorOwnsRun'
  <2>1. cancels[q].run \in Runs /\ RequestFresh(cancels[q])
    BY <1>1, <1>4 DEF ForeignKeys, RuntimeInv
  <2>2. /\ MoveEffect(cancels[q].run, t)
        /\ cancels[q].version = runs[cancels[q].run].version
    BY <1>1, <1>4, <2>1, TransitionEffect DEF Transition, VersionMatches
  <2>3. CASE cancels[q].run # mine
    BY <1>1, <1>2, <2>2, <2>3 DEF MoveEffect
  <2>4. CASE cancels[q].run = mine
    <3>1. /\ t \in AllowedTransitions(runs[mine].status) /\ runs'[mine].status = t
          /\ runs'[mine].attempt = IF t \in TerminalStatuses THEN None ELSE runs[mine].attempt
      BY <2>2, <2>4 DEF MoveEffect
    <3>2. runs[mine].status # "CANCELLED"
      BY <3>1 DEF AllowedTransitions, WaitingStatuses
    <3>3. t = "CANCELLING"
      BY <1>1, <1>4, <2>1, <2>2, <2>4, <3>2 DEF RequestFresh
    <3> QED
      BY <1>1, <3>1, <3>2, <3>3 DEF ExecutorOwnsRun, Current, TerminalStatuses
  <2> QED
    BY <2>3, <2>4
<1>5. ASSUME NEW q \in Requests, Cancels(q)
      PROVE  ExecutorOwnsRun'
  BY <1>2, <1>4, <1>5
  DEF Cancels, CancelRead, CancelRequest, CancelFinish, CancelConflict, tables
<1> QED
  BY <1>2, <1>3, <1>5 DEF LeasePasses, LeaseExpires, vars

-----------------------------------------------------------------------------
\* A process starts with a worker between two messages and without requests ...
LEMMA RuntimeInitInv == RuntimeInit => RuntimeInv
<1> SUFFICES ASSUME RuntimeInit
             PROVE  RuntimeInv
  OBVIOUS
<1>1. StoreInv
  BY InitStoreInv DEF RuntimeInit
<1>2. WorkerOK(worker) /\ worker.pc \notin Executing
  BY RestingOK DEF RuntimeInit, PCs, Executing, Resting
<1>3. /\ \A q \in Requests : RequestFresh(cancels[q])
      /\ NeverRequeued /\ ExecutedAtMostOnce
  BY IdleRow, NoneAssumption
  DEF RuntimeInit, Init, RequestFresh, NeverRequeued, ExecutedAtMostOnce, Created, NoRun,
      NoAttempt
<1> QED
  BY <1>1, <1>2, <1>3, HarnessAssumption DEF RuntimeInv, ExecutorOwnsRun, RuntimeInit

\* ... and every step keeps the invariant, whichever thread takes it.
LEMMA RuntimeNextInv ==
    ASSUME RuntimeInv, [RuntimeNext]_runtimeVars
    PROVE  RuntimeInv'
<1>1. TypeOK /\ ForeignKeys /\ WorkerOK(worker)
  BY DEF RuntimeInv, StoreInv
<1>2. /\ [AnyCall]_vars
      /\ AcceptStep \/ ClaimStep \/ EndStep \/ Frame
  BY <1>1, RuntimeCalls
<1>3. StoreInv'
  BY <1>2, AnyCallKeepsStoreInv DEF RuntimeInv
<1>4. NeverRequeued' /\ ExecutedAtMostOnce'
  BY <1>1, <1>2, ClaimedOnce DEF RuntimeInv
<1>5. \A q \in Requests : RequestFresh(cancels[q])'
  BY RequestsStayFresh
<1>6. ASSUME worker' \in {Resting("down"), Resting("idle")}, harness' \in {"local", "langgraph"}
      PROVE  harness' \in {"local", "langgraph"} /\ WorkerOK(worker)' /\ ExecutorOwnsRun'
  <2>1. worker' \in WorkerType /\ worker'.steps = 0 /\ worker'.pc \notin Executing
    <3>1. PICK pc \in {"down", "idle"} : worker' = Resting(pc)
      BY <1>6
    <3>2. pc \in PCs \ Executing
      BY <3>1 DEF PCs, Executing
    <3>3. Resting(pc) \in WorkerType
      BY <3>2, RestingOK DEF WorkerOK
    <3> QED
      BY <3>1, <3>2, <3>3 DEF Resting
  <2>2. 0 <= StepLimit'
    BY StepsAssumption DEF StepLimit
  <2> QED
    BY <1>6, <2>1, <2>2 DEF WorkerOK, ExecutorOwnsRun, Executing
<1>7. ASSUME harness' = harness, WorkerOK(worker')
      PROVE  WorkerOK(worker)'
  BY <1>7 DEF WorkerOK, StepLimit
<1>8. harness' \in {"local", "langgraph"} /\ WorkerOK(worker)' /\ ExecutorOwnsRun'
  <2>1. CASE WorkerStep
    BY <2>1, <1>7, WorkerKeepsItsRun DEF WorkerStep, RuntimeInv
  <2>2. CASE \/ \E r \in Runs : Sends(r)
             \/ \E q \in Requests : Cancels(q)
             \/ \E w \in Workspaces : LeasePasses(w)
             \/ UNCHANGED runtimeVars
    <3>1. worker' = worker /\ harness' = harness
      BY <2>2 DEF Sends, Cancels, LeasePasses, runtimeVars
    <3> QED
      BY <2>2, <3>1, <1>1, <1>7, OthersKeepItsRun DEF runtimeVars, RuntimeInv
  <2>3. CASE Dies \/ Starts
    BY <2>3, <1>6, HarnessAssumption DEF Dies, Starts, RuntimeInv
  <2> QED
    BY <2>1, <2>2, <2>3 DEF RuntimeNext, RuntimeNextUp
<1> QED
  BY <1>3, <1>4, <1>5, <1>8 DEF RuntimeInv

\* The worker's memory and the tables agree at every point of _worker_loop and execute.
THEOREM RuntimeInvTheorem == RuntimeSpec => []RuntimeInv
<1>1. RuntimeInv /\ [RuntimeNext]_runtimeVars => RuntimeInv'
  BY RuntimeNextInv
<1> QED
  BY <1>1, RuntimeInitInv, PTL DEF RuntimeSpec

\* While the worker executes a message nobody else ends it, however cancellations, their
\* conflicts and process deaths interleave with it (execute, cancel_run, claim_next_run).
THEOREM ExecutorTheorem == RuntimeSpec => []ExecutorOwnsRun
<1>1. RuntimeInv => ExecutorOwnsRun
  BY DEF RuntimeInv
<1> QED
  BY <1>1, RuntimeInvTheorem, PTL

\* No message is executed twice, whatever becomes of its worker: there is never a second
\* attempt at a run (claim_next_run, and no caller that puts a run back).
THEOREM ExecutedOnceTheorem == RuntimeSpec => []ExecutedAtMostOnce
<1>1. RuntimeInv => ExecutedAtMostOnce
  BY DEF RuntimeInv
<1> QED
  BY <1>1, RuntimeInvTheorem, PTL

\* The worker's memory is well formed and neither harness takes more steps than it may.
THEOREM WorkerTypeTheorem == RuntimeSpec => []WorkerTypeOK
<1>1. RuntimeInv => WorkerTypeOK
  BY DEF RuntimeInv, WorkerOK, WorkerTypeOK
<1> QED
  BY <1>1, RuntimeInvTheorem, PTL

\* The process as a whole implements the exclusive, fenced lease of each workspace, as
\* the store on its own does.
THEOREM RuntimeLeaseTheorem == RuntimeSpec => ImplementsLease
<1>1. RuntimeInit => Lease!Init
  BY InitRefines DEF RuntimeInit
<1>2. RuntimeInv /\ [RuntimeNext]_runtimeVars => [Lease!Next]_(Lease!leaseVars)
  <2> SUFFICES ASSUME RuntimeInv, [RuntimeNext]_runtimeVars
               PROVE  [Lease!Next]_(Lease!leaseVars)
    OBVIOUS
  <2>1. TypeOK /\ ForeignKeys /\ Ownership /\ [AnyCall]_vars
    BY RuntimeCalls DEF RuntimeInv, StoreInv, Ownership
  <2> QED
    BY <2>1, NextRefines
<1> QED
  BY <1>1, <1>2, RuntimeInvTheorem, PTL DEF RuntimeSpec, ImplementsLease, Lease!Spec

\* Worker, cancel requests, lease takeovers and deaths of the process change the tables
\* by calls of the store only, so everything the store promises holds in the process.
THEOREM RuntimeTablesTheorem == RuntimeSpec => []TablesSafe
<1>1. RuntimeInit => TablesInv
  BY InitTables DEF RuntimeInit
<1>2. RuntimeInv /\ TablesInv /\ [RuntimeNext]_runtimeVars => TablesInv'
  <2> SUFFICES ASSUME RuntimeInv, TablesInv, [RuntimeNext]_runtimeVars
               PROVE  TablesInv'
    OBVIOUS
  <2>1. [AnyCall]_vars
    BY RuntimeCalls DEF RuntimeInv, StoreInv
  <2> QED
    BY <2>1, AnyCallKeepsTables
<1> QED
  BY <1>1, <1>2, RuntimeInvTheorem, TablesAreSafe, PTL DEF RuntimeSpec
=============================================================================
