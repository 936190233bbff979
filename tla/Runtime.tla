------------------------------ MODULE Runtime ------------------------------
(***************************************************************************)
(* One agent-runtime process: the worker thread of AgentRuntime, running   *)
(* one of the two harnesses, beside API threads that accept and cancel     *)
(* messages, all over the tables of RunStore.                              *)
(*                                                                         *)
(* The worker is sequential.  Between two of its store calls (it awaits    *)
(* the model, a process or Impala, or simply returns from a call) any API  *)
(* thread may run, so each of its calls that moves a run or a workspace,   *)
(* and each decision taken from what a call returned, is an action.  The   *)
(* events and the tool ledger that a harness writes along the way decide   *)
(* nothing here and are left out, as are the files (prepared directories,  *)
(* transcripts).                                                           *)
(***************************************************************************)
EXTENDS RunStore

CONSTANTS Harnesses,   \* what FORGE_HARNESS may name when a process starts
          Tools,       \* kinds of tools that are called: "code", "impala"
          Faults,      \* what may raise: "setup", "model", "tool"
          MaxSteps,    \* max_tool_steps (FORGE_MAX_TOOL_STEPS)
          MaxCalls     \* bound on the tool calls of one model answer or one plan

ASSUME HarnessAssumption == Harnesses \subseteq {"local", "langgraph"}
ASSUME ToolsAssumption   == Tools \subseteq {"code", "impala"}
ASSUME FaultsAssumption  == Faults \subseteq {"setup", "model", "tool"}
ASSUME StepsAssumption   == MaxSteps \in Nat /\ MaxCalls \in Nat

VARIABLES worker,
          harness      \* AgentRuntime.harness, built once per process

runtimeVars == <<vars, worker, harness>>

\* Where the worker thread is:
\*   idle     in _worker_loop, between two messages
\*   setup    preparing directories, loading Skills and the conversation
\*   plan     local only: before the next code block of the user's own message
\*   head     before the next model call
\*   agent    the model has been asked
\*   check    before the next tool call of the model's answer
\*   code     a python or bash process is running
\*   query    an Impala query is running
\*   failing  langgraph only: an exception is being turned into FAILED
\*   read     the graph or loop has ended, about to read the run
\*   write    has read the run, about to transition it to worker.target
\*   dead     an exception left _worker_loop, the thread is gone
\*   down     the process is not running
Executing == {"setup", "plan", "head", "agent", "check", "code", "query", "failing",
              "read", "write"}
PCs == Executing \cup {"idle", "dead", "down"}

\* The graph counts its nodes, agent and tools alike, against recursion_limit; the
\* local loop counts its model calls.
StepLimit == IF harness = "local" THEN MaxSteps ELSE MaxSteps + 2

WorkerType == [pc : PCs, run : Runs \cup {None}, attempt : Attempts \cup {None},
               steps : 0 .. MaxSteps + 2, calls : 0 .. MaxCalls, planned : BOOLEAN,
               version : Nat, target : Statuses \cup {None}]

Resting(pc) == [pc |-> pc, run |-> None, attempt |-> None, steps |-> 0, calls |-> 0,
                planned |-> FALSE, version |-> 0, target |-> None]
At(pc)      == [worker EXCEPT !.pc = pc]

\* An exception inside the graph is caught by LangGraphHarness.execute; the local
\* harness catches none, and neither does _worker_loop.
Raised == IF harness = "langgraph" THEN At("failing") ELSE Resting("dead")

\* After a tool call: the next call of the same answer, or the next round.
NextCall == IF worker.planned THEN At("plan")
            ELSE IF worker.calls > 0 THEN At("check") ELSE At("head")

RuntimeInit == Init /\ worker = Resting("idle") /\ harness \in Harnesses

Current == runs[worker.run]

-----------------------------------------------------------------------------
\* _worker_loop: claim a message and hand it to the harness.
WorkerClaims(r, a) ==
    /\ worker.pc = "idle"
    /\ ClaimNextRun(r, a)
    /\ worker' = [Resting("setup") EXCEPT !.run = r, !.attempt = a]

\* prepare_attempt, _activate_skills and the conversation history: an exception here
\* (a Skill snapshot that is gone, a message text that cannot be read) is caught by
\* neither harness.
SetupDone ==
    /\ worker.pc = "setup"
    /\ worker' = At("head")
    /\ UNCHANGED vars
SetupRaises ==
    /\ worker.pc = "setup" /\ "setup" \in Faults
    /\ worker' = Resting("dead")
    /\ UNCHANGED vars

\* _plan_actions: the local harness runs the code blocks of the message itself, without
\* a model, each after a look at the run.
PlanActions(n) ==
    /\ worker.pc = "setup" /\ harness = "local" /\ "code" \in Tools
    /\ worker' = [At("plan") EXCEPT !.planned = TRUE, !.calls = n]
    /\ UNCHANGED vars
NextAction ==
    /\ worker.pc = "plan"
    /\ worker' = IF worker.calls = 0 \/ Current.status = "CANCELLING" THEN At("read")
                 ELSE [At("code") EXCEPT !.calls = @ - 1]
    /\ UNCHANGED vars

\* The top of a round.  The local loop ends with a partial answer once its steps are
\* used, and ends too when the run is no longer RUNNING.  The graph raises its recursion
\* limit and does not look at the run.
StepsLeftLate == worker.steps <= StepLimit    \* fault: one round too many
StepsLeft     == worker.steps < StepLimit
RoundHead ==
    /\ worker.pc = "head"
    /\ worker' =
         IF ~StepsLeft THEN IF harness = "local" THEN At("read") ELSE Raised
         ELSE IF harness = "local" /\ Current.status # "RUNNING" THEN At("read")
         ELSE [At("agent") EXCEPT !.steps = @ + 1]
    /\ UNCHANGED vars

\* The model answers without calling a tool, ...
ModelAnswers ==
    /\ worker.pc = "agent"
    /\ worker' = At("read")
    /\ UNCHANGED vars

\* ... or asks for n tool calls (the tools node is one more step of the graph), ...
ModelCallsTools(n) ==
    /\ worker.pc = "agent"
    /\ worker' = IF harness = "local" THEN [At("check") EXCEPT !.calls = n]
                 ELSE IF ~StepsLeft THEN Raised
                 ELSE [At("check") EXCEPT !.calls = n, !.steps = @ + 1]
    /\ UNCHANGED vars

\* ... or the model adapter raises (timeout, quota, malformed response).
ModelFails ==
    /\ worker.pc = "agent" /\ "model" \in Faults
    /\ worker' = Raised
    /\ UNCHANGED vars

\* The look at the run before a tool call.  The graph raises unless the run is RUNNING.
\* The local harness tells the model that a CANCELLING run was cancelled; its Impala
\* tools stop unless the run is RUNNING and the worker's attempt its active one, and
\* then end the loop.
Dispatch(tool) ==
    LET asked == [worker EXCEPT !.calls = @ - 1]
        going == [asked EXCEPT !.pc = IF tool = "code" THEN "code" ELSE "query"]
    IN  /\ worker.pc = "check"
        /\ worker' =
             CASE harness = "langgraph" ->
                    IF Current.status = "RUNNING" THEN going ELSE Raised
               [] harness = "local" /\ tool = "code" ->
                    IF Current.status # "CANCELLING" THEN going
                    ELSE [asked EXCEPT !.pc = IF asked.calls > 0 THEN "check" ELSE "head"]
               [] OTHER ->
                    IF Current.status = "RUNNING" /\ Current.attempt = worker.attempt
                    THEN going ELSE At("read")
        /\ UNCHANGED vars

\* A process ended well and its revision is recorded with the attempt's lease ...
ToolCommits ==
    /\ worker.pc = "code"
    /\ RecordWorkspaceRevision(worker.attempt)
    /\ worker' = NextCall

\* ... or it was refused (unknown tool, no such Skill, cancelled meanwhile), failed or
\* timed out, changed no file, or the store refused the revision: the model is told ...
ToolReturns ==
    /\ worker.pc = "code"
    /\ worker' = NextCall
    /\ UNCHANGED vars

\* ... or a call around it raised: the execution backend, the tool ledger, a file.
ToolRaises ==
    /\ worker.pc \in {"code", "query"} /\ "tool" \in Faults
    /\ worker' = Raised
    /\ UNCHANGED vars

\* An Impala query returns rows or an error that the model may work with ...
QueryReturns ==
    /\ worker.pc = "query"
    /\ worker' = NextCall
    /\ UNCHANGED vars

\* ... or its remote state is unknown, which ends the message ...
QueryUnknown ==
    /\ worker.pc = "query"
    /\ worker' = IF harness = "langgraph" THEN Raised ELSE At("read")
    /\ UNCHANGED vars

\* ... or it polled cancelled() and stopped: ImpalaToolDispatcher then finishes the
\* cancelled run itself, with the version it reads now.
QueryCancelled ==
    /\ worker.pc = "query"
    /\ Current.status = "CANCELLING"
    /\ worker' = [At("write") EXCEPT !.version = Current.version, !.target = "CANCELLED"]
    /\ UNCHANGED vars

\* _finish_failed and the end of execute(): a run that is being cancelled or already
\* is cancelled is returned as it is, any other is to be transitioned.
ReadCurrent(pc, target) ==
    /\ worker.pc = pc
    /\ worker' = IF Current.status \in {"CANCELLING", "CANCELLED"}
                 THEN Resting("idle")
                 ELSE [At("write") EXCEPT !.version = Current.version, !.target = target]
    /\ UNCHANGED vars
ReadForFailure == ReadCurrent("failing", "FAILED")
ReadForResult  == ReadCurrent("read", "SUCCEEDED")

\* transition_run with the version read.  After an Impala cancellation the loop or the
\* graph still has to end.
AfterWrite ==
    IF worker.target # "CANCELLED" THEN Resting("idle")
    ELSE IF harness = "langgraph" THEN At("failing") ELSE At("read")
WriteResult(outcome) ==
    /\ worker.pc = "write"
    /\ Transition(worker.run, worker.version, worker.target, outcome)
    /\ worker' = AfterWrite
    /\ UNCHANGED cancels

\* STATE_CONFLICT: the run moved between the read and the write.  Only the graph's own
\* exceptions are caught, not those of the final transitions.
WriteConflict ==
    /\ worker.pc = "write"
    /\ ~VersionMatches(worker.run, worker.version)
    /\ worker' = IF worker.target = "CANCELLED" THEN Raised ELSE Resting("dead")
    /\ UNCHANGED vars

WorkerAction ==
    \/ \E r \in Runs, a \in Attempts : WorkerClaims(r, a)
    \/ SetupDone \/ SetupRaises
    \/ \E n \in 1 .. MaxCalls : PlanActions(n) \/ ModelCallsTools(n)
    \/ NextAction \/ RoundHead \/ ModelAnswers \/ ModelFails
    \/ \E tool \in Tools : Dispatch(tool)
    \/ ToolCommits \/ ToolReturns \/ ToolRaises
    \/ QueryReturns \/ QueryUnknown \/ QueryCancelled
    \/ ReadForFailure \/ ReadForResult
    \/ \E o \in Outcomes \cup {None} : WriteResult(o)
    \/ WriteConflict
WorkerStep == WorkerAction /\ UNCHANGED harness

-----------------------------------------------------------------------------
\* The HTTP threads.  The transport passes reject_if_active.
Up == worker.pc # "down"
Sends(r) ==
    /\ Up
    /\ \E s \in Sessions, k \in Keys : AcceptOnce(r, s, k, TRUE)
    /\ UNCHANGED <<worker, harness>>
Cancels(q) ==
    /\ Up
    /\ \/ \E r \in Runs : CancelRead(q, r)
       \/ CancelRequest(q) \/ CancelFinish(q) \/ CancelConflict(q)
    /\ UNCHANGED <<worker, harness>>
LeasePasses(w) == LeaseExpires(w) /\ UNCHANGED <<worker, harness>>

\* The process dies with everything in memory, and start_worker runs again later.
Dies ==
    /\ Up
    /\ worker' = Resting("down")
    /\ cancels' = [q \in Requests |-> Idle]
    /\ UNCHANGED <<tables, harness>>
Starts ==
    /\ ~Up
    /\ worker' = Resting("idle")
    /\ harness' \in Harnesses
    /\ UNCHANGED vars

RuntimeNextUp ==
    \/ WorkerStep
    \/ \E r \in Runs : Sends(r)
    \/ \E q \in Requests : Cancels(q)
    \/ \E w \in Workspaces : LeasePasses(w)
RuntimeNext == RuntimeNextUp \/ Dies \/ Starts

\* The worker thread keeps running: claim_next_run is polled, model calls and tools
\* have timeouts.  A started cancel request runs on, and a dead process is restarted.
WorkerFairness == WF_runtimeVars(WorkerStep)
CancelsFinish  ==
    \A q \in Requests :
        WF_runtimeVars(Cancels(q) /\ cancels[q].pc # "idle")

RuntimeSpec     == RuntimeInit /\ [][RuntimeNext]_runtimeVars
RuntimeSpecUp   == RuntimeInit /\ [][RuntimeNextUp]_runtimeVars
RuntimeFairUp   == RuntimeSpecUp /\ WorkerFairness /\ CancelsFinish

-----------------------------------------------------------------------------
(***************************************************************************)
(* Properties.                                                             *)
(***************************************************************************)

\* The worker's memory is well formed, and neither harness exceeds its own limit of
\* steps.
WorkerTypeOK == worker \in WorkerType /\ worker.steps <= StepLimit

\* While the worker executes a message nobody else ends it: the run still has the
\* worker's attempt and is RUNNING or CANCELLING, until the worker's own last write.
\* A cancellation that read the run while it was queued must not finish it after the
\* worker has claimed it.
ExecutorOwnsRun ==
    worker.pc \in Executing =>
        \/ /\ Current.status \in {"RUNNING", "CANCELLING"}
           /\ Current.attempt = worker.attempt
        \/ Current.status = "CANCELLED" /\ worker.target = "CANCELLED"

\* Without crashes every accepted message ends, whatever the model and the tools do,
\* unless a cancellation hits a message in execution (which may hold what others need)
\* or an exception of the model or a tool leaves the local harness, which catches none,
\* and takes the worker thread with it.
CancelHitsExecution == \E r \in Runs : runs[r].status = "CANCELLING" /\ runs[r].attempt # None
LocalWorkerLost     == worker.pc = "dead" /\ harness = "local"
EveryMessageEnds ==
    \A r \in Runs : Exists(r) ~> Terminal(r) \/ CancelHitsExecution \/ LocalWorkerLost

\* A message whose cancellation was requested ends (docs/detailed-design.md, section 6).
CancelSettles == \A r \in Runs : runs[r].status = "CANCELLING" ~> Terminal(r)

\* A background task survives the exceptions of one message (docs/coding-standards.md).
WorkerSurvives == worker.pc # "dead"

\* A message is executed at most once, whatever becomes of its worker: a restart does
\* not run the user's input again (requirements.md), because a claim takes
\* only what nobody has claimed and no step of the worker or of a request puts a message
\* back.
ExecutedAtMostOnce ==
    \A a, b \in Attempts :
        Created(a) /\ Created(b) /\ attempts[a].run = attempts[b].run => a = b
=============================================================================
