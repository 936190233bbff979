------------------------------ MODULE RunStore ------------------------------
(***************************************************************************)
(* The run tables of code_forge.persistence.sqlite_store: runs, sessions,  *)
(* workspaces, run_attempts, workspace_revisions and run_events.  Every    *)
(* method that runs inside SqliteRuntimeStore._transaction (a re-entrant   *)
(* lock around BEGIN IMMEDIATE ... COMMIT) is one atomic action.           *)
(* cancel_run is the exception: it reads the run outside any transaction   *)
(* and then runs one or two of them, so each of its requests is a small    *)
(* process of its own.                                                     *)
(*                                                                         *)
(* A refused call (wrong version, forbidden transition, stale lease, busy  *)
(* session, idempotency conflict) rolls back and changes nothing, so it is *)
(* a stuttering step.  Left out: timestamps, actors, message texts and     *)
(* files.  claim_next_run orders the runs it may take by timestamps that   *)
(* callers read before they obtain the lock; here it may take any of them. *)
(***************************************************************************)
EXTENDS RunStateMachine, Naturals, Sequences, FiniteSets

CONSTANTS Runs, Sessions, Workspaces, Attempts,   \* row ids (uuid4 in the code)
          Keys,            \* idempotency keys
          Requests,        \* threads that may be inside cancel_run at once
          WorkspaceOf,     \* sessions.workspace_id, fixed by create_session
          Outcomes,        \* TaskOutcome
          Targets,         \* statuses that callers pass to transition_run
          RejectModes,     \* values of reject_if_active that callers pass
          MaxRevisions,    \* bound on the revisions of one workspace
          MaxProgress,     \* bound on the progress events of one run
          None

ASSUME WorkspaceOfAssumption == WorkspaceOf \in [Sessions -> Workspaces]

\* Only claim_next_run starts a run: no caller asks transition_run for RUNNING.
ASSUME TargetsAssumption == Targets \subseteq Statuses \ {"RUNNING"}

ASSUME NoneAssumption ==
    None \notin Runs \cup Sessions \cup Workspaces \cup Attempts \cup Keys \cup Outcomes

ASSUME RejectModesAssumption == RejectModes \subseteq BOOLEAN

ASSUME BoundsAssumption == MaxRevisions \in Nat /\ MaxProgress \in Nat

VARIABLES runs,         \* table runs, one row per run id
          sessions,     \* table sessions
          workspaces,   \* table workspaces
          attempts,     \* table run_attempts
          revisions,    \* table workspace_revisions, per workspace in commit order
          events,       \* table run_events, per session in commit order
          cancels       \* what each cancel_run request has read

tables == <<runs, sessions, workspaces, attempts, revisions, events>>
vars   == <<runs, sessions, workspaces, attempts, revisions, events, cancels>>

\* status "ABSENT": the row has not been inserted.
RunRow == [status : Statuses \cup {"ABSENT"}, version : Nat,
           session : Sessions \cup {None}, seq : Nat, key : Keys \cup {None},
           attempt : Attempts \cup {None}, outcome : Outcomes \cup {None},
           nextEvent : Nat, progress : Nat]
SessionRow   == [activeRun : Runs \cup {None}, epoch : Nat, nextSeq : Nat, nextEvent : Nat]
LeaseStates  == {"none", "held", "expired"}
WorkspaceRow == [attempt : Attempts \cup {None}, epoch : Nat, lease : LeaseStates,
                 revision : Nat]
AttemptRow   == [run : Runs \cup {None}, epoch : Nat, wsEpoch : Nat, base : Nat,
                 ended : BOOLEAN]
RevisionRow  == [attempt : Attempts, parent : Nat]
EventRow     == [run : Runs, seq : Nat, sessionSeq : Nat, type : EventTypes]
CancelRow    == [pc : {"idle", "read", "requested"}, run : Runs \cup {None},
                 version : Nat, queued : BOOLEAN]

NoRun     == [status |-> "ABSENT", version |-> 0, session |-> None, seq |-> 0, key |-> None,
              attempt |-> None, outcome |-> None, nextEvent |-> 0, progress |-> 0]
NoAttempt == [run |-> None, epoch |-> 0, wsEpoch |-> 0, base |-> 0, ended |-> FALSE]
Idle      == [pc |-> "idle", run |-> None, version |-> 0, queued |-> FALSE]

Init ==
    /\ runs       = [r \in Runs |-> NoRun]
    /\ sessions   = [s \in Sessions |->
                        [activeRun |-> None, epoch |-> 0, nextSeq |-> 1, nextEvent |-> 1]]
    /\ workspaces = [w \in Workspaces |->
                        [attempt |-> None, epoch |-> 0, lease |-> "none", revision |-> 0]]
    /\ attempts   = [a \in Attempts |-> NoAttempt]
    /\ revisions  = [w \in Workspaces |-> <<>>]
    /\ events     = [s \in Sessions |-> <<>>]
    /\ cancels    = [q \in Requests |-> Idle]

-----------------------------------------------------------------------------
Exists(r)      == runs[r].status # "ABSENT"
Terminal(r)    == runs[r].status \in TerminalStatuses
SessionOf(r)   == runs[r].session
HomeOf(r)      == WorkspaceOf[SessionOf(r)]
Created(a)     == attempts[a].run # None
RunsOf(s)      == {r \in Runs : Exists(r) /\ SessionOf(r) = s}

\* _insert_event_locked: the next number of the run and of the session.  The
\* caller's row updates advance the two counters in the same transaction.
EventWithStaleSeq(r, seq, s, type) ==         \* fault: numbered from the run's version
    [run |-> r, seq |-> runs[r].version + 1, sessionSeq |-> sessions[s].nextEvent,
     type |-> type]
EventFor(r, seq, s, type) ==
    [run |-> r, seq |-> seq, sessionSeq |-> sessions[s].nextEvent, type |-> type]
LogEvent(r, seq, s, type) ==
    events' = [events EXCEPT ![s] = Append(@, EventFor(r, seq, s, type))]

-----------------------------------------------------------------------------
\* accept_once.
HasKey(s, k) == \E r \in RunsOf(s) : runs[r].key = k
Busy(s)      == \E r \in RunsOf(s) : ~Terminal(r)

InsertedRun(s, k) ==
    [NoRun EXCEPT !.status = "QUEUED", !.session = s, !.key = k,
                  !.seq = sessions[s].nextSeq, !.nextEvent = 2]
AcceptedInto(session) == [session EXCEPT !.nextSeq = @ + 1, !.nextEvent = @ + 1]

AcceptOnce(r, s, k, rejectIfActive) ==
    /\ ~Exists(r)
    /\ ~HasKey(s, k)
    /\ rejectIfActive => ~Busy(s)
    /\ runs' = [runs EXCEPT ![r] = InsertedRun(s, k)]
    /\ sessions' = [sessions EXCEPT ![s] = AcceptedInto(@)]
    /\ LogEvent(r, 1, s, "run.accepted")
    /\ UNCHANGED <<workspaces, attempts, revisions, cancels>>

-----------------------------------------------------------------------------
\* claim_next_run: the WHERE clause, then the four row updates.
AnyQueued(r) == TRUE                          \* fault: no order inside a session
NoEarlierQueued(r) ==
    \A p \in RunsOf(SessionOf(r)) : runs[p].status = "QUEUED" => runs[p].seq >= runs[r].seq
ClaimableInBusyWorkspace(r) ==                \* fault: only the session slot is checked
    /\ runs[r].status = "QUEUED"
    /\ sessions[SessionOf(r)].activeRun = None
    /\ NoEarlierQueued(r)
ClaimableOrExpired(r) ==                      \* fault: an expired lease frees its run
    /\ runs[r].status \in {"QUEUED", "RUNNING"}
    /\ runs[r].status = "RUNNING" => workspaces[HomeOf(r)].lease = "expired"
    /\ runs[r].status = "QUEUED" => /\ sessions[SessionOf(r)].activeRun = None
                                    /\ workspaces[HomeOf(r)].attempt = None
    /\ NoEarlierQueued(r)
Claimable(r) ==
    /\ runs[r].status = "QUEUED"
    /\ sessions[SessionOf(r)].activeRun = None
    /\ workspaces[HomeOf(r)].attempt = None
    /\ NoEarlierQueued(r)

SameEpoch(epoch) == epoch                     \* fault: the lease is not fenced
NextEpoch(epoch) == epoch + 1

StartedRun(row, a) ==
    [row EXCEPT !.status = "RUNNING", !.attempt = a, !.version = @ + 1, !.nextEvent = @ + 1]
TakenSession(row, r) ==
    [row EXCEPT !.activeRun = r, !.epoch = @ + 1, !.nextEvent = @ + 1]
TakenWorkspace(row, a) ==
    [row EXCEPT !.attempt = a, !.epoch = NextEpoch(@), !.lease = "held"]
NewAttempt(r, s, w) ==
    [run |-> r, epoch |-> sessions[s].epoch + 1, wsEpoch |-> NextEpoch(workspaces[w].epoch),
     base |-> workspaces[w].revision, ended |-> FALSE]

ClaimNextRun(r, a) ==
    LET s == SessionOf(r)
        w == HomeOf(r)
    IN  /\ Claimable(r)
        /\ ~Created(a)
        /\ attempts' = [attempts EXCEPT ![a] = NewAttempt(r, s, w)]
        /\ sessions' = [sessions EXCEPT ![s] = TakenSession(@, r)]
        /\ workspaces' = [workspaces EXCEPT ![w] = TakenWorkspace(@, a)]
        /\ runs' = [runs EXCEPT ![r] = StartedRun(@, a)]
        /\ LogEvent(r, runs[r].nextEvent, s, "run.started")
        /\ UNCHANGED <<revisions, cancels>>

-----------------------------------------------------------------------------
\* transition_run: compare-and-set on state_version, the transition table, and
\* on a terminal status the release of everything the run's attempt held.
AnyVersion(r, expected) == TRUE               \* fault: no compare-and-set
VersionMatches(r, expected) == runs[r].version = expected

NotVacated(active, r) == active               \* fault: the session slot is not released
Vacated(active, r)    == IF active = r THEN None ELSE active

MovedRun(row, target, outcome) ==
    [row EXCEPT !.status = target, !.version = @ + 1, !.outcome = outcome,
                !.nextEvent = @ + 1,
                !.attempt = IF target \in TerminalStatuses THEN None ELSE @]
MovedSessionFreedInQueue(row, r, target) ==   \* fault: a resumed run gives its session up
    [row EXCEPT !.nextEvent = @ + 1,
                !.activeRun = IF target \in TerminalStatuses \cup {"QUEUED"}
                              THEN Vacated(@, r) ELSE @]
MovedSession(row, r, target) ==
    [row EXCEPT !.nextEvent = @ + 1,
                !.activeRun = IF target \in TerminalStatuses THEN Vacated(@, r) ELSE @]
FreedWorkspace(row) == [row EXCEPT !.attempt = None, !.lease = "none"]
EndedAttempt(row)   == [row EXCEPT !.ended = TRUE]

Transition(r, expected, target, outcome) ==
    LET s    == SessionOf(r)
        w    == HomeOf(r)
        a    == runs[r].attempt
        done == target \in TerminalStatuses
    IN  /\ Exists(r)
        /\ VersionMatches(r, expected)
        /\ target \in AllowedTransitions(runs[r].status)
        /\ (target = "SUCCEEDED") <=> (outcome # None)
        /\ runs' = [runs EXCEPT ![r] = MovedRun(@, target, outcome)]
        /\ sessions' = [sessions EXCEPT ![s] = MovedSession(@, r, target)]
        /\ workspaces' = IF done /\ a # None /\ workspaces[w].attempt = a
                         THEN [workspaces EXCEPT ![w] = FreedWorkspace(@)]
                         ELSE workspaces
        /\ attempts' = IF done /\ a # None
                       THEN [attempts EXCEPT ![a] = EndedAttempt(@)]
                       ELSE attempts
        /\ LogEvent(r, runs[r].nextEvent, s, EventTypeOf(target))
        /\ UNCHANGED revisions

\* The harness's call: it passes the version it has just read.
TransitionRun(r, target, outcome) ==
    /\ target \in Targets
    /\ Transition(r, runs[r].version, target, outcome)
    /\ UNCHANGED cancels

-----------------------------------------------------------------------------
\* cancel_run: read the run without a transaction ...
ReadAsStarted(r) == FALSE                     \* fault: queued runs wait for a worker
ReadAsQueued(r)  == runs[r].status = "QUEUED"

CancelRead(q, r) ==
    /\ cancels[q].pc = "idle"
    /\ Exists(r)
    /\ runs[r].status \notin TerminalStatuses \cup {"CANCELLING"}
    /\ cancels' = [cancels EXCEPT ![q] =
                     [pc |-> "read", run |-> r, version |-> runs[r].version,
                      queued |-> ReadAsQueued(r)]]
    /\ UNCHANGED tables

\* ... then request the cancellation with the version read, and keep the version that
\* transition_run answers with ...
Requested(c, version) == [c EXCEPT !.pc = "requested", !.version = version]
CancelRequest(q) ==
    LET c == cancels[q]
    IN  /\ c.pc = "read"
        /\ Transition(c.run, c.version, "CANCELLING", None)
        /\ cancels' = [cancels EXCEPT ![q] = IF c.queued
                                                THEN Requested(c, runs[c.run].version + 1)
                                                ELSE Idle]

\* ... and, if the run was queued when it was read, finish it in a second transaction.
CancelFinish(q) ==
    LET c == cancels[q]
    IN  /\ c.pc = "requested"
        /\ Transition(c.run, c.version, "CANCELLED", None)
        /\ cancels' = [cancels EXCEPT ![q] = Idle]

\* The version moved on: the caller gets STATE_CONFLICT and nothing is written.
CancelConflict(q) ==
    /\ cancels[q].pc # "idle"
    /\ ~VersionMatches(cancels[q].run, cancels[q].version)
    /\ cancels' = [cancels EXCEPT ![q] = Idle]
    /\ UNCHANGED tables

-----------------------------------------------------------------------------
\* record_workspace_revision, called with an attempt id and the workspace epoch of
\* its claim by a worker that may have lost the workspace meanwhile.
LeaseHeldByAnyone(w, a) ==                    \* fault: the caller is not the holder
    workspaces[w].lease = "held"
LeaseValid(w, a) ==
    /\ workspaces[w].attempt = a
    /\ workspaces[w].epoch = attempts[a].wsEpoch
    /\ workspaces[w].lease = "held"

AtRevision(row, n) == [row EXCEPT !.revision = n]
RecordWorkspaceRevision(a) ==
    /\ Created(a)
    /\ LET w == HomeOf(attempts[a].run)
       IN  /\ LeaseValid(w, a)
           /\ Len(revisions[w]) < MaxRevisions
           /\ revisions'  = [revisions EXCEPT ![w] =
                               Append(@, [attempt |-> a, parent |-> workspaces[w].revision])]
           /\ workspaces' = [workspaces EXCEPT ![w] = AtRevision(@, Len(revisions[w]) + 1)]
    /\ UNCHANGED <<runs, sessions, attempts, events, cancels>>

\* append_event: the harnesses write to the run they have claimed; no status is checked,
\* so late output may follow run.finished.
Claimed(r) == \E a \in Attempts : attempts[a].run = r
ProgressedRun(row)  == [row EXCEPT !.nextEvent = @ + 1, !.progress = @ + 1]
LoggedSession(row)  == [row EXCEPT !.nextEvent = @ + 1]
AppendEvent(r) ==
    /\ Exists(r) /\ Claimed(r)
    /\ runs[r].progress < MaxProgress
    /\ runs' = [runs EXCEPT ![r] = ProgressedRun(@)]
    /\ sessions' = [sessions EXCEPT ![SessionOf(r)] = LoggedSession(@)]
    /\ LogEvent(r, runs[r].nextEvent, SessionOf(r), "progress")
    /\ UNCHANGED <<workspaces, attempts, revisions, cancels>>

\* workspaces.lease_until passes: nothing renews it and nothing else notices.
ExpiredLease(row) == [row EXCEPT !.lease = "expired"]
LeaseExpires(w) ==
    /\ workspaces[w].lease = "held"
    /\ workspaces' = [workspaces EXCEPT ![w] = ExpiredLease(@)]
    /\ UNCHANGED <<runs, sessions, attempts, revisions, events, cancels>>

\* The process dies and comes back: committed rows survive, request threads do not.
Restart ==
    /\ \E q \in Requests : cancels[q].pc # "idle"
    /\ cancels' = [q \in Requests |-> Idle]
    /\ UNCHANGED tables

NextUp ==
    \/ \E r \in Runs, s \in Sessions, k \in Keys, b \in RejectModes : AcceptOnce(r, s, k, b)
    \/ \E r \in Runs, a \in Attempts : ClaimNextRun(r, a)
    \/ \E r \in Runs, t \in Targets, o \in Outcomes \cup {None} : TransitionRun(r, t, o)
    \/ \E q \in Requests, r \in Runs : CancelRead(q, r)
    \/ \E q \in Requests : CancelRequest(q) \/ CancelFinish(q) \/ CancelConflict(q)
    \/ \E a \in Attempts : RecordWorkspaceRevision(a)
    \/ \E r \in Runs : AppendEvent(r)
    \/ \E w \in Workspaces : LeaseExpires(w)

Next == NextUp \/ Restart

Spec == Init /\ [][Next]_vars

-----------------------------------------------------------------------------
(***************************************************************************)
(* Properties.                                                             *)
(***************************************************************************)

\* Every table holds well-formed rows: what the schema's columns, CHECKs and
\* foreign keys admit.
TypeOK ==
    /\ runs       \in [Runs -> RunRow]
    /\ sessions   \in [Sessions -> SessionRow]
    /\ workspaces \in [Workspaces -> WorkspaceRow]
    /\ attempts   \in [Attempts -> AttemptRow]
    /\ revisions  \in [Workspaces -> Seq(RevisionRow)]
    /\ events     \in [Sessions -> Seq(EventRow)]
    /\ cancels    \in [Requests -> CancelRow]

\* Four columns written by different methods say who is executing; they never
\* disagree.  A run with an attempt is the session's active run and its attempt is
\* the workspace's active attempt; each of these columns names a run that really
\* holds it; a run that is executing has an attempt and a finished run has none.
RunHoldsSlots(r) ==
    LET a == runs[r].attempt
    IN  a # None => /\ attempts[a].run = r
                    /\ ~attempts[a].ended
                    /\ sessions[SessionOf(r)].activeRun = r
                    /\ workspaces[HomeOf(r)].attempt = a
SessionSlotHeld(s) ==
    LET r == sessions[s].activeRun
    IN  r # None => SessionOf(r) = s /\ runs[r].attempt # None
WorkspaceSlotHeld(w) ==
    LET a == workspaces[w].attempt
    IN  a # None => /\ Created(a)
                    /\ runs[attempts[a].run].attempt = a
                    /\ HomeOf(attempts[a].run) = w
StatusOwnsSlots(r) ==
    /\ runs[r].status \in WaitingStatuses \cup {"RUNNING", "RECOVERING"}
         => runs[r].attempt # None
    /\ ~Exists(r) \/ Terminal(r) => runs[r].attempt = None
OwnershipAgrees ==
    /\ \A r \in Runs : RunHoldsSlots(r) /\ StatusOwnsSlots(r)
    /\ \A s \in Sessions : SessionSlotHeld(s)
    /\ \A w \in Workspaces : WorkspaceSlotHeld(w)

\* Two sessions of one project share a workspace; still at most one attempt that has
\* not ended works in it, however claims, cancels and terminal writes interleave.
Live(a) == Created(a) /\ ~attempts[a].ended
OneWriterPerWorkspace ==
    \A a, b \in Attempts :
        Live(a) /\ Live(b) /\ HomeOf(attempts[a].run) = HomeOf(attempts[b].run) => a = b

\* workspace_epoch is a fencing token: attempts at one workspace never share one, and
\* the attempt that holds the workspace carries the workspace's current epoch.
FencingTokens ==
    /\ \A a, b \in Attempts :
         /\ Created(a) /\ Created(b) /\ a # b
         /\ HomeOf(attempts[a].run) = HomeOf(attempts[b].run)
         => attempts[a].wsEpoch # attempts[b].wsEpoch
    /\ \A w \in Workspaces :
         workspaces[w].attempt # None
           => attempts[workspaces[w].attempt].wsEpoch = workspaces[w].epoch

\* No attempt's revision overwrites another's unseen: revisions form one chain, and an
\* attempt's first revision extends the revision its claim recorded as its base.
ExtendsSeen(w, i) ==
    LET rev == revisions[w][i]
    IN  /\ rev.parent = i - 1
        /\ \/ i > 1 /\ revisions[w][i - 1].attempt = rev.attempt
           \/ attempts[rev.attempt].base = i - 1
NoLostUpdate ==
    \A w \in Workspaces : \A i \in DOMAIN revisions[w] : ExtendsSeen(w, i)

\* The inductive invariant behind the theorems of RunStoreProofs.
ForeignKeys ==
    /\ \A r \in Runs : Exists(r) => SessionOf(r) \in Sessions
    /\ \A a \in Attempts : Created(a) => Exists(attempts[a].run)
    /\ \A q \in Requests :
         cancels[q].pc # "idle" => cancels[q].run \in Runs /\ Exists(cancels[q].run)
LiveAttemptsHold ==
    \A a \in Attempts : Live(a) => runs[attempts[a].run].attempt = a
EpochsBounded ==
    \A a \in Attempts :
        Created(a) => attempts[a].wsEpoch <= workspaces[HomeOf(attempts[a].run)].epoch
\* The holder's base is the current revision until it commits; then it is the last writer.
SawTip(w) ==
    LET a == workspaces[w].attempt
        n == Len(revisions[w])
    IN  /\ workspaces[w].revision = n
        /\ a # None => \/ attempts[a].base = n
                       \/ n > 0 /\ revisions[w][n].attempt = a
HolderSawTip == \A w \in Workspaces : SawTip(w)
WrittenByCreated ==
    \A w \in Workspaces : \A i \in DOMAIN revisions[w] : Created(revisions[w][i].attempt)
\* Everything the proofs carry from state to state: rows refer to rows that exist, the
\* ownership columns agree, an attempt that has not ended still holds its run, epochs
\* only grow, and whoever holds a workspace knows its latest revision.
StoreInv ==
    /\ TypeOK
    /\ ForeignKeys
    /\ OwnershipAgrees
    /\ LiveAttemptsHold
    /\ EpochsBounded
    /\ FencingTokens
    /\ HolderSawTip
    /\ WrittenByCreated
    /\ NoLostUpdate

\* Messages of a session are executed in the order they were accepted: once a run has
\* been claimed, every earlier run of the session is over or owns nothing any more.
InOrderExecution ==
    \A r, p \in Runs :
        /\ Claimed(r) /\ Exists(p)
        /\ SessionOf(p) = SessionOf(r) /\ runs[p].seq < runs[r].seq
        => /\ runs[p].status \in TerminalStatuses \cup {"CANCELLING"}
           /\ runs[p].attempt = None

\* A retried request never creates a second run (the UNIQUE idempotency key).
OneRunPerKey ==
    \A r, p \in Runs :
        /\ Exists(r) /\ Exists(p)
        /\ SessionOf(r) = SessionOf(p) /\ runs[r].key = runs[p].key
        => r = p

\* The event log replays to the tables: events of a session and of each run are
\* numbered without gaps up to the counters in the rows, each state_version has exactly
\* one run-level event, and the last of them announces the row's status.
EventsOf(r)    == {i \in DOMAIN events[SessionOf(r)] : events[SessionOf(r)][i].run = r}
RunLog(r)      == {i \in EventsOf(r) : events[SessionOf(r)][i].type \in RunEventTypes}
UpTo(set, i)   == {j \in set : j <= i}
Announced(r)   == IF runs[r].version = 0 THEN "run.accepted" ELSE EventTypeOf(runs[r].status)
SessionReplays(s) ==
    /\ sessions[s].nextEvent = Len(events[s]) + 1
    /\ \A i \in DOMAIN events[s] : events[s][i].sessionSeq = i
RunReplays(r) ==
    LET log == events[SessionOf(r)]
    IN  /\ runs[r].nextEvent = Cardinality(EventsOf(r)) + 1
        /\ \A i \in EventsOf(r) : log[i].seq = Cardinality(UpTo(EventsOf(r), i))
        /\ Cardinality(RunLog(r)) = runs[r].version + 1
        /\ \E i \in RunLog(r) :
             log[i].type = Announced(r) /\ \A j \in RunLog(r) : j <= i
EventLogReplays ==
    /\ \A s \in Sessions : SessionReplays(s)
    /\ \A r \in Runs : Exists(r) => RunReplays(r)

\* Refinement: the tables implement an exclusive, fenced workspace lease.
PhaseOf(r) ==
    IF ~Exists(r) THEN "unborn"
    ELSE IF Terminal(r) THEN "done"
    ELSE IF runs[r].attempt # None THEN "held"
    ELSE "pending"
HolderOf(w) ==
    IF workspaces[w].attempt = None THEN None ELSE attempts[workspaces[w].attempt].run

Lease == INSTANCE WorkspaceLease WITH
             phase  <- [r \in Runs |-> PhaseOf(r)],
             home   <- [r \in Runs |-> IF Exists(r) THEN HomeOf(r) ELSE None],
             holder <- [w \in Workspaces |-> HolderOf(w)],
             fence  <- [w \in Workspaces |-> workspaces[w].epoch],
             tip    <- [w \in Workspaces |-> Len(revisions[w])]
ImplementsLease == Lease!Spec

\* A cancelled run that no worker owns is eventually over (cancel_run moves a queued
\* run to CANCELLING and then to CANCELLED).
QueuedCancelSettles ==
    \A r \in Runs :
        (runs[r].status = "CANCELLING" /\ runs[r].attempt = None) ~> Terminal(r)
=============================================================================
