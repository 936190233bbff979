--------------------------- MODULE RunStoreProofs ---------------------------
(***************************************************************************)
(* Proofs about RunStore, for every number of runs, sessions, workspaces,  *)
(* attempts and concurrent cancel requests.                                *)
(***************************************************************************)
EXTENDS RunStore, TLAPS

-----------------------------------------------------------------------------
\* Every status a transition may reach is a status, and its event is in the vocabulary.
LEMMA TransitionTargets ==
    ASSUME NEW s, NEW t \in AllowedTransitions(s)
    PROVE  t \in Statuses /\ EventTypeOf(t) \in EventTypes
BY DEF AllowedTransitions, Statuses, WaitingStatuses, TerminalStatuses, EventTypeOf,
       EventTypes, RunEventTypes

\* Logging a well-formed event keeps the event table well formed.
LEMMA LogEventType ==
    ASSUME TypeOK, NEW r \in Runs, NEW n \in Nat, NEW s \in Sessions, NEW t \in EventTypes,
           LogEvent(r, n, s, t)
    PROVE  events' \in [Sessions -> Seq(EventRow)]
<1>1. sessions[s].nextEvent \in Nat
  BY DEF TypeOK, SessionRow
<1>2. EventFor(r, n, s, t) \in EventRow
  BY <1>1 DEF EventFor, EventRow
<1>3. Append(events[s], EventFor(r, n, s, t)) \in Seq(EventRow)
  BY <1>2 DEF TypeOK
<1> QED
  BY <1>3 DEF LogEvent, TypeOK

-----------------------------------------------------------------------------
(***************************************************************************)
(* Row updates.  Each says that one method's assignments to a row, with    *)
(* values of the right types, leave a row of the table.                    *)
(***************************************************************************)

\* accept_once on a session row.
LEMMA AcceptedIntoRow ==
    ASSUME NEW row \in SessionRow
    PROVE  /\ AcceptedInto(row) \in SessionRow
           /\ AcceptedInto(row) =
                 [activeRun |-> row.activeRun, epoch |-> row.epoch,
                  nextSeq |-> row.nextSeq + 1, nextEvent |-> row.nextEvent + 1]
<1> DEFINE result ==
             [activeRun |-> row.activeRun, epoch |-> row.epoch,
              nextSeq |-> row.nextSeq + 1, nextEvent |-> row.nextEvent + 1]
<1>1. ASSUME NEW new, new = AcceptedInto(row)
      PROVE  new = result
  BY <1>1 DEF AcceptedInto, SessionRow
<1>2. result \in SessionRow
  BY DEF SessionRow
<1> QED
  BY <1>1, <1>2

\* claim_next_run on a run row.
LEMMA StartedRunRow ==
    ASSUME NEW row \in RunRow, NEW a \in Attempts
    PROVE  /\ StartedRun(row, a) \in RunRow
           /\ StartedRun(row, a) =
                 [status |-> "RUNNING", version |-> row.version + 1,
                  session |-> row.session, seq |-> row.seq, key |-> row.key,
                  attempt |-> a, outcome |-> row.outcome,
                  nextEvent |-> row.nextEvent + 1, progress |-> row.progress]
<1> DEFINE result ==
             [status |-> "RUNNING", version |-> row.version + 1,
              session |-> row.session, seq |-> row.seq, key |-> row.key, attempt |-> a,
              outcome |-> row.outcome, nextEvent |-> row.nextEvent + 1,
              progress |-> row.progress]
<1>1. ASSUME NEW new, new = StartedRun(row, a)
      PROVE  new = result
  BY <1>1 DEF StartedRun, RunRow
<1>2. result \in RunRow
  BY DEF RunRow, Statuses
<1> QED
  BY <1>1, <1>2

\* claim_next_run on a session row.
LEMMA TakenSessionRow ==
    ASSUME NEW row \in SessionRow, NEW r \in Runs
    PROVE  /\ TakenSession(row, r) \in SessionRow
           /\ TakenSession(row, r) =
                 [activeRun |-> r, epoch |-> row.epoch + 1, nextSeq |-> row.nextSeq,
                  nextEvent |-> row.nextEvent + 1]
<1> DEFINE result ==
             [activeRun |-> r, epoch |-> row.epoch + 1, nextSeq |-> row.nextSeq,
              nextEvent |-> row.nextEvent + 1]
<1>1. ASSUME NEW new, new = TakenSession(row, r)
      PROVE  new = result
  BY <1>1 DEF TakenSession, SessionRow
<1>2. result \in SessionRow
  BY DEF SessionRow
<1> QED
  BY <1>1, <1>2

\* claim_next_run on a workspace row.
LEMMA TakenWorkspaceRow ==
    ASSUME NEW row \in WorkspaceRow, NEW a \in Attempts
    PROVE  /\ TakenWorkspace(row, a) \in WorkspaceRow
           /\ TakenWorkspace(row, a) =
                 [attempt |-> a, epoch |-> row.epoch + 1, lease |-> "held",
                  revision |-> row.revision]
<1> DEFINE result ==
             [attempt |-> a, epoch |-> row.epoch + 1, lease |-> "held",
              revision |-> row.revision]
<1>1. ASSUME NEW new, new = TakenWorkspace(row, a)
      PROVE  new = result
  BY <1>1 DEF TakenWorkspace, WorkspaceRow, NextEpoch
<1>2. result \in WorkspaceRow
  BY DEF WorkspaceRow, NextEpoch, LeaseStates
<1> QED
  BY <1>1, <1>2

\* transition_run on a run row.
LEMMA MovedRunRow ==
    ASSUME NEW row \in RunRow, NEW t \in Statuses, NEW o \in Outcomes \cup {None}
    PROVE  /\ MovedRun(row, t, o) \in RunRow
           /\ MovedRun(row, t, o) =
                 [status |-> t, version |-> row.version + 1, session |-> row.session,
                  seq |-> row.seq, key |-> row.key,
                  attempt |-> IF t \in TerminalStatuses THEN None ELSE row.attempt,
                  outcome |-> o, nextEvent |-> row.nextEvent + 1,
                  progress |-> row.progress]
<1> DEFINE result ==
             [status |-> t, version |-> row.version + 1, session |-> row.session,
              seq |-> row.seq, key |-> row.key,
              attempt |-> IF t \in TerminalStatuses THEN None ELSE row.attempt,
              outcome |-> o, nextEvent |-> row.nextEvent + 1, progress |-> row.progress]
<1>1. ASSUME NEW new, new = MovedRun(row, t, o)
      PROVE  new = result
  BY <1>1 DEF MovedRun, RunRow
<1>2. result \in RunRow
  BY DEF RunRow
<1> QED
  BY <1>1, <1>2

\* transition_run on a session row.
LEMMA MovedSessionRow ==
    ASSUME NEW row \in SessionRow, NEW r \in Runs, NEW t
    PROVE  /\ MovedSession(row, r, t) \in SessionRow
           /\ MovedSession(row, r, t) =
                 [activeRun |-> IF t \in TerminalStatuses THEN Vacated(row.activeRun, r) ELSE row.activeRun,
                  epoch |-> row.epoch, nextSeq |-> row.nextSeq,
                  nextEvent |-> row.nextEvent + 1]
<1> DEFINE result ==
             [activeRun |-> IF t \in TerminalStatuses THEN Vacated(row.activeRun, r) ELSE row.activeRun,
              epoch |-> row.epoch, nextSeq |-> row.nextSeq,
              nextEvent |-> row.nextEvent + 1]
<1>1. ASSUME NEW new, new = MovedSession(row, r, t)
      PROVE  new = result
  BY <1>1 DEF MovedSession, SessionRow, Vacated
<1>2. result \in SessionRow
  BY DEF SessionRow, Vacated
<1> QED
  BY <1>1, <1>2

\* transition_run on the workspace row of a finished run.
LEMMA FreedWorkspaceRow ==
    ASSUME NEW row \in WorkspaceRow
    PROVE  /\ FreedWorkspace(row) \in WorkspaceRow
           /\ FreedWorkspace(row) =
                 [attempt |-> None, epoch |-> row.epoch, lease |-> "none",
                  revision |-> row.revision]
<1> DEFINE result ==
             [attempt |-> None, epoch |-> row.epoch, lease |-> "none",
              revision |-> row.revision]
<1>1. ASSUME NEW new, new = FreedWorkspace(row)
      PROVE  new = result
  BY <1>1 DEF FreedWorkspace, WorkspaceRow
<1>2. result \in WorkspaceRow
  BY DEF WorkspaceRow, LeaseStates
<1> QED
  BY <1>1, <1>2

\* transition_run on the attempt row of a finished run.
LEMMA EndedAttemptRow ==
    ASSUME NEW row \in AttemptRow
    PROVE  /\ EndedAttempt(row) \in AttemptRow
           /\ EndedAttempt(row) =
                 [run |-> row.run, epoch |-> row.epoch, wsEpoch |-> row.wsEpoch,
                  base |-> row.base, ended |-> TRUE]
<1> DEFINE result ==
             [run |-> row.run, epoch |-> row.epoch, wsEpoch |-> row.wsEpoch,
              base |-> row.base, ended |-> TRUE]
<1>1. ASSUME NEW new, new = EndedAttempt(row)
      PROVE  new = result
  BY <1>1 DEF EndedAttempt, AttemptRow
<1>2. result \in AttemptRow
  BY DEF AttemptRow
<1> QED
  BY <1>1, <1>2

\* cancel_run on its own state.
LEMMA RequestedRow ==
    ASSUME NEW row \in CancelRow, NEW v \in Nat
    PROVE  /\ Requested(row, v) \in CancelRow
           /\ Requested(row, v) =
                 [pc |-> "requested", run |-> row.run, version |-> v,
                  queued |-> row.queued]
<1> DEFINE result ==
             [pc |-> "requested", run |-> row.run, version |-> v, queued |-> row.queued]
<1>1. ASSUME NEW new, new = Requested(row, v)
      PROVE  new = result
  BY <1>1 DEF Requested, CancelRow
<1>2. result \in CancelRow
  BY DEF CancelRow
<1> QED
  BY <1>1, <1>2

\* record_workspace_revision on a workspace row.
LEMMA AtRevisionRow ==
    ASSUME NEW row \in WorkspaceRow, NEW n \in Nat
    PROVE  /\ AtRevision(row, n) \in WorkspaceRow
           /\ AtRevision(row, n) =
                 [attempt |-> row.attempt, epoch |-> row.epoch, lease |-> row.lease,
                  revision |-> n]
<1> DEFINE result ==
             [attempt |-> row.attempt, epoch |-> row.epoch, lease |-> row.lease,
              revision |-> n]
<1>1. ASSUME NEW new, new = AtRevision(row, n)
      PROVE  new = result
  BY <1>1 DEF AtRevision, WorkspaceRow
<1>2. result \in WorkspaceRow
  BY DEF WorkspaceRow
<1> QED
  BY <1>1, <1>2

\* append_event on a run row.
LEMMA ProgressedRunRow ==
    ASSUME NEW row \in RunRow
    PROVE  /\ ProgressedRun(row) \in RunRow
           /\ ProgressedRun(row) =
                 [status |-> row.status, version |-> row.version,
                  session |-> row.session, seq |-> row.seq, key |-> row.key,
                  attempt |-> row.attempt, outcome |-> row.outcome,
                  nextEvent |-> row.nextEvent + 1, progress |-> row.progress + 1]
<1> DEFINE result ==
             [status |-> row.status, version |-> row.version, session |-> row.session,
              seq |-> row.seq, key |-> row.key, attempt |-> row.attempt,
              outcome |-> row.outcome, nextEvent |-> row.nextEvent + 1,
              progress |-> row.progress + 1]
<1>1. ASSUME NEW new, new = ProgressedRun(row)
      PROVE  new = result
  BY <1>1 DEF ProgressedRun, RunRow
<1>2. result \in RunRow
  BY DEF RunRow
<1> QED
  BY <1>1, <1>2

\* append_event on a session row.
LEMMA LoggedSessionRow ==
    ASSUME NEW row \in SessionRow
    PROVE  /\ LoggedSession(row) \in SessionRow
           /\ LoggedSession(row) =
                 [activeRun |-> row.activeRun, epoch |-> row.epoch,
                  nextSeq |-> row.nextSeq, nextEvent |-> row.nextEvent + 1]
<1> DEFINE result ==
             [activeRun |-> row.activeRun, epoch |-> row.epoch, nextSeq |-> row.nextSeq,
              nextEvent |-> row.nextEvent + 1]
<1>1. ASSUME NEW new, new = LoggedSession(row)
      PROVE  new = result
  BY <1>1 DEF LoggedSession, SessionRow
<1>2. result \in SessionRow
  BY DEF SessionRow
<1> QED
  BY <1>1, <1>2

\* lease_until passing on a workspace row.
LEMMA ExpiredLeaseRow ==
    ASSUME NEW row \in WorkspaceRow
    PROVE  /\ ExpiredLease(row) \in WorkspaceRow
           /\ ExpiredLease(row) =
                 [attempt |-> row.attempt, epoch |-> row.epoch, lease |-> "expired",
                  revision |-> row.revision]
<1> DEFINE result ==
             [attempt |-> row.attempt, epoch |-> row.epoch, lease |-> "expired",
              revision |-> row.revision]
<1>1. ASSUME NEW new, new = ExpiredLease(row)
      PROVE  new = result
  BY <1>1 DEF ExpiredLease, WorkspaceRow
<1>2. result \in WorkspaceRow
  BY DEF WorkspaceRow, LeaseStates
<1> QED
  BY <1>1, <1>2

-----------------------------------------------------------------------------
(***************************************************************************)
(* Whoever calls.  The lemmas are about any caller of the store: the       *)
(* arguments that Next bounds by Targets and RejectModes are free, a       *)
(* caller may pass any version, and threads may vanish at any time.  So    *)
(* they serve the worker of Runtime and the clients of SessionStream too.  *)
(***************************************************************************)
ThreadsDie == cancels' = [q \in Requests |-> Idle] /\ UNCHANGED tables
AnyCall ==
    \/ \E r \in Runs, s \in Sessions, k \in Keys, b \in BOOLEAN : AcceptOnce(r, s, k, b)
    \/ \E r \in Runs, a \in Attempts : ClaimNextRun(r, a)
    \/ \E r \in Runs, v \in Nat, t \in Statuses \ {"RUNNING"}, o \in Outcomes \cup {None} :
          Transition(r, v, t, o) /\ UNCHANGED cancels
    \/ \E q \in Requests, r \in Runs : CancelRead(q, r)
    \/ \E q \in Requests : CancelRequest(q) \/ CancelFinish(q) \/ CancelConflict(q)
    \/ \E a \in Attempts : RecordWorkspaceRevision(a)
    \/ \E r \in Runs : AppendEvent(r)
    \/ \E w \in Workspaces : LeaseExpires(w)
    \/ ThreadsDie

\* Every step of RunStore is such a call.
LEMMA NextIsAnyCall ==
    ASSUME TypeOK, [Next]_vars
    PROVE  [AnyCall]_vars
<1>1. ASSUME NEW r \in Runs, NEW t \in Targets, NEW o \in Outcomes \cup {None},
             TransitionRun(r, t, o)
      PROVE  AnyCall
  <2>1. runs[r].version \in Nat /\ t \in Statuses \ {"RUNNING"}
    BY TargetsAssumption DEF TypeOK, RunRow
  <2> QED
    BY <1>1, <2>1 DEF TransitionRun, AnyCall
<1>2. ASSUME NEW r \in Runs, NEW s \in Sessions, NEW k \in Keys, NEW b \in RejectModes,
             AcceptOnce(r, s, k, b)
      PROVE  AnyCall
  BY <1>2, RejectModesAssumption DEF AnyCall
<1>3. CASE Restart
  BY <1>3 DEF Restart, ThreadsDie, AnyCall
<1>4. CASE NextUp
  BY <1>4, <1>1, <1>2 DEF NextUp, AnyCall
<1> QED
  BY <1>3, <1>4 DEF Next

-----------------------------------------------------------------------------
(***************************************************************************)
(* Types and foreign keys.                                                 *)
(***************************************************************************)

\* accept_once inserts a well-formed row that belongs to a session.
LEMMA AcceptOnceTypes ==
    ASSUME TypeOK, ForeignKeys, NEW r \in Runs, NEW s \in Sessions, NEW k \in Keys,
           NEW b \in BOOLEAN, AcceptOnce(r, s, k, b)
    PROVE  TypeOK' /\ ForeignKeys'
<1>1. /\ InsertedRun(s, k) \in RunRow
      /\ InsertedRun(s, k).status = "QUEUED"
      /\ InsertedRun(s, k).session = s
  <2>1. ASSUME NEW new, new = InsertedRun(s, k)
        PROVE  new = [status |-> "QUEUED", version |-> 0, session |-> s,
                      seq |-> sessions[s].nextSeq, key |-> k, attempt |-> None,
                      outcome |-> None, nextEvent |-> 2, progress |-> 0]
    BY <2>1 DEF InsertedRun, NoRun
  <2>2. sessions[s].nextSeq \in Nat
    BY DEF TypeOK, SessionRow
  <2> QED
    BY <2>1, <2>2 DEF RunRow, Statuses
<1>2. AcceptedInto(sessions[s]) \in SessionRow
  BY AcceptedIntoRow DEF TypeOK
<1>3. runs' \in [Runs -> RunRow] /\ sessions' \in [Sessions -> SessionRow]
  BY <1>1, <1>2 DEF TypeOK, AcceptOnce
<1>4. events' \in [Sessions -> Seq(EventRow)]
  BY LogEventType DEF AcceptOnce, EventTypes, RunEventTypes
<1>5. TypeOK'
  BY <1>3, <1>4 DEF TypeOK, AcceptOnce
<1>6. \A p \in Runs : Exists(p)' => SessionOf(p)' \in Sessions
  BY <1>1 DEF AcceptOnce, Exists, SessionOf, ForeignKeys, TypeOK
<1>7. \A p \in Runs : Exists(p) => Exists(p)'
  BY <1>1 DEF AcceptOnce, Exists, TypeOK
<1>8. ForeignKeys'
  BY <1>6, <1>7 DEF ForeignKeys, AcceptOnce, TypeOK, AttemptRow, Created
<1> QED
  BY <1>5, <1>8

\* claim_next_run inserts an attempt of an existing run and updates the three owners.
LEMMA ClaimNextRunTypes ==
    ASSUME TypeOK, ForeignKeys, NEW r \in Runs, NEW a \in Attempts, ClaimNextRun(r, a)
    PROVE  TypeOK' /\ ForeignKeys'
<1> DEFINE s == SessionOf(r)
           w == HomeOf(r)
<1>1. Exists(r) /\ s \in Sessions /\ w \in Workspaces
  BY WorkspaceOfAssumption DEF ClaimNextRun, Claimable, Exists, ForeignKeys, HomeOf
<1>2. /\ StartedRun(runs[r], a) \in RunRow
      /\ StartedRun(runs[r], a).status = "RUNNING"
      /\ StartedRun(runs[r], a).session = runs[r].session
  BY StartedRunRow DEF TypeOK
<1>3. TakenSession(sessions[s], r) \in SessionRow
  BY <1>1, TakenSessionRow DEF TypeOK
<1>4. TakenWorkspace(workspaces[w], a) \in WorkspaceRow
  BY <1>1, TakenWorkspaceRow DEF TypeOK
<1>5. NewAttempt(r, s, w) \in AttemptRow /\ NewAttempt(r, s, w).run = r
  BY <1>1 DEF NewAttempt, NextEpoch, AttemptRow, TypeOK, SessionRow, WorkspaceRow
<1>6. events' \in [Sessions -> Seq(EventRow)]
  BY <1>1, LogEventType DEF ClaimNextRun, EventTypes, RunEventTypes, TypeOK, RunRow
<1>7. TypeOK'
  BY <1>2, <1>3, <1>4, <1>5, <1>6 DEF TypeOK, ClaimNextRun
<1>8. \A p \in Runs : SessionOf(p)' = SessionOf(p) /\ (Exists(p)' <=> Exists(p))
  BY <1>1, <1>2 DEF ClaimNextRun, SessionOf, Exists, TypeOK
<1>9. \A b \in Attempts : attempts'[b].run \in {r, attempts[b].run}
  BY <1>5 DEF ClaimNextRun, TypeOK
<1>10. ForeignKeys'
  BY <1>1, <1>8, <1>9 DEF ForeignKeys, ClaimNextRun, TypeOK, AttemptRow, Created
<1> QED
  BY <1>7, <1>10

\* A successful transition keeps every table well formed and moves no row elsewhere.
LEMMA TransitionTypes ==
    ASSUME TypeOK, ForeignKeys, NEW r \in Runs, NEW v, NEW t,
           NEW o \in Outcomes \cup {None}, Transition(r, v, t, o),
           cancels' \in [Requests -> CancelRow],
           \A q \in Requests : cancels'[q].pc # "idle" =>
               cancels[q].pc # "idle" /\ cancels'[q].run = cancels[q].run
    PROVE  TypeOK' /\ ForeignKeys'
<1> DEFINE s == SessionOf(r)
           w == HomeOf(r)
           a == runs[r].attempt
<1>1. Exists(r) /\ s \in Sessions /\ w \in Workspaces
  BY WorkspaceOfAssumption DEF Transition, ForeignKeys, HomeOf
<1>2. t \in Statuses /\ EventTypeOf(t) \in EventTypes
  BY TransitionTargets DEF Transition
<1>3. /\ MovedRun(runs[r], t, o) \in RunRow
      /\ MovedRun(runs[r], t, o).status = t
      /\ MovedRun(runs[r], t, o).session = runs[r].session
  BY <1>2, MovedRunRow DEF TypeOK
<1>4. MovedSession(sessions[s], r, t) \in SessionRow
  BY <1>1, MovedSessionRow DEF TypeOK
<1>5. FreedWorkspace(workspaces[w]) \in WorkspaceRow
  BY <1>1, FreedWorkspaceRow DEF TypeOK
<1>6. a \in Attempts =>
        EndedAttempt(attempts[a]) \in AttemptRow /\ EndedAttempt(attempts[a]).run = attempts[a].run
  BY EndedAttemptRow DEF TypeOK
<1>7. a \in Attempts \cup {None}
  BY DEF TypeOK, RunRow
<1>8. events' \in [Sessions -> Seq(EventRow)]
  BY <1>1, <1>2, LogEventType DEF Transition, TypeOK, RunRow
<1>9. attempts' \in [Attempts -> AttemptRow]
  BY <1>6, <1>7 DEF TypeOK, Transition
<1>10. workspaces' \in [Workspaces -> WorkspaceRow]
  BY <1>5 DEF TypeOK, Transition
<1>11. TypeOK'
  BY <1>3, <1>4, <1>8, <1>9, <1>10 DEF TypeOK, Transition
<1>12. \A p \in Runs : SessionOf(p)' = SessionOf(p) /\ (Exists(p)' <=> Exists(p))
  BY <1>1, <1>2, <1>3 DEF Transition, SessionOf, Exists, TypeOK, Statuses
<1>13. \A b \in Attempts : attempts'[b].run = attempts[b].run
  BY <1>6, <1>7 DEF Transition, TypeOK
<1>14. ForeignKeys'
  BY <1>12, <1>13 DEF ForeignKeys, TypeOK, AttemptRow, Created
<1> QED
  BY <1>11, <1>14

\* The three steps of cancel_run that only move the request itself.
LEMMA CancelReadTypes ==
    ASSUME TypeOK, ForeignKeys, NEW q \in Requests, NEW r \in Runs, CancelRead(q, r)
    PROVE  TypeOK' /\ ForeignKeys'
<1>1. [pc |-> "read", run |-> r, version |-> runs[r].version,
       queued |-> ReadAsQueued(r)] \in CancelRow
  BY DEF CancelRow, TypeOK, RunRow, ReadAsQueued
<1>2. TypeOK'
  BY <1>1 DEF CancelRead, tables, TypeOK
<1>3. ForeignKeys'
  BY DEF CancelRead, tables, ForeignKeys, TypeOK, Exists, Created, SessionOf
<1> QED
  BY <1>2, <1>3

\* A request that ends leaves an idle slot.
LEMMA IdleRow == Idle \in CancelRow /\ Idle.pc = "idle"
BY DEF Idle, CancelRow

\* cancel_run's first transaction moves one run to CANCELLING: the rows stay well formed.
LEMMA CancelRequestTypes ==
    ASSUME TypeOK, ForeignKeys, NEW q \in Requests, CancelRequest(q)
    PROVE  TypeOK' /\ ForeignKeys'
<1> DEFINE c == cancels[q]
           v == runs[c.run].version + 1
<1>1. c \in CancelRow /\ c.pc = "read" /\ c.run \in Runs /\ v \in Nat
  BY DEF TypeOK, ForeignKeys, CancelRequest, RunRow
<1>2. Requested(c, v) \in CancelRow /\ Requested(c, v).run = c.run
  BY <1>1, RequestedRow
<1>3. cancels' = [cancels EXCEPT ![q] = IF c.queued THEN Requested(c, v) ELSE Idle]
  BY DEF CancelRequest
<1>4. cancels' \in [Requests -> CancelRow]
  BY <1>2, <1>3, IdleRow DEF TypeOK
<1>5. \A p \in Requests : cancels'[p].pc # "idle" =>
          cancels[p].pc # "idle" /\ cancels'[p].run = cancels[p].run
  BY <1>1, <1>2, <1>3, IdleRow DEF TypeOK
<1>6. Transition(c.run, c.version, "CANCELLING", None)
  BY DEF CancelRequest
<1> QED
  BY <1>1, <1>4, <1>5, <1>6, TransitionTypes

\* cancel_run's second transaction ends the run with CANCELLED: the rows stay well formed.
LEMMA CancelFinishTypes ==
    ASSUME TypeOK, ForeignKeys, NEW q \in Requests, CancelFinish(q)
    PROVE  TypeOK' /\ ForeignKeys'
<1> DEFINE c == cancels[q]
<1>1. c \in CancelRow /\ c.pc = "requested" /\ c.run \in Runs
  BY DEF TypeOK, ForeignKeys, CancelFinish
<1>2. cancels' = [cancels EXCEPT ![q] = Idle]
  BY DEF CancelFinish
<1>3. cancels' \in [Requests -> CancelRow]
  BY <1>2, IdleRow DEF TypeOK
<1>4. \A p \in Requests : cancels'[p].pc # "idle" =>
          cancels[p].pc # "idle" /\ cancels'[p].run = cancels[p].run
  BY <1>2, IdleRow DEF TypeOK
<1>5. Transition(c.run, c.version, "CANCELLED", None)
  BY DEF CancelFinish
<1> QED
  BY <1>1, <1>3, <1>4, <1>5, TransitionTypes

\* A refused cancel_run writes nothing: only its thread goes back to idle.
LEMMA CancelConflictTypes ==
    ASSUME TypeOK, ForeignKeys, NEW q \in Requests, CancelConflict(q)
    PROVE  TypeOK' /\ ForeignKeys'
<1>1. TypeOK'
  BY IdleRow DEF CancelConflict, tables, TypeOK
<1>2. ForeignKeys'
  BY IdleRow DEF CancelConflict, tables, ForeignKeys, TypeOK, Exists, Created, SessionOf
<1> QED
  BY <1>1, <1>2

\* Process death clears the request threads and nothing else.
LEMMA ThreadsDieTypes ==
    ASSUME TypeOK, ForeignKeys, ThreadsDie
    PROVE  TypeOK' /\ ForeignKeys'
<1>1. TypeOK'
  BY IdleRow DEF ThreadsDie, tables, TypeOK
<1>2. ForeignKeys'
  BY IdleRow DEF ThreadsDie, tables, ForeignKeys, TypeOK, Exists, Created, SessionOf
<1> QED
  BY <1>1, <1>2

\* The three operations that touch neither a run's status nor its attempt.
LEMMA RecordWorkspaceRevisionTypes ==
    ASSUME TypeOK, ForeignKeys, NEW a \in Attempts, RecordWorkspaceRevision(a)
    PROVE  TypeOK' /\ ForeignKeys'
<1> DEFINE w == HomeOf(attempts[a].run)
           rev == [attempt |-> a, parent |-> workspaces[w].revision]
<1>1. attempts[a].run \in Runs
  BY DEF RecordWorkspaceRevision, Created, TypeOK, AttemptRow
<1>2. w \in Workspaces
  BY <1>1, WorkspaceOfAssumption DEF RecordWorkspaceRevision, ForeignKeys, HomeOf
<1>3. rev \in RevisionRow
  BY <1>2 DEF RevisionRow, TypeOK, WorkspaceRow
<1>4. Append(revisions[w], rev) \in Seq(RevisionRow) /\ Len(revisions[w]) + 1 \in Nat
  BY <1>2, <1>3 DEF TypeOK
<1>5. AtRevision(workspaces[w], Len(revisions[w]) + 1) \in WorkspaceRow
  BY <1>2, <1>4, AtRevisionRow DEF TypeOK
<1>6. TypeOK'
  BY <1>4, <1>5 DEF RecordWorkspaceRevision, TypeOK
<1>7. ForeignKeys'
  BY DEF RecordWorkspaceRevision, ForeignKeys, Exists, Created, SessionOf
<1> QED
  BY <1>6, <1>7

\* append_event advances two counters and appends one well-formed event.
LEMMA AppendEventTypes ==
    ASSUME TypeOK, ForeignKeys, NEW r \in Runs, AppendEvent(r)
    PROVE  TypeOK' /\ ForeignKeys'
<1> DEFINE s == SessionOf(r)
<1>1. s \in Sessions
  BY DEF AppendEvent, ForeignKeys
<1>2. /\ ProgressedRun(runs[r]) \in RunRow
      /\ ProgressedRun(runs[r]).status = runs[r].status
      /\ ProgressedRun(runs[r]).session = runs[r].session
  BY ProgressedRunRow DEF TypeOK
<1>3. LoggedSession(sessions[s]) \in SessionRow
  BY <1>1, LoggedSessionRow DEF TypeOK
<1>4. events' \in [Sessions -> Seq(EventRow)]
  BY <1>1, LogEventType DEF AppendEvent, EventTypes, TypeOK, RunRow
<1>5. TypeOK'
  BY <1>2, <1>3, <1>4 DEF AppendEvent, TypeOK
<1>6. \A p \in Runs : SessionOf(p)' = SessionOf(p) /\ (Exists(p)' <=> Exists(p))
  BY <1>2 DEF AppendEvent, SessionOf, Exists, TypeOK
<1>7. ForeignKeys'
  BY <1>6 DEF ForeignKeys, AppendEvent, TypeOK, AttemptRow, CancelRow, Created
<1> QED
  BY <1>5, <1>7

\* Time passing touches the lease column of one workspace only.
LEMMA LeaseExpiresTypes ==
    ASSUME TypeOK, ForeignKeys, NEW w \in Workspaces, LeaseExpires(w)
    PROVE  TypeOK' /\ ForeignKeys'
<1>1. ExpiredLease(workspaces[w]) \in WorkspaceRow
  BY ExpiredLeaseRow DEF TypeOK
<1>2. TypeOK'
  BY <1>1 DEF LeaseExpires, TypeOK
<1>3. ForeignKeys'
  BY DEF LeaseExpires, ForeignKeys, Exists, Created, SessionOf
<1> QED
  BY <1>2, <1>3

-----------------------------------------------------------------------------
\* The tables start well formed ...
LEMMA InitTypes == Init => TypeOK /\ ForeignKeys
<1> SUFFICES ASSUME Init
             PROVE  TypeOK /\ ForeignKeys
  OBVIOUS
<1>1. NoRun \in RunRow /\ NoRun.status = "ABSENT"
  BY DEF NoRun, RunRow
<1>2. NoAttempt \in AttemptRow /\ NoAttempt.run = None
  BY DEF NoAttempt, AttemptRow
<1>3. [activeRun |-> None, epoch |-> 0, nextSeq |-> 1, nextEvent |-> 1] \in SessionRow
  BY DEF SessionRow
<1>4. [attempt |-> None, epoch |-> 0, lease |-> "none", revision |-> 0] \in WorkspaceRow
  BY DEF WorkspaceRow, LeaseStates
<1>5. TypeOK
  BY <1>1, <1>2, <1>3, <1>4, IdleRow DEF Init, TypeOK
<1>6. ForeignKeys
  BY <1>1, <1>2, IdleRow DEF Init, ForeignKeys, Exists, Created
<1> QED
  BY <1>5, <1>6

\* ... and every method keeps them so.
LEMMA NextTypes ==
    ASSUME TypeOK, ForeignKeys, [AnyCall]_vars
    PROVE  TypeOK' /\ ForeignKeys'
<1>1. ASSUME NEW r \in Runs, NEW s \in Sessions, NEW k \in Keys, NEW b \in BOOLEAN,
             AcceptOnce(r, s, k, b)
      PROVE  TypeOK' /\ ForeignKeys'
  BY <1>1, AcceptOnceTypes
<1>2. ASSUME NEW r \in Runs, NEW a \in Attempts, ClaimNextRun(r, a)
      PROVE  TypeOK' /\ ForeignKeys'
  BY <1>2, ClaimNextRunTypes
<1>3. ASSUME NEW r \in Runs, NEW v \in Nat, NEW t \in Statuses \ {"RUNNING"},
             NEW o \in Outcomes \cup {None}, Transition(r, v, t, o), UNCHANGED cancels
      PROVE  TypeOK' /\ ForeignKeys'
  <2>1. cancels' \in [Requests -> CancelRow]
    BY <1>3 DEF TypeOK
  <2> QED
    BY <1>3, <2>1, TransitionTypes
<1>4. ASSUME NEW q \in Requests, NEW r \in Runs, CancelRead(q, r)
      PROVE  TypeOK' /\ ForeignKeys'
  BY <1>4, CancelReadTypes
<1>5. ASSUME NEW q \in Requests, CancelRequest(q) \/ CancelFinish(q) \/ CancelConflict(q)
      PROVE  TypeOK' /\ ForeignKeys'
  BY <1>5, CancelRequestTypes, CancelFinishTypes, CancelConflictTypes
<1>6. ASSUME NEW a \in Attempts, RecordWorkspaceRevision(a)
      PROVE  TypeOK' /\ ForeignKeys'
  BY <1>6, RecordWorkspaceRevisionTypes
<1>7. ASSUME NEW r \in Runs, AppendEvent(r)
      PROVE  TypeOK' /\ ForeignKeys'
  BY <1>7, AppendEventTypes
<1>8. ASSUME NEW w \in Workspaces, LeaseExpires(w)
      PROVE  TypeOK' /\ ForeignKeys'
  BY <1>8, LeaseExpiresTypes
<1>9. CASE ThreadsDie
  BY <1>9, ThreadsDieTypes
<1>10. CASE UNCHANGED vars
  BY <1>10 DEF vars, TypeOK, ForeignKeys, Exists, Created, SessionOf
<1> QED
  BY <1>1, <1>2, <1>3, <1>4, <1>5, <1>6, <1>7, <1>8, <1>9, <1>10 DEF AnyCall

\* Whatever the callers do and wherever the process dies, every table holds well-formed
\* rows and no row refers to one that does not exist.
THEOREM TypeCorrect == Spec => [](TypeOK /\ ForeignKeys)
<1>1. TypeOK /\ ForeignKeys /\ [Next]_vars => (TypeOK /\ ForeignKeys)'
  BY NextTypes, NextIsAnyCall
<1> QED
  BY <1>1, InitTypes, PTL DEF Spec
=============================================================================
