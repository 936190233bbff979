--------------------------- MODULE RunStoreSafety ---------------------------
(***************************************************************************)
(* The safety theorems of RunStore.  First what each method does to the    *)
(* columns that say who executes (the effect lemmas), then ownership, the  *)
(* fencing epochs, the revision chain, and the refinement of               *)
(* WorkspaceLease; then the order of messages, retried requests, and the   *)
(* event log, which rest on columns of a run that no method writes twice.  *)
(***************************************************************************)
EXTENDS RunStoreProofs, FiniteSetTheorems

-----------------------------------------------------------------------------
\* The columns of a run that ownership depends on.
SameRun(p) ==
    /\ runs'[p].status = runs[p].status
    /\ runs'[p].session = runs[p].session
    /\ runs'[p].attempt = runs[p].attempt

\* The columns of a workspace, its lease and revision aside.
SameHolder(w) ==
    /\ workspaces'[w].attempt = workspaces[w].attempt
    /\ workspaces'[w].epoch = workspaces[w].epoch

\* A step that changes nobody's right to execute.
Frame ==
    /\ \A p \in Runs : SameRun(p)
    /\ \A s \in Sessions : sessions'[s].activeRun = sessions[s].activeRun
    /\ \A w \in Workspaces : SameHolder(w)
    /\ attempts' = attempts

\* The methods that are such steps.
LEMMA FrameSteps ==
    ASSUME TypeOK, ForeignKeys,
           \/ \E q \in Requests, r \in Runs : CancelRead(q, r)
           \/ \E q \in Requests : CancelConflict(q)
           \/ \E a \in Attempts : RecordWorkspaceRevision(a)
           \/ \E r \in Runs : AppendEvent(r)
           \/ \E w \in Workspaces : LeaseExpires(w)
           \/ ThreadsDie
           \/ UNCHANGED vars
    PROVE  Frame
<1>1. CASE UNCHANGED tables
  BY <1>1 DEF tables, Frame, SameRun, SameHolder
<1>2. ASSUME NEW a \in Attempts, RecordWorkspaceRevision(a)
      PROVE  Frame
  <2> DEFINE w == HomeOf(attempts[a].run)
             n == Len(revisions[w]) + 1
  <2>1. attempts[a].run \in Runs
    BY <1>2 DEF RecordWorkspaceRevision, Created, TypeOK, AttemptRow
  <2>2. w \in Workspaces
    BY <1>2, <2>1, WorkspaceOfAssumption
    DEF RecordWorkspaceRevision, ForeignKeys, HomeOf
  <2>3. n \in Nat
    BY <2>2 DEF TypeOK
  <2>4. /\ AtRevision(workspaces[w], n).attempt = workspaces[w].attempt
        /\ AtRevision(workspaces[w], n).epoch = workspaces[w].epoch
    BY <2>2, <2>3, AtRevisionRow DEF TypeOK
  <2> QED
    BY <1>2, <2>4 DEF RecordWorkspaceRevision, Frame, SameRun, SameHolder, TypeOK
<1>3. ASSUME NEW r \in Runs, AppendEvent(r)
      PROVE  Frame
  <2> DEFINE s == SessionOf(r)
  <2>1. s \in Sessions
    BY <1>3 DEF AppendEvent, ForeignKeys
  <2>2. /\ ProgressedRun(runs[r]).status = runs[r].status
        /\ ProgressedRun(runs[r]).session = runs[r].session
        /\ ProgressedRun(runs[r]).attempt = runs[r].attempt
    BY ProgressedRunRow DEF TypeOK
  <2>3. LoggedSession(sessions[s]).activeRun = sessions[s].activeRun
    BY <2>1, LoggedSessionRow DEF TypeOK
  <2> QED
    BY <1>3, <2>2, <2>3 DEF AppendEvent, Frame, SameRun, SameHolder, TypeOK
<1>4. ASSUME NEW w \in Workspaces, LeaseExpires(w)
      PROVE  Frame
  <2>1. /\ ExpiredLease(workspaces[w]).attempt = workspaces[w].attempt
        /\ ExpiredLease(workspaces[w]).epoch = workspaces[w].epoch
    BY ExpiredLeaseRow DEF TypeOK
  <2> QED
    BY <1>4, <2>1 DEF LeaseExpires, Frame, SameRun, SameHolder, TypeOK
<1> QED
  BY <1>1, <1>2, <1>3, <1>4 DEF CancelRead, CancelConflict, ThreadsDie, vars, tables

\* accept_once adds a queued run that owns nothing.
AcceptEffect(r, s) ==
    /\ runs[r].status = "ABSENT"
    /\ runs'[r].status = "QUEUED"
    /\ runs'[r].session = s
    /\ runs'[r].attempt = None
    /\ \A p \in Runs \ {r} : runs'[p] = runs[p]
    /\ \A x \in Sessions : sessions'[x].activeRun = sessions[x].activeRun
    /\ workspaces' = workspaces
    /\ attempts' = attempts
    /\ revisions' = revisions

\* accept_once inserts a run that owns nothing.
LEMMA AcceptOnceEffect ==
    ASSUME TypeOK, NEW r \in Runs, NEW s \in Sessions, NEW k \in Keys,
           NEW b \in BOOLEAN, AcceptOnce(r, s, k, b)
    PROVE  AcceptEffect(r, s)
<1>1. ASSUME NEW new, new = InsertedRun(s, k)
      PROVE  new.status = "QUEUED" /\ new.session = s /\ new.attempt = None
  BY <1>1 DEF InsertedRun, NoRun
<1>2. AcceptedInto(sessions[s]).activeRun = sessions[s].activeRun
  BY AcceptedIntoRow DEF TypeOK
<1>3. \A x \in Sessions : sessions'[x].activeRun = sessions[x].activeRun
  BY <1>2 DEF AcceptOnce, TypeOK
<1>4. runs'[r] = InsertedRun(s, k) /\ \A p \in Runs \ {r} : runs'[p] = runs[p]
  BY DEF AcceptOnce, TypeOK
<1> QED
  BY <1>1, <1>3, <1>4 DEF AcceptOnce, Exists, AcceptEffect

\* claim_next_run gives one queued run its session, its workspace and a new attempt.
ClaimEffect(r, a) ==
    /\ SessionOf(r) \in Sessions
    /\ HomeOf(r) \in Workspaces
    /\ runs'[r].status = "RUNNING"
    /\ runs'[r].session = runs[r].session
    /\ runs'[r].attempt = a
    /\ \A p \in Runs \ {r} : runs'[p] = runs[p]
    /\ sessions'[SessionOf(r)].activeRun = r
    /\ \A s \in Sessions \ {SessionOf(r)} : sessions'[s] = sessions[s]
    /\ workspaces'[HomeOf(r)].attempt = a
    /\ workspaces'[HomeOf(r)].epoch = workspaces[HomeOf(r)].epoch + 1
    /\ workspaces'[HomeOf(r)].revision = workspaces[HomeOf(r)].revision
    /\ \A w \in Workspaces \ {HomeOf(r)} : workspaces'[w] = workspaces[w]
    /\ attempts'[a].run = r
    /\ attempts'[a].wsEpoch = workspaces[HomeOf(r)].epoch + 1
    /\ attempts'[a].base = workspaces[HomeOf(r)].revision
    /\ attempts'[a].ended = FALSE
    /\ \A b \in Attempts \ {a} : attempts'[b] = attempts[b]
    /\ revisions' = revisions

\* claim_next_run gives one run the session, the workspace and a new attempt.
LEMMA ClaimNextRunEffect ==
    ASSUME TypeOK, ForeignKeys, NEW r \in Runs, NEW a \in Attempts, ClaimNextRun(r, a)
    PROVE  ClaimEffect(r, a)
<1> DEFINE s == SessionOf(r)
           w == HomeOf(r)
<1>1. s \in Sessions /\ w \in Workspaces
  BY WorkspaceOfAssumption DEF ClaimNextRun, Claimable, Exists, ForeignKeys, HomeOf
<1>2. /\ StartedRun(runs[r], a).status = "RUNNING"
      /\ StartedRun(runs[r], a).session = runs[r].session
      /\ StartedRun(runs[r], a).attempt = a
  BY StartedRunRow DEF TypeOK
<1>3. TakenSession(sessions[s], r).activeRun = r
  BY <1>1, TakenSessionRow DEF TypeOK
<1>4. /\ TakenWorkspace(workspaces[w], a).attempt = a
      /\ TakenWorkspace(workspaces[w], a).epoch = workspaces[w].epoch + 1
      /\ TakenWorkspace(workspaces[w], a).revision = workspaces[w].revision
  BY <1>1, TakenWorkspaceRow DEF TypeOK
<1>5. /\ NewAttempt(r, s, w).run = r
      /\ NewAttempt(r, s, w).wsEpoch = workspaces[w].epoch + 1
      /\ NewAttempt(r, s, w).base = workspaces[w].revision
      /\ NewAttempt(r, s, w).ended = FALSE
  BY DEF NewAttempt, NextEpoch
<1>6. runs'[r] = StartedRun(runs[r], a) /\ \A p \in Runs \ {r} : runs'[p] = runs[p]
  BY DEF ClaimNextRun, TypeOK
<1>7. /\ sessions'[s] = TakenSession(sessions[s], r)
      /\ \A x \in Sessions \ {s} : sessions'[x] = sessions[x]
  BY <1>1 DEF ClaimNextRun, TypeOK
<1>8. /\ workspaces'[w] = TakenWorkspace(workspaces[w], a)
      /\ \A x \in Workspaces \ {w} : workspaces'[x] = workspaces[x]
  BY <1>1 DEF ClaimNextRun, TypeOK
<1>9. /\ attempts'[a] = NewAttempt(r, s, w)
      /\ \A b \in Attempts \ {a} : attempts'[b] = attempts[b]
  BY DEF ClaimNextRun, TypeOK
<1>10. revisions' = revisions
  BY DEF ClaimNextRun
<1> QED
  BY <1>1, <1>2, <1>3, <1>4, <1>5, <1>6, <1>7, <1>8, <1>9, <1>10 DEF ClaimEffect

\* transition_run (and both transactions of cancel_run) moves one run along the table;
\* a terminal status also gives back what the run's attempt holds.
MoveEffect(r, t) ==
    LET a    == runs[r].attempt
        done == t \in TerminalStatuses
    IN  /\ SessionOf(r) \in Sessions
        /\ HomeOf(r) \in Workspaces
        /\ Exists(r)
        /\ t \in AllowedTransitions(runs[r].status)
        /\ runs'[r].status = t
        /\ runs'[r].session = runs[r].session
        /\ runs'[r].attempt = IF done THEN None ELSE a
        /\ \A p \in Runs \ {r} : runs'[p] = runs[p]
        /\ sessions'[SessionOf(r)].activeRun =
              IF done /\ sessions[SessionOf(r)].activeRun = r
              THEN None ELSE sessions[SessionOf(r)].activeRun
        /\ \A s \in Sessions \ {SessionOf(r)} : sessions'[s] = sessions[s]
        /\ workspaces'[HomeOf(r)].attempt =
              IF done /\ a # None /\ workspaces[HomeOf(r)].attempt = a
              THEN None ELSE workspaces[HomeOf(r)].attempt
        /\ workspaces'[HomeOf(r)].epoch = workspaces[HomeOf(r)].epoch
        /\ workspaces'[HomeOf(r)].revision = workspaces[HomeOf(r)].revision
        /\ \A w \in Workspaces \ {HomeOf(r)} : workspaces'[w] = workspaces[w]
        /\ done /\ a # None => attempts'[a].ended
        /\ \A b \in Attempts :
              /\ attempts'[b].run = attempts[b].run
              /\ attempts'[b].wsEpoch = attempts[b].wsEpoch
              /\ attempts'[b].base = attempts[b].base
        /\ \A b \in Attempts \ {a} : attempts'[b] = attempts[b]
        /\ ~done => attempts' = attempts
        /\ revisions' = revisions

\* transition_run and cancel_run move one run, and on a terminal status give back what its
\* attempt held, and nothing else.
LEMMA TransitionEffect ==
    ASSUME TypeOK, ForeignKeys, NEW r \in Runs, NEW v, NEW t,
           NEW o \in Outcomes \cup {None}, Transition(r, v, t, o)
    PROVE  MoveEffect(r, t)
<1> DEFINE s    == SessionOf(r)
           w    == HomeOf(r)
           a    == runs[r].attempt
           done == t \in TerminalStatuses
<1>1. Exists(r) /\ s \in Sessions /\ w \in Workspaces
  BY WorkspaceOfAssumption DEF Transition, ForeignKeys, HomeOf
<1>2. t \in AllowedTransitions(runs[r].status) /\ t \in Statuses /\ revisions' = revisions
  BY TransitionTargets DEF Transition
<1>3. /\ MovedRun(runs[r], t, o).status = t
      /\ MovedRun(runs[r], t, o).session = runs[r].session
      /\ MovedRun(runs[r], t, o).attempt = IF done THEN None ELSE a
  BY <1>2, MovedRunRow DEF TypeOK
<1>4. MovedSession(sessions[s], r, t).activeRun =
        IF done /\ sessions[s].activeRun = r THEN None ELSE sessions[s].activeRun
  BY <1>1, MovedSessionRow DEF TypeOK, Vacated
<1>5. /\ FreedWorkspace(workspaces[w]).attempt = None
      /\ FreedWorkspace(workspaces[w]).epoch = workspaces[w].epoch
      /\ FreedWorkspace(workspaces[w]).revision = workspaces[w].revision
  BY <1>1, FreedWorkspaceRow DEF TypeOK
<1>6. a \in Attempts =>
        /\ EndedAttempt(attempts[a]).run = attempts[a].run
        /\ EndedAttempt(attempts[a]).wsEpoch = attempts[a].wsEpoch
        /\ EndedAttempt(attempts[a]).base = attempts[a].base
        /\ EndedAttempt(attempts[a]).ended = TRUE
  BY EndedAttemptRow DEF TypeOK
<1>7. a \in Attempts \cup {None}
  BY DEF TypeOK, RunRow
<1>8. runs'[r] = MovedRun(runs[r], t, o) /\ \A p \in Runs \ {r} : runs'[p] = runs[p]
  BY DEF Transition, TypeOK
<1>9. /\ sessions'[s] = MovedSession(sessions[s], r, t)
      /\ \A x \in Sessions \ {s} : sessions'[x] = sessions[x]
  BY <1>1 DEF Transition, TypeOK
<1>10. /\ workspaces'[w] = IF done /\ a # None /\ workspaces[w].attempt = a
                           THEN FreedWorkspace(workspaces[w]) ELSE workspaces[w]
       /\ \A x \in Workspaces \ {w} : workspaces'[x] = workspaces[x]
  BY <1>1 DEF Transition, TypeOK
<1>11. /\ done /\ a # None => attempts'[a] = EndedAttempt(attempts[a])
       /\ \A b \in Attempts \ {a} : attempts'[b] = attempts[b]
       /\ ~(done /\ a # None) => attempts' = attempts
  BY <1>7 DEF Transition, TypeOK
<1>12. workspaces'[w].attempt = IF done /\ a # None /\ workspaces[w].attempt = a
                                THEN None ELSE workspaces[w].attempt
  BY <1>5, <1>10
<1>13. /\ workspaces'[w].epoch = workspaces[w].epoch
       /\ workspaces'[w].revision = workspaces[w].revision
  BY <1>5, <1>10
<1>14. \A b \in Attempts :
          /\ attempts'[b].run = attempts[b].run
          /\ attempts'[b].wsEpoch = attempts[b].wsEpoch
          /\ attempts'[b].base = attempts[b].base
  BY <1>6, <1>7, <1>11
<1>15. done /\ a # None => attempts'[a].ended
  BY <1>6, <1>7, <1>11
<1>16. ~done => attempts' = attempts
  BY <1>11
<1> HIDE DEF done
<1> QED
  BY <1>1, <1>2, <1>3, <1>4, <1>8, <1>9, <1>10, <1>11, <1>12, <1>13, <1>14, <1>15, <1>16
  DEF done, MoveEffect

\* A step of the store is one of these four kinds.
AcceptStep == \E r \in Runs, s \in Sessions, k \in Keys, b \in BOOLEAN :
              AcceptOnce(r, s, k, b)
ClaimStep  == \E r \in Runs, a \in Attempts : ClaimNextRun(r, a)
MoveStep   == \E r \in Runs, v \in Nat, t \in Statuses \ {"RUNNING"},
              o \in Outcomes \cup {None} : Transition(r, v, t, o)

\* Every step accepts, claims or moves a run, or else leaves all rights as they are.
LEMMA StepKinds ==
    ASSUME TypeOK, ForeignKeys, [AnyCall]_vars
    PROVE  \/ AcceptStep
           \/ ClaimStep
           \/ MoveStep
           \/ /\ Frame
              /\ (revisions' = revisions /\ \A w \in Workspaces :
                                   workspaces'[w].revision = workspaces[w].revision)
                 \/ \E a \in Attempts : RecordWorkspaceRevision(a)
<1>1. ASSUME NEW r \in Runs, NEW v \in Nat, NEW t \in Statuses \ {"RUNNING"},
             NEW o \in Outcomes \cup {None}, Transition(r, v, t, o)
      PROVE  MoveStep
  BY <1>1 DEF MoveStep
<1>2. ASSUME NEW q \in Requests, CancelRequest(q) \/ CancelFinish(q)
      PROVE  MoveStep
  <2>1. cancels[q].run \in Runs /\ cancels[q].version \in Nat
    BY <1>2 DEF CancelRequest, CancelFinish, ForeignKeys, TypeOK, CancelRow
  <2> QED
    BY <1>2, <2>1 DEF CancelRequest, CancelFinish, MoveStep, Statuses
<1>3. ASSUME NEW r \in Runs, AppendEvent(r)
      PROVE  revisions' = revisions /\ workspaces' = workspaces
  BY <1>3 DEF AppendEvent
<1>4. ASSUME NEW w \in Workspaces, LeaseExpires(w)
      PROVE  revisions' = revisions /\ \A x \in Workspaces :
                workspaces'[x].revision = workspaces[x].revision
  <2>1. ExpiredLease(workspaces[w]).revision = workspaces[w].revision
    BY ExpiredLeaseRow DEF TypeOK
  <2> QED
    BY <1>4, <2>1 DEF LeaseExpires, TypeOK
<1>5. CASE UNCHANGED tables
  BY <1>5, FrameSteps DEF tables, Frame, SameRun, SameHolder
<1>6. ASSUME NEW a \in Attempts, RecordWorkspaceRevision(a)
      PROVE  Frame
  BY <1>6, FrameSteps
<1>7. ASSUME NEW r \in Runs, AppendEvent(r)
      PROVE  Frame
  BY <1>7, FrameSteps
<1>8. ASSUME NEW w \in Workspaces, LeaseExpires(w)
      PROVE  Frame
  BY <1>8, FrameSteps
<1>9. CASE AnyCall
  BY <1>9, <1>1, <1>2, <1>3, <1>4, <1>5, <1>6, <1>7, <1>8
  DEF AnyCall, AcceptStep, ClaimStep, CancelRead, CancelConflict, ThreadsDie
<1>10. CASE UNCHANGED vars
  BY <1>10, <1>5 DEF vars, tables
<1> QED
  BY <1>9, <1>10

-----------------------------------------------------------------------------
(***************************************************************************)
(* Ownership.  LiveAttemptsHold is the strengthening: the four columns of  *)
(* OwnershipAgrees lead from a run to its attempt, and only it leads back  *)
(* from an attempt that has not ended.                                     *)
(***************************************************************************)
Ownership == OwnershipAgrees /\ LiveAttemptsHold

\* Steps that change no right to execute keep the columns in agreement.
LEMMA FrameKeepsOwnership ==
    ASSUME TypeOK, ForeignKeys, Ownership, Frame
    PROVE  Ownership'
<1>1. /\ \A p \in Runs : SessionOf(p)' = SessionOf(p) /\ HomeOf(p)' = HomeOf(p)
                          /\ (Exists(p)' <=> Exists(p)) /\ (Terminal(p)' <=> Terminal(p))
      /\ \A a \in Attempts : (Created(a)' <=> Created(a)) /\ (Live(a)' <=> Live(a))
  BY DEF Frame, SameRun, SessionOf, HomeOf, Exists, Terminal, Created, Live
<1>2. \A p \in Runs : RunHoldsSlots(p)' /\ StatusOwnsSlots(p)'
  <2> SUFFICES ASSUME NEW p \in Runs
               PROVE  RunHoldsSlots(p)' /\ StatusOwnsSlots(p)'
    OBVIOUS
  <2>1. RunHoldsSlots(p) /\ StatusOwnsSlots(p)
    BY DEF Ownership, OwnershipAgrees
  <2>2. runs[p].attempt # None => SessionOf(p) \in Sessions /\ HomeOf(p) \in Workspaces
    BY <2>1, WorkspaceOfAssumption DEF StatusOwnsSlots, ForeignKeys, HomeOf
  <2> QED
    BY <1>1, <2>1, <2>2
    DEF Frame, SameRun, SameHolder, RunHoldsSlots, StatusOwnsSlots
<1>3. \A s \in Sessions : SessionSlotHeld(s)'
  BY <1>1 DEF Ownership, OwnershipAgrees, SessionSlotHeld, Frame, SameRun, TypeOK,
              SessionRow
<1>4. ASSUME NEW w \in Workspaces
      PROVE  WorkspaceSlotHeld(w)'
  <2> DEFINE a == workspaces[w].attempt
  <2>1. WorkspaceSlotHeld(w) /\ workspaces'[w].attempt = a /\ attempts' = attempts
    BY DEF Ownership, OwnershipAgrees, Frame, SameHolder
  <2>2. a # None => a \in Attempts /\ attempts[a].run \in Runs
    BY <2>1 DEF WorkspaceSlotHeld, Created, TypeOK, WorkspaceRow, AttemptRow
  <2>3. a # None => runs'[attempts[a].run].attempt = runs[attempts[a].run].attempt
    BY <2>2 DEF Frame, SameRun
  <2> QED
    BY <1>1, <2>1, <2>2, <2>3 DEF WorkspaceSlotHeld, Created
<1>5. LiveAttemptsHold'
  BY <1>1 DEF Ownership, LiveAttemptsHold, Live, Created, Frame, SameRun, TypeOK,
              AttemptRow
<1> QED
  BY <1>2, <1>3, <1>4, <1>5 DEF Ownership, OwnershipAgrees

\* A newly accepted run owns nothing and is named by no column.
LEMMA AcceptKeepsOwnership ==
    ASSUME TypeOK, ForeignKeys, Ownership, AcceptStep
    PROVE  Ownership'
<1>1. PICK r \in Runs, s \in Sessions, k \in Keys, b \in BOOLEAN :
              AcceptOnce(r, s, k, b)
  BY DEF AcceptStep
<1>2. /\ runs[r].status = "ABSENT"
      /\ runs'[r].status = "QUEUED"
      /\ runs'[r].attempt = None
      /\ \A p \in Runs \ {r} : runs'[p] = runs[p]
      /\ \A x \in Sessions : sessions'[x].activeRun = sessions[x].activeRun
      /\ workspaces' = workspaces
      /\ attempts' = attempts
  BY <1>1, AcceptOnceEffect DEF AcceptEffect
<1>3. ~Exists(r) /\ runs[r].attempt = None
  BY <1>2 DEF Exists, Ownership, OwnershipAgrees, StatusOwnsSlots
<1>4. \A p \in Runs \ {r} :
          /\ SessionOf(p)' = SessionOf(p)
          /\ HomeOf(p)' = HomeOf(p)
          /\ Exists(p)' <=> Exists(p)
          /\ Terminal(p)' <=> Terminal(p)
  BY <1>2 DEF SessionOf, HomeOf, Exists, Terminal
<1>5. ASSUME NEW p \in Runs
      PROVE  RunHoldsSlots(p)' /\ StatusOwnsSlots(p)'
  <2>1. CASE p = r
    BY <1>2, <2>1
    DEF RunHoldsSlots, StatusOwnsSlots, Exists, Terminal, TerminalStatuses, WaitingStatuses
  <2>2. CASE p # r
    <3>1. RunHoldsSlots(p) /\ StatusOwnsSlots(p) /\ runs'[p] = runs[p]
      BY <1>2, <2>2 DEF Ownership, OwnershipAgrees
    <3>2. runs[p].attempt # None => SessionOf(p) \in Sessions
      BY <3>1 DEF StatusOwnsSlots, ForeignKeys
    <3> QED
      BY <1>2, <1>4, <2>2, <3>1, <3>2 DEF RunHoldsSlots, StatusOwnsSlots
  <2> QED
    BY <2>1, <2>2
<1>6. ASSUME NEW x \in Sessions
      PROVE  SessionSlotHeld(x)'
  <2>1. SessionSlotHeld(x) /\ sessions[x].activeRun \in Runs \cup {None}
    BY DEF Ownership, OwnershipAgrees, TypeOK, SessionRow
  <2>2. sessions[x].activeRun # r
    BY <1>3, <2>1, NoneAssumption DEF SessionSlotHeld
  <2> QED
    BY <1>2, <1>4, <2>1, <2>2 DEF SessionSlotHeld
<1>7. ASSUME NEW w \in Workspaces
      PROVE  WorkspaceSlotHeld(w)'
  <2> DEFINE a == workspaces[w].attempt
  <2>1. WorkspaceSlotHeld(w) /\ a \in Attempts \cup {None}
    BY DEF Ownership, OwnershipAgrees, TypeOK, WorkspaceRow
  <2>2. a # None => attempts[a].run \in Runs \ {r}
    BY <1>3, <2>1 DEF WorkspaceSlotHeld, Created, TypeOK, AttemptRow
  <2> QED
    BY <1>2, <1>4, <2>1, <2>2 DEF WorkspaceSlotHeld, Created
<1>8. ASSUME NEW a \in Attempts, Live(a)'
      PROVE  runs'[attempts'[a].run].attempt = a
  <2>1. Live(a)
    BY <1>2, <1>8 DEF Live, Created
  <2>2. attempts[a].run \in Runs /\ runs[attempts[a].run].attempt = a
    BY <2>1 DEF Ownership, LiveAttemptsHold, Live, Created, TypeOK, AttemptRow
  <2>3. attempts[a].run # r
    BY <1>3, <2>2, NoneAssumption
  <2> QED
    BY <1>2, <2>2, <2>3
<1> QED
  BY <1>5, <1>6, <1>7, <1>8 DEF Ownership, OwnershipAgrees, LiveAttemptsHold

\* A claim sets all the columns at once, and finds session and workspace free.
LEMMA ClaimKeepsOwnership ==
    ASSUME TypeOK, ForeignKeys, Ownership, ClaimStep
    PROVE  Ownership'
<1>1. PICK r \in Runs, a \in Attempts : ClaimNextRun(r, a)
  BY DEF ClaimStep
<1> DEFINE s == SessionOf(r)
           w == HomeOf(r)
<1>effect. ClaimEffect(r, a)
  BY <1>1, ClaimNextRunEffect
<1>2. /\ s \in Sessions
      /\ w \in Workspaces
      /\ runs'[r].status = "RUNNING"
      /\ runs'[r].session = runs[r].session
      /\ runs'[r].attempt = a
      /\ \A p \in Runs \ {r} : runs'[p] = runs[p]
      /\ sessions'[s].activeRun = r
      /\ \A x \in Sessions \ {s} : sessions'[x] = sessions[x]
      /\ workspaces'[w].attempt = a
      /\ \A x \in Workspaces \ {w} : workspaces'[x] = workspaces[x]
      /\ attempts'[a].run = r
      /\ attempts'[a].ended = FALSE
      /\ \A b \in Attempts \ {a} : attempts'[b] = attempts[b]
  BY <1>effect DEF ClaimEffect
<1>3. /\ runs[r].status = "QUEUED"
      /\ sessions[s].activeRun = None
      /\ workspaces[w].attempt = None
      /\ ~Created(a)
  BY <1>1 DEF ClaimNextRun, Claimable

\* Nobody owned the three rows that the claim takes.
<1>4. runs[r].attempt = None
  BY <1>3, NoneAssumption DEF Ownership, OwnershipAgrees, RunHoldsSlots
<1>5. /\ SessionOf(r)' = s /\ HomeOf(r)' = w
      /\ \A p \in Runs :
            SessionOf(p)' = SessionOf(p) /\ HomeOf(p)' = HomeOf(p)
  BY <1>2 DEF SessionOf, HomeOf
<1>6. ASSUME NEW p \in Runs
      PROVE  RunHoldsSlots(p)' /\ StatusOwnsSlots(p)'
  <2>1. CASE p = r
    BY <1>2, <1>5, <2>1, NoneAssumption
    DEF RunHoldsSlots, StatusOwnsSlots, Exists, Terminal, TerminalStatuses
  <2>2. CASE p # r
    <3>1. RunHoldsSlots(p) /\ StatusOwnsSlots(p) /\ runs'[p] = runs[p]
      BY <1>2, <2>2 DEF Ownership, OwnershipAgrees
    <3>2. StatusOwnsSlots(p)'
      BY <3>1 DEF StatusOwnsSlots, Exists, Terminal
    <3>3. ASSUME runs[p].attempt # None
          PROVE  RunHoldsSlots(p)'
      <4> DEFINE b == runs[p].attempt
      <4>1. /\ attempts[b].run = p
            /\ ~attempts[b].ended
            /\ sessions[SessionOf(p)].activeRun = p
            /\ workspaces[HomeOf(p)].attempt = b
        BY <3>1, <3>3 DEF RunHoldsSlots
      <4>2. SessionOf(p) \in Sessions /\ HomeOf(p) \in Workspaces
        BY <3>1, <3>3, WorkspaceOfAssumption DEF StatusOwnsSlots, ForeignKeys, HomeOf
      <4>3. SessionOf(p) # s /\ HomeOf(p) # w
        BY <1>3, <3>3, <4>1, NoneAssumption
      <4>4. b \in Attempts \ {a}
        BY <1>3, <3>3, <4>1, NoneAssumption DEF Created, TypeOK, RunRow
      <4> QED
        BY <1>2, <1>5, <3>1, <4>1, <4>2, <4>3, <4>4 DEF RunHoldsSlots
    <3> QED
      BY <3>1, <3>2, <3>3 DEF RunHoldsSlots
  <2> QED
    BY <2>1, <2>2
<1>7. ASSUME NEW x \in Sessions
      PROVE  SessionSlotHeld(x)'
  <2>1. CASE x = s
    BY <1>2, <1>5, <2>1, NoneAssumption DEF SessionSlotHeld
  <2>2. CASE x # s
    <3>1. SessionSlotHeld(x) /\ sessions[x].activeRun \in Runs \cup {None}
      BY DEF Ownership, OwnershipAgrees, TypeOK, SessionRow
    <3>2. sessions[x].activeRun # r
      BY <1>4, <3>1, NoneAssumption DEF SessionSlotHeld
    <3> QED
      BY <1>2, <1>5, <2>2, <3>1, <3>2 DEF SessionSlotHeld
  <2> QED
    BY <2>1, <2>2
<1>8. ASSUME NEW x \in Workspaces
      PROVE  WorkspaceSlotHeld(x)'
  <2>1. CASE x = w
    BY <1>2, <1>5, <2>1, NoneAssumption DEF WorkspaceSlotHeld, Created
  <2>2. CASE x # w
    <3> DEFINE b == workspaces[x].attempt
    <3>1. WorkspaceSlotHeld(x) /\ b \in Attempts \cup {None}
      BY DEF Ownership, OwnershipAgrees, TypeOK, WorkspaceRow
    <3>2. b # None => b # a /\ attempts[b].run \in Runs \ {r}
      BY <1>3, <1>4, <3>1, NoneAssumption
      DEF WorkspaceSlotHeld, Created, TypeOK, AttemptRow
    <3> QED
      BY <1>2, <1>5, <2>2, <3>1, <3>2 DEF WorkspaceSlotHeld, Created
  <2> QED
    BY <2>1, <2>2
<1>9. ASSUME NEW b \in Attempts, Live(b)'
      PROVE  runs'[attempts'[b].run].attempt = b
  <2>1. CASE b = a
    BY <1>2, <2>1
  <2>2. CASE b # a
    <3>1. Live(b) /\ attempts'[b] = attempts[b]
      BY <1>2, <1>9, <2>2 DEF Live, Created
    <3>2. attempts[b].run \in Runs /\ runs[attempts[b].run].attempt = b
      BY <3>1 DEF Ownership, LiveAttemptsHold, Live, Created, TypeOK, AttemptRow
    <3>3. attempts[b].run # r
      BY <1>4, <3>2, NoneAssumption
    <3> QED
      BY <1>2, <3>1, <3>2, <3>3
  <2> QED
    BY <2>1, <2>2
<1> QED
  BY <1>6, <1>7, <1>8, <1>9 DEF Ownership, OwnershipAgrees, LiveAttemptsHold

\* What the transition table says about who may reach which status.
LEMMA TransitionSources ==
    ASSUME NEW p, NEW t \in AllowedTransitions(p)
    PROVE  /\ t \in WaitingStatuses \cup {"RECOVERING"}
                => p \in WaitingStatuses \cup {"RUNNING", "RECOVERING"}
           /\ t # "ABSENT"
           /\ p \notin TerminalStatuses
BY DEF AllowedTransitions, WaitingStatuses, TerminalStatuses

\* A transition either keeps all the columns or, when it is terminal, clears them all.
LEMMA MoveKeepsOwnership ==
    ASSUME TypeOK, ForeignKeys, Ownership, MoveStep
    PROVE  Ownership'
<1>1. PICK r \in Runs, v \in Nat, t \in Statuses \ {"RUNNING"},
           o \in Outcomes \cup {None} : Transition(r, v, t, o)
  BY DEF MoveStep
<1> DEFINE s == SessionOf(r)
           w == HomeOf(r)
           a == runs[r].attempt
           done == t \in TerminalStatuses
<1>effect. MoveEffect(r, t)
  BY <1>1, TransitionEffect
<1>2. /\ s \in Sessions
      /\ w \in Workspaces
      /\ Exists(r)
      /\ t \in AllowedTransitions(runs[r].status)
      /\ runs'[r].status = t
      /\ runs'[r].session = runs[r].session
      /\ \A p \in Runs \ {r} : runs'[p] = runs[p]
      /\ \A x \in Sessions \ {s} : sessions'[x] = sessions[x]
      /\ \A x \in Workspaces \ {w} : workspaces'[x] = workspaces[x]
      /\ \A b \in Attempts : attempts'[b].run = attempts[b].run
      /\ \A b \in Attempts \ {a} : attempts'[b] = attempts[b]
  BY <1>effect DEF MoveEffect
<1>3. RunHoldsSlots(r) /\ StatusOwnsSlots(r) /\ SessionSlotHeld(s) /\ WorkspaceSlotHeld(w)
  BY <1>2 DEF Ownership, OwnershipAgrees
<1>4. a \in Attempts \cup {None}
  BY DEF TypeOK, RunRow
<1>5. sessions[s].activeRun = r <=> a # None
  BY <1>3, NoneAssumption DEF RunHoldsSlots, SessionSlotHeld

\* A finished run leaves nothing behind; otherwise nobody's ownership moves.
<1>6. CASE done
  <2>1. /\ runs'[r].attempt = None
        /\ sessions'[s].activeRun = IF a # None THEN None ELSE sessions[s].activeRun
        /\ a # None => workspaces'[w].attempt = None /\ attempts'[a].ended
        /\ a = None => workspaces'[w].attempt = workspaces[w].attempt
    BY <1>3, <1>5, <1>6, <1>effect DEF MoveEffect, RunHoldsSlots
  <2> HIDE DEF done
  <2>2. \A p \in Runs : SessionOf(p)' = SessionOf(p) /\ HomeOf(p)' = HomeOf(p)
    BY <1>2 DEF SessionOf, HomeOf
  <2>3. ASSUME NEW p \in Runs
        PROVE  RunHoldsSlots(p)' /\ StatusOwnsSlots(p)'
    <3>1. CASE p = r
      BY <1>2, <1>6, <2>1, <3>1
      DEF done, RunHoldsSlots, StatusOwnsSlots, TerminalStatuses, WaitingStatuses
    <3>2. CASE p # r
      <4> DEFINE b == runs[p].attempt
      <4>1. RunHoldsSlots(p) /\ StatusOwnsSlots(p) /\ runs'[p] = runs[p]
        BY <1>2, <3>2 DEF Ownership, OwnershipAgrees
      <4>2. StatusOwnsSlots(p)'
        BY <4>1 DEF StatusOwnsSlots, Exists, Terminal
      <4>3. ASSUME b # None
            PROVE  RunHoldsSlots(p)'
        <5>1. SessionOf(p) \in Sessions /\ HomeOf(p) \in Workspaces /\ b \in Attempts
          BY <4>1, <4>3, WorkspaceOfAssumption
          DEF StatusOwnsSlots, ForeignKeys, HomeOf, TypeOK, RunRow
        <5>2. b # a
          BY <1>3, <3>2, <4>1, <4>3 DEF RunHoldsSlots
        <5>3. attempts'[b] = attempts[b]
          BY <1>2, <5>1, <5>2
        <5>4. sessions'[SessionOf(p)].activeRun = sessions[SessionOf(p)].activeRun
          BY <1>2, <1>5, <2>1, <3>2, <4>1, <4>3, <5>1 DEF RunHoldsSlots
        <5>5. workspaces'[HomeOf(p)].attempt = workspaces[HomeOf(p)].attempt
          BY <1>2, <1>3, <2>1, <4>1, <4>3, <5>1, <5>2 DEF RunHoldsSlots
        <5> QED
          BY <2>2, <4>1, <5>3, <5>4, <5>5 DEF RunHoldsSlots
      <4> QED
        BY <4>1, <4>2, <4>3 DEF RunHoldsSlots
    <3> QED
      BY <3>1, <3>2
  <2>4. ASSUME NEW x \in Sessions
        PROVE  SessionSlotHeld(x)'
    <3>1. SessionSlotHeld(x) /\ sessions[x].activeRun \in Runs \cup {None}
      BY DEF Ownership, OwnershipAgrees, TypeOK, SessionRow
    <3>2. CASE x = s
      BY <1>2, <1>5, <2>1, <2>2, <3>1, <3>2 DEF SessionSlotHeld
    <3>3. CASE x # s
      <4>1. sessions[x].activeRun # r
        BY <3>1, <3>3, NoneAssumption DEF SessionSlotHeld
      <4> QED
        BY <1>2, <2>2, <3>1, <3>3, <4>1 DEF SessionSlotHeld
    <3> QED
      BY <3>2, <3>3
  <2>5. ASSUME NEW x \in Workspaces
        PROVE  WorkspaceSlotHeld(x)'
    <3> DEFINE b == workspaces[x].attempt
    <3>1. WorkspaceSlotHeld(x) /\ b \in Attempts \cup {None}
      BY DEF Ownership, OwnershipAgrees, TypeOK, WorkspaceRow
    <3>2. b # None => attempts[b].run \in Runs
      BY <3>1 DEF WorkspaceSlotHeld, Created, TypeOK, AttemptRow
    <3>3. CASE b # None /\ attempts[b].run = r
      <4>1. a = b /\ x = w /\ a # None
        BY <3>1, <3>3 DEF WorkspaceSlotHeld
      <4> QED
        BY <2>1, <4>1 DEF WorkspaceSlotHeld
    <3>4. CASE ~(b # None /\ attempts[b].run = r)
      <4>1. workspaces'[x].attempt = b \/ workspaces'[x].attempt = None
        BY <1>2, <2>1
      <4> QED
        BY <1>2, <2>2, <3>1, <3>2, <3>4, <4>1 DEF WorkspaceSlotHeld, Created
    <3> QED
      BY <3>3, <3>4
  <2>6. ASSUME NEW b \in Attempts, Live(b)'
        PROVE  runs'[attempts'[b].run].attempt = b
    <3>1. b # a
      BY <2>1, <2>6, <1>4, NoneAssumption DEF Live
    <3>2. Live(b) /\ attempts'[b] = attempts[b]
      BY <1>2, <2>6, <3>1 DEF Live, Created
    <3>3. attempts[b].run \in Runs /\ runs[attempts[b].run].attempt = b
      BY <3>2 DEF Ownership, LiveAttemptsHold, Live, Created, TypeOK, AttemptRow
    <3> QED
      BY <1>2, <3>1, <3>2, <3>3
  <2> QED
    BY <2>3, <2>4, <2>5, <2>6 DEF Ownership, OwnershipAgrees, LiveAttemptsHold
<1>7. CASE ~done
  <2>1. /\ runs'[r].attempt = a
        /\ sessions'[s].activeRun = sessions[s].activeRun
        /\ workspaces'[w].attempt = workspaces[w].attempt
        /\ attempts' = attempts
    BY <1>7, <1>effect DEF MoveEffect
  <2>2. /\ \A p \in Runs : runs'[p].attempt = runs[p].attempt
        /\ \A x \in Sessions : sessions'[x].activeRun = sessions[x].activeRun
        /\ \A x \in Workspaces : workspaces'[x].attempt = workspaces[x].attempt
    BY <1>2, <2>1
  <2>3. \A p \in Runs : SessionOf(p)' = SessionOf(p) /\ HomeOf(p)' = HomeOf(p)
    BY <1>2 DEF SessionOf, HomeOf
  <2>4. ASSUME NEW p \in Runs
        PROVE  RunHoldsSlots(p)'
    <3>1. RunHoldsSlots(p) /\ StatusOwnsSlots(p)
      BY DEF Ownership, OwnershipAgrees
    <3>2. runs[p].attempt # None => SessionOf(p) \in Sessions /\ HomeOf(p) \in Workspaces
      BY <3>1, WorkspaceOfAssumption DEF StatusOwnsSlots, ForeignKeys, HomeOf
    <3> QED
      BY <2>1, <2>2, <2>3, <3>1, <3>2 DEF RunHoldsSlots
  <2>5. ASSUME NEW p \in Runs
        PROVE  StatusOwnsSlots(p)'
    <3>1. StatusOwnsSlots(p)
      BY DEF Ownership, OwnershipAgrees
    <3>2. CASE p = r
      <4>1. t # "RUNNING" /\ t # "ABSENT"
        BY <1>2, TransitionSources
      <4>2. t \in WaitingStatuses \cup {"RECOVERING"} => a # None
        BY <1>2, <1>3, TransitionSources DEF StatusOwnsSlots
      <4> QED
        BY <1>2, <1>7, <2>1, <3>2, <4>1, <4>2 DEF StatusOwnsSlots, Exists, Terminal
    <3>3. CASE p # r
      BY <1>2, <3>1, <3>3 DEF StatusOwnsSlots, Exists, Terminal
    <3> QED
      BY <3>2, <3>3
  <2>6. ASSUME NEW x \in Sessions
        PROVE  SessionSlotHeld(x)'
    <3>1. SessionSlotHeld(x) /\ sessions[x].activeRun \in Runs \cup {None}
      BY DEF Ownership, OwnershipAgrees, TypeOK, SessionRow
    <3> QED
      BY <2>2, <2>3, <3>1 DEF SessionSlotHeld
  <2>7. ASSUME NEW x \in Workspaces
        PROVE  WorkspaceSlotHeld(x)'
    <3> DEFINE b == workspaces[x].attempt
    <3>1. WorkspaceSlotHeld(x) /\ b \in Attempts \cup {None}
      BY DEF Ownership, OwnershipAgrees, TypeOK, WorkspaceRow
    <3>2. b # None => attempts[b].run \in Runs
      BY <3>1 DEF WorkspaceSlotHeld, Created, TypeOK, AttemptRow
    <3> QED
      BY <2>1, <2>2, <2>3, <3>1, <3>2 DEF WorkspaceSlotHeld, Created
  <2>8. LiveAttemptsHold'
    BY <2>1, <2>2 DEF Ownership, LiveAttemptsHold, Live, Created, TypeOK, AttemptRow
  <2> QED
    BY <2>4, <2>5, <2>6, <2>7, <2>8 DEF Ownership, OwnershipAgrees
<1> QED
  BY <1>6, <1>7

\* In the empty tables nobody owns anything.
LEMMA InitOwnership == Init => Ownership
<1> SUFFICES ASSUME Init
             PROVE  Ownership
  OBVIOUS
<1>1. \A r \in Runs : runs[r].attempt = None /\ runs[r].status = "ABSENT"
  BY DEF Init, NoRun
<1>2. /\ \A s \in Sessions : sessions[s].activeRun = None
      /\ \A w \in Workspaces : workspaces[w].attempt = None
      /\ \A a \in Attempts : ~Created(a)
  BY DEF Init, NoAttempt, Created
<1>3. OwnershipAgrees
  BY <1>1, <1>2 DEF OwnershipAgrees, RunHoldsSlots, StatusOwnsSlots, SessionSlotHeld,
                    WorkspaceSlotHeld, WaitingStatuses
<1> QED
  BY <1>2, <1>3 DEF Ownership, LiveAttemptsHold, Live

\* Ownership is inductive.
LEMMA NextOwnership ==
    ASSUME TypeOK, ForeignKeys, Ownership, [AnyCall]_vars
    PROVE  Ownership'
BY StepKinds, FrameKeepsOwnership, AcceptKeepsOwnership, ClaimKeepsOwnership,
   MoveKeepsOwnership

\* The four columns that claim_next_run, transition_run and cancel_run write always
\* agree on who executes.
THEOREM OwnershipTheorem == Spec => []OwnershipAgrees
<1>1. Init => TypeOK /\ ForeignKeys /\ Ownership
  BY InitTypes, InitOwnership
<1>2. TypeOK /\ ForeignKeys /\ Ownership /\ [Next]_vars
        => (TypeOK /\ ForeignKeys /\ Ownership)'
  BY NextTypes, NextOwnership, NextIsAnyCall
<1>3. Ownership => OwnershipAgrees
  BY DEF Ownership
<1> QED
  BY <1>1, <1>2, <1>3, PTL DEF Spec

\* An attempt that has not ended is the one its run's workspace names.
LEMMA LiveAttemptHoldsWorkspace ==
    ASSUME TypeOK, Ownership, NEW a \in Attempts, Live(a)
    PROVE  workspaces[HomeOf(attempts[a].run)].attempt = a
<1>1. attempts[a].run \in Runs /\ runs[attempts[a].run].attempt = a
  BY DEF Ownership, LiveAttemptsHold, Live, Created, TypeOK, AttemptRow
<1> QED
  BY <1>1, NoneAssumption DEF Ownership, OwnershipAgrees, RunHoldsSlots

\* However many sessions share a workspace, at most one unfinished attempt works in it.
THEOREM OneWriterTheorem == Spec => []OneWriterPerWorkspace
<1>1. Init => TypeOK /\ ForeignKeys /\ Ownership
  BY InitTypes, InitOwnership
<1>2. TypeOK /\ ForeignKeys /\ Ownership /\ [Next]_vars
        => (TypeOK /\ ForeignKeys /\ Ownership)'
  BY NextTypes, NextOwnership, NextIsAnyCall
<1>3. TypeOK /\ Ownership => OneWriterPerWorkspace
  BY LiveAttemptHoldsWorkspace DEF OneWriterPerWorkspace
<1> QED
  BY <1>1, <1>2, <1>3, PTL DEF Spec

-----------------------------------------------------------------------------
(***************************************************************************)
(* Fencing.  EpochsBounded is the strengthening: a new epoch is larger     *)
(* than that of every attempt the workspace has ever had.                  *)
(***************************************************************************)
Fencing == EpochsBounded /\ FencingTokens

\* There are no attempts to confuse at first.
LEMMA InitFencing == Init => Fencing
<1> SUFFICES ASSUME Init
             PROVE  Fencing
  OBVIOUS
<1>1. /\ \A a \in Attempts : ~Created(a)
      /\ \A w \in Workspaces : workspaces[w].attempt = None
  BY DEF Init, NoAttempt, Created
<1> QED
  BY <1>1 DEF Fencing, EpochsBounded, FencingTokens

\* Steps that neither grant a workspace nor change an epoch.
LEMMA SameEpochsKeepFencing ==
    ASSUME TypeOK, ForeignKeys, Fencing,
           \A r \in Runs : Exists(r) => HomeOf(r)' = HomeOf(r),
           \A a \in Attempts : /\ attempts'[a].run = attempts[a].run
                               /\ attempts'[a].wsEpoch = attempts[a].wsEpoch,
           \A w \in Workspaces : /\ workspaces'[w].epoch = workspaces[w].epoch
                                 /\ workspaces'[w].attempt \in {workspaces[w].attempt, None}
    PROVE  Fencing'
<1>1. ASSUME NEW a \in Attempts, Created(a)'
      PROVE  /\ Created(a)
             /\ HomeOf(attempts[a].run) \in Workspaces
             /\ HomeOf(attempts[a].run)' = HomeOf(attempts[a].run)
  <2>1. Created(a) /\ attempts[a].run \in Runs /\ Exists(attempts[a].run)
    BY <1>1 DEF Created, ForeignKeys, TypeOK, AttemptRow
  <2>2. HomeOf(attempts[a].run) \in Workspaces
    BY <2>1, WorkspaceOfAssumption DEF ForeignKeys, HomeOf
  <2> QED
    BY <2>1, <2>2 DEF HomeOf, SessionOf
<1>2. EpochsBounded'
  BY <1>1 DEF Fencing, EpochsBounded
<1>3. \A a, b \in Attempts :
         /\ Created(a)' /\ Created(b)' /\ a # b
         /\ HomeOf(attempts[a].run)' = HomeOf(attempts[b].run)'
         => attempts'[a].wsEpoch # attempts'[b].wsEpoch
  BY <1>1 DEF Fencing, FencingTokens
<1>4. \A w \in Workspaces :
         workspaces'[w].attempt # None
           => attempts'[workspaces'[w].attempt].wsEpoch = workspaces'[w].epoch
  <2> SUFFICES ASSUME NEW w \in Workspaces, workspaces'[w].attempt # None
               PROVE  attempts'[workspaces'[w].attempt].wsEpoch = workspaces'[w].epoch
    OBVIOUS
  <2>1. workspaces'[w].attempt = workspaces[w].attempt
    OBVIOUS
  <2>2. workspaces[w].attempt \in Attempts
    <3>1. workspaces[w] \in WorkspaceRow
      BY DEF TypeOK
    <3> QED
      BY <2>1, <3>1 DEF WorkspaceRow
  <2>3. attempts[workspaces[w].attempt].wsEpoch = workspaces[w].epoch
    BY <2>1 DEF Fencing, FencingTokens
  <2> QED
    BY <2>1, <2>2, <2>3
<1> QED
  BY <1>2, <1>3, <1>4 DEF Fencing, FencingTokens

\* A claim takes an epoch above those of all earlier attempts at the workspace.
LEMMA ClaimKeepsFencing ==
    ASSUME TypeOK, ForeignKeys, Ownership, Fencing, ClaimStep
    PROVE  Fencing'
<1>1. PICK r \in Runs, a \in Attempts : ClaimNextRun(r, a)
  BY DEF ClaimStep
<1> DEFINE w == HomeOf(r)
           e == workspaces[w].epoch + 1
<1>effect. ClaimEffect(r, a)
  BY <1>1, ClaimNextRunEffect
<1>2. /\ w \in Workspaces
      /\ runs'[r].session = runs[r].session
      /\ \A p \in Runs \ {r} : runs'[p] = runs[p]
      /\ workspaces'[w].attempt = a
      /\ workspaces'[w].epoch = e
      /\ \A x \in Workspaces \ {w} : workspaces'[x] = workspaces[x]
      /\ attempts'[a].run = r
      /\ attempts'[a].wsEpoch = e
      /\ \A b \in Attempts \ {a} : attempts'[b] = attempts[b]
  BY <1>effect DEF ClaimEffect
<1>3. ~Created(a)
  BY <1>1 DEF ClaimNextRun
<1>4. \A p \in Runs : HomeOf(p)' = HomeOf(p)
  BY <1>2 DEF HomeOf, SessionOf
<1>5. \A x \in Workspaces : workspaces[x].epoch \in Nat
  BY DEF TypeOK, WorkspaceRow

\* An attempt made by an earlier claim.
<1>6. ASSUME NEW b \in Attempts \ {a}, Created(b)'
      PROVE  /\ Created(b) /\ attempts'[b] = attempts[b] /\ attempts[b].run \in Runs
             /\ attempts[b].wsEpoch \in Nat
             /\ HomeOf(attempts[b].run) \in Workspaces
             /\ HomeOf(attempts[b].run)' = HomeOf(attempts[b].run)
             /\ attempts[b].wsEpoch <= workspaces[HomeOf(attempts[b].run)].epoch
  <2>1. Created(b) /\ attempts'[b] = attempts[b]
    BY <1>2, <1>6 DEF Created
  <2>2. attempts[b].run \in Runs /\ Exists(attempts[b].run) /\ attempts[b].wsEpoch \in Nat
    BY <2>1 DEF Created, ForeignKeys, TypeOK, AttemptRow
  <2>3. HomeOf(attempts[b].run) \in Workspaces
    BY <2>2, WorkspaceOfAssumption DEF ForeignKeys, HomeOf
  <2>4. HomeOf(attempts[b].run)' = HomeOf(attempts[b].run)
    BY <1>2, <2>1, <2>2 DEF HomeOf, SessionOf
  <2>5. attempts[b].wsEpoch <= workspaces[HomeOf(attempts[b].run)].epoch
    BY <2>1 DEF Fencing, EpochsBounded
  <2> QED
    BY <2>1, <2>2, <2>3, <2>4, <2>5
<1>7. ASSUME NEW b \in Attempts, Created(b)'
      PROVE  attempts'[b].wsEpoch <= workspaces'[HomeOf(attempts[b].run)'].epoch
  <2>1. CASE b = a
    BY <1>2, <1>4, <1>5, <2>1
  <2>2. CASE b # a
    BY <1>2, <1>5, <1>6, <1>7, <2>2
  <2> QED
    BY <2>1, <2>2
<1>8. ASSUME NEW b \in Attempts \ {a}, Created(b)', HomeOf(attempts[b].run)' = w
      PROVE  attempts'[b].wsEpoch < e
  BY <1>5, <1>6, <1>8
<1>9. ASSUME NEW b \in Attempts, NEW c \in Attempts, Created(b)', Created(c)', b # c,
             HomeOf(attempts[b].run)' = HomeOf(attempts[c].run)'
      PROVE  attempts'[b].wsEpoch # attempts'[c].wsEpoch
  <2>1. CASE b = a
    BY <1>2, <1>4, <1>5, <1>6, <1>8, <1>9, <2>1
  <2>2. CASE c = a
    BY <1>2, <1>4, <1>5, <1>6, <1>8, <1>9, <2>2
  <2>3. CASE b # a /\ c # a
    BY <1>6, <1>9, <2>3 DEF Fencing, FencingTokens
  <2> QED
    BY <2>1, <2>2, <2>3
<1>10. ASSUME NEW x \in Workspaces, workspaces'[x].attempt # None
       PROVE  attempts'[workspaces'[x].attempt].wsEpoch = workspaces'[x].epoch
  <2>1. CASE x = w
    BY <1>2, <2>1
  <2>2. CASE x # w
    <3> DEFINE b == workspaces[x].attempt
    <3>1. b \in Attempts /\ workspaces'[x] = workspaces[x] /\ b # None
      BY <1>2, <1>10, <2>2 DEF TypeOK, WorkspaceRow
    <3>2. b # a
      BY <1>3, <3>1 DEF Ownership, OwnershipAgrees, WorkspaceSlotHeld
    <3> QED
      BY <1>2, <3>1, <3>2 DEF Fencing, FencingTokens
  <2> QED
    BY <2>1, <2>2
<1>11. EpochsBounded'
  BY <1>7 DEF EpochsBounded
<1>12. FencingTokens'
  BY <1>9, <1>10 DEF FencingTokens
<1> QED
  BY <1>11, <1>12 DEF Fencing

\* Fencing is inductive.
LEMMA NextFencing ==
    ASSUME TypeOK, ForeignKeys, Ownership, Fencing, [AnyCall]_vars
    PROVE  Fencing'
<1>1. CASE AcceptStep
  <2>1. PICK r \in Runs, s \in Sessions, k \in Keys, b \in BOOLEAN :
                AcceptOnce(r, s, k, b)
    BY <1>1 DEF AcceptStep
  <2>2. AcceptEffect(r, s)
    BY <2>1, AcceptOnceEffect
  <2>3. \A p \in Runs : Exists(p) => HomeOf(p)' = HomeOf(p)
    BY <2>2 DEF AcceptEffect, Exists, HomeOf, SessionOf
  <2> QED
    BY <2>2, <2>3, SameEpochsKeepFencing DEF AcceptEffect
<1>2. CASE ClaimStep
  BY <1>2, ClaimKeepsFencing
<1>3. CASE MoveStep
  <2>1. PICK r \in Runs, v \in Nat, t \in Statuses \ {"RUNNING"},
             o \in Outcomes \cup {None} : Transition(r, v, t, o)
    BY <1>3 DEF MoveStep
  <2>2. MoveEffect(r, t)
    BY <2>1, TransitionEffect
  <2>3. \A p \in Runs : HomeOf(p)' = HomeOf(p)
    BY <2>2 DEF MoveEffect, HomeOf, SessionOf
  <2>4. \A w \in Workspaces : /\ workspaces'[w].epoch = workspaces[w].epoch
                              /\ workspaces'[w].attempt \in {workspaces[w].attempt, None}
    BY <2>2 DEF MoveEffect
  <2>5. \A a \in Attempts : /\ attempts'[a].run = attempts[a].run
                            /\ attempts'[a].wsEpoch = attempts[a].wsEpoch
    BY <2>2 DEF MoveEffect
  <2> QED
    BY <2>3, <2>4, <2>5, SameEpochsKeepFencing
<1>4. CASE Frame
  <2>1. \A p \in Runs : HomeOf(p)' = HomeOf(p)
    BY <1>4 DEF Frame, SameRun, HomeOf, SessionOf
  <2> QED
    BY <1>4, <2>1, SameEpochsKeepFencing DEF Frame, SameHolder
<1> QED
  BY <1>1, <1>2, <1>3, <1>4, StepKinds

\* workspace_epoch distinguishes every two claims of a workspace, and the attempt that
\* holds the workspace carries the newest.
THEOREM FencingTheorem == Spec => []FencingTokens
<1>1. Init => TypeOK /\ ForeignKeys /\ Ownership /\ Fencing
  BY InitTypes, InitOwnership, InitFencing
<1>2. TypeOK /\ ForeignKeys /\ Ownership /\ Fencing /\ [Next]_vars
        => (TypeOK /\ ForeignKeys /\ Ownership /\ Fencing)'
  BY NextTypes, NextOwnership, NextFencing, NextIsAnyCall
<1>3. Fencing => FencingTokens
  BY DEF Fencing
<1> QED
  BY <1>1, <1>2, <1>3, PTL DEF Spec

-----------------------------------------------------------------------------
(***************************************************************************)
(* The revision chain.  HolderSawTip is the strengthening: the attempt     *)
(* that holds the workspace started from its latest revision or wrote it.  *)
(***************************************************************************)
Chained == HolderSawTip /\ WrittenByCreated /\ NoLostUpdate

\* There are no revisions at first.
LEMMA InitChained == Init => Chained
<1> SUFFICES ASSUME Init
             PROVE  Chained
  OBVIOUS
<1>1. \A w \in Workspaces : /\ revisions[w] = <<>> /\ Len(revisions[w]) = 0
                            /\ DOMAIN revisions[w] = {}
                            /\ workspaces[w].revision = 0 /\ workspaces[w].attempt = None
  BY DEF Init
<1> QED
  BY <1>1 DEF Chained, HolderSawTip, SawTip, WrittenByCreated, NoLostUpdate

\* Steps that write no revision and give the workspace to nobody new.
LEMMA NoWriteKeepsChained ==
    ASSUME TypeOK, Chained,
           revisions' = revisions,
           \A a \in Attempts : /\ Created(a) => Created(a)'
                               /\ Created(a) => attempts'[a].base = attempts[a].base,
           \A w \in Workspaces :
              /\ workspaces'[w].revision = workspaces[w].revision
              /\ \/ workspaces'[w].attempt = None
                 \/ /\ workspaces'[w].attempt \in Attempts
                    /\ attempts'[workspaces'[w].attempt].base = workspaces[w].revision
                 \/ /\ workspaces'[w].attempt = workspaces[w].attempt
                    /\ Created(workspaces[w].attempt)
    PROVE  Chained'
<1>1. ASSUME NEW w \in Workspaces
      PROVE  SawTip(w)'
  <2>1. SawTip(w) /\ workspaces[w].attempt \in Attempts \cup {None}
    BY DEF Chained, HolderSawTip, TypeOK, WorkspaceRow
  <2> QED
    BY <2>1 DEF SawTip
<1>2. \A w \in Workspaces : \A i \in DOMAIN revisions[w] :
         /\ revisions[w][i].attempt \in Attempts
         /\ Created(revisions[w][i].attempt)
  <2> SUFFICES ASSUME NEW w \in Workspaces, NEW i \in DOMAIN revisions[w]
               PROVE  /\ revisions[w][i].attempt \in Attempts
                      /\ Created(revisions[w][i].attempt)
    OBVIOUS
  <2>1. revisions[w][i] \in RevisionRow
    BY DEF TypeOK
  <2> QED
    BY <2>1 DEF Chained, WrittenByCreated, RevisionRow
<1>3. WrittenByCreated'
  BY <1>2 DEF WrittenByCreated
<1>4. NoLostUpdate'
  BY <1>2 DEF NoLostUpdate, ExtendsSeen, Chained
<1> QED
  BY <1>1, <1>3, <1>4 DEF Chained, HolderSawTip

\* record_workspace_revision extends the chain.
LEMMA RecordKeepsChained ==
    ASSUME TypeOK, ForeignKeys, Ownership, Chained, NEW a \in Attempts,
           RecordWorkspaceRevision(a)
    PROVE  Chained'
<1> DEFINE w   == HomeOf(attempts[a].run)
           n   == Len(revisions[w])
           new == [attempt |-> a, parent |-> workspaces[w].revision]
<1>1. attempts[a].run \in Runs
  BY DEF RecordWorkspaceRevision, Created, TypeOK, AttemptRow
<1>2. w \in Workspaces
  BY <1>1, WorkspaceOfAssumption DEF RecordWorkspaceRevision, ForeignKeys, HomeOf
<1>3. /\ Created(a) /\ workspaces[w].attempt = a
      /\ revisions' = [revisions EXCEPT ![w] = Append(@, new)]
      /\ workspaces' = [workspaces EXCEPT ![w] = AtRevision(@, n + 1)]
      /\ attempts' = attempts
  BY DEF RecordWorkspaceRevision, LeaseValid
<1>4. revisions[w] \in Seq(RevisionRow) /\ n \in Nat /\ DOMAIN revisions[w] = 1 .. n
  BY <1>2 DEF TypeOK
<1>5. /\ AtRevision(workspaces[w], n + 1).attempt = a
      /\ AtRevision(workspaces[w], n + 1).revision = n + 1
  <2>1. workspaces[w] \in WorkspaceRow /\ n + 1 \in Nat
    BY <1>2, <1>4 DEF TypeOK
  <2> QED
    BY <1>3, <2>1, AtRevisionRow
<1>6. /\ revisions'[w] = Append(revisions[w], new)
      /\ \A x \in Workspaces \ {w} : revisions'[x] = revisions[x]
      /\ workspaces'[w].attempt = a /\ workspaces'[w].revision = n + 1
      /\ \A x \in Workspaces \ {w} : workspaces'[x] = workspaces[x]
  BY <1>2, <1>3, <1>5 DEF TypeOK
<1>7. /\ Len(revisions'[w]) = n + 1
      /\ DOMAIN revisions'[w] = 1 .. (n + 1)
      /\ revisions'[w][n + 1] = new
      /\ \A i \in 1 .. n : revisions'[w][i] = revisions[w][i]
  <2>1. new \in RevisionRow
    BY <1>2 DEF RevisionRow, TypeOK, WorkspaceRow
  <2> HIDE DEF new, n
  <2> QED
    BY <1>4, <1>6, <2>1 DEF n
<1>8. /\ workspaces[w].revision = n
      /\ attempts[a].base = n \/ (n > 0 /\ revisions[w][n].attempt = a)
  <2>1. a # None
    BY NoneAssumption
  <2> QED
    BY <1>2, <1>3, <2>1 DEF Chained, HolderSawTip, SawTip
<1>9. ASSUME NEW x \in Workspaces
      PROVE  SawTip(x)'
  <2>1. CASE x = w
    <3>1. /\ workspaces'[w].revision = Len(revisions'[w])
          /\ Len(revisions'[w]) > 0
          /\ revisions'[w][Len(revisions'[w])].attempt = workspaces'[w].attempt
      BY <1>4, <1>6, <1>7
    <3> QED
      BY <2>1, <3>1 DEF SawTip
  <2>2. CASE x # w
    <3>1. SawTip(x) /\ revisions'[x] = revisions[x] /\ workspaces'[x] = workspaces[x]
      BY <1>6, <2>2 DEF Chained, HolderSawTip
    <3> QED
      BY <1>3, <3>1 DEF SawTip
  <2> QED
    BY <2>1, <2>2
<1>10. \A x \in Workspaces : \A i \in DOMAIN revisions'[x] :
          Created(revisions[x][i].attempt)'
  <2>1. \A b : Created(b)' <=> Created(b)
    BY <1>3 DEF Created
  <2>2. \A i \in DOMAIN revisions'[w] : Created(revisions'[w][i].attempt)
    BY <1>2, <1>3, <1>4, <1>7 DEF Chained, WrittenByCreated
  <2> QED
    BY <1>6, <2>1, <2>2 DEF Chained, WrittenByCreated
<1>11. ASSUME NEW i \in DOMAIN revisions'[w]
       PROVE  /\ revisions'[w][i].parent = i - 1
              /\ \/ i > 1 /\ revisions'[w][i - 1].attempt = revisions'[w][i].attempt
                 \/ attempts[revisions'[w][i].attempt].base = i - 1
  <2>1. CASE i = n + 1
    BY <1>4, <1>7, <1>8, <2>1
  <2>2. CASE i # n + 1
    <3>1. i \in 1 .. n /\ (i > 1 => i - 1 \in 1 .. n)
      BY <1>4, <1>7, <2>2
    <3>2. /\ revisions[w][i].parent = i - 1
          /\ \/ i > 1 /\ revisions[w][i - 1].attempt = revisions[w][i].attempt
             \/ attempts[revisions[w][i].attempt].base = i - 1
      BY <1>2, <1>4, <3>1 DEF Chained, NoLostUpdate, ExtendsSeen
    <3> QED
      BY <1>7, <3>1, <3>2
  <2> QED
    BY <2>1, <2>2
<1>12. NoLostUpdate'
  <2>1. ASSUME NEW v \in Workspaces, v # w, NEW i \in DOMAIN revisions'[v]
        PROVE  /\ revisions'[v][i].parent = i - 1
               /\ \/ i > 1 /\ revisions'[v][i - 1].attempt = revisions'[v][i].attempt
                  \/ attempts'[revisions'[v][i].attempt].base = i - 1
    BY <1>3, <1>6, <2>1 DEF Chained, NoLostUpdate, ExtendsSeen
  <2> QED
    BY <1>3, <1>11, <2>1 DEF NoLostUpdate, ExtendsSeen
<1> QED
  BY <1>9, <1>10, <1>12 DEF Chained, HolderSawTip, WrittenByCreated

\* The chain of revisions is inductive.
LEMMA NextChained ==
    ASSUME TypeOK, ForeignKeys, Ownership, Chained, [AnyCall]_vars
    PROVE  Chained'
<1>1. TypeOK'
  BY NextTypes
<1>2. \A w \in Workspaces : workspaces[w].attempt # None => Created(workspaces[w].attempt)
  BY DEF Ownership, OwnershipAgrees, WorkspaceSlotHeld
<1>3. CASE AcceptStep
  <2>1. PICK r \in Runs, s \in Sessions, k \in Keys, b \in BOOLEAN :
                AcceptOnce(r, s, k, b)
    BY <1>3 DEF AcceptStep
  <2>2. /\ revisions' = revisions /\ workspaces' = workspaces /\ attempts' = attempts
    BY <2>1, AcceptOnceEffect DEF AcceptEffect
  <2> QED
    BY <1>2, <2>2, NoWriteKeepsChained DEF Created
<1>4. CASE ClaimStep
  <2>1. PICK r \in Runs, a \in Attempts : ClaimNextRun(r, a)
    BY <1>4 DEF ClaimStep
  <2> DEFINE w == HomeOf(r)
  <2>2. ~Created(a)
    BY <2>1 DEF ClaimNextRun
  <2>effect. ClaimEffect(r, a)
    BY <2>1, ClaimNextRunEffect
  <2>3. /\ revisions' = revisions
        /\ w \in Workspaces
        /\ workspaces'[w].attempt = a
        /\ workspaces'[w].revision = workspaces[w].revision
        /\ \A x \in Workspaces \ {w} : workspaces'[x] = workspaces[x]
        /\ attempts'[a].base = workspaces[w].revision
        /\ \A b \in Attempts \ {a} : attempts'[b] = attempts[b]
    BY <2>effect DEF ClaimEffect
  <2>4. \A b \in Attempts : /\ Created(b) => Created(b)'
                            /\ Created(b) => attempts'[b].base = attempts[b].base
    BY <2>2, <2>3 DEF Created
  <2>5. \A x \in Workspaces :
           /\ workspaces'[x].revision = workspaces[x].revision
           /\ \/ workspaces'[x].attempt = None
              \/ /\ workspaces'[x].attempt \in Attempts
                 /\ attempts'[workspaces'[x].attempt].base = workspaces[x].revision
              \/ /\ workspaces'[x].attempt = workspaces[x].attempt
                 /\ Created(workspaces[x].attempt)
    BY <1>2, <2>3
  <2> QED
    BY <2>3, <2>4, <2>5, NoWriteKeepsChained
<1>5. CASE MoveStep
  <2>1. PICK r \in Runs, v \in Nat, t \in Statuses \ {"RUNNING"},
             o \in Outcomes \cup {None} : Transition(r, v, t, o)
    BY <1>5 DEF MoveStep
  <2>2. MoveEffect(r, t)
    BY <2>1, TransitionEffect
  <2>3. revisions' = revisions
    BY <2>2 DEF MoveEffect
  <2>4. \A b \in Attempts : /\ Created(b) => Created(b)'
                            /\ Created(b) => attempts'[b].base = attempts[b].base
    BY <2>2 DEF MoveEffect, Created
  <2>5. \A x \in Workspaces : /\ workspaces'[x].revision = workspaces[x].revision
                              /\ workspaces'[x].attempt \in {workspaces[x].attempt, None}
    BY <2>2 DEF MoveEffect
  <2> QED
    BY <1>2, <2>3, <2>4, <2>5, NoWriteKeepsChained
<1>6. ASSUME Frame, revisions' = revisions,
             \A w \in Workspaces : workspaces'[w].revision = workspaces[w].revision
      PROVE  Chained'
  BY <1>2, <1>6, NoWriteKeepsChained DEF Frame, SameHolder, Created
<1>7. ASSUME NEW a \in Attempts, RecordWorkspaceRevision(a)
      PROVE  Chained'
  BY <1>7, RecordKeepsChained
<1> QED
  BY <1>3, <1>4, <1>5, <1>6, <1>7, StepKinds

\* The whole inductive invariant holds of the empty tables ...
LEMMA InitStoreInv == Init => StoreInv
BY InitTypes, InitOwnership, InitFencing, InitChained
DEF StoreInv, Ownership, Fencing, Chained

\* ... and any call keeps it, whatever the callers pass and wherever the process dies.
LEMMA AnyCallKeepsStoreInv ==
    ASSUME StoreInv, [AnyCall]_vars
    PROVE  StoreInv'
<1>1. TypeOK /\ ForeignKeys /\ Ownership /\ Fencing /\ Chained
  BY DEF StoreInv, Ownership, Fencing, Chained
<1>2. /\ TypeOK' /\ ForeignKeys'
      /\ Ownership'
      /\ Fencing'
      /\ Chained'
  BY <1>1, NextTypes, NextOwnership, NextFencing, NextChained
<1> QED
  BY <1>2 DEF StoreInv, Ownership, Fencing, Chained

\* StoreInv is an invariant of the store (all methods of sqlite_store that touch the run
\* tables).
THEOREM StoreInvTheorem == Spec => []StoreInv
<1>1. StoreInv /\ [Next]_vars => StoreInv'
  BY AnyCallKeepsStoreInv, NextIsAnyCall DEF StoreInv
<1> QED
  BY <1>1, InitStoreInv, PTL DEF Spec

\* No revision of a workspace overwrites one that its author's claim had not seen.
THEOREM NoLostUpdateTheorem == Spec => []NoLostUpdate
<1>1. StoreInv => NoLostUpdate
  BY DEF StoreInv
<1> QED
  BY <1>1, StoreInvTheorem, PTL

-----------------------------------------------------------------------------
(***************************************************************************)
(* The store implements the abstract workspace lease.                      *)
(***************************************************************************)
LEMMA InitRefines == Init => Lease!Init
<1> SUFFICES ASSUME Init
             PROVE  Lease!Init
  OBVIOUS
<1>1. \A r \in Runs : ~Exists(r)
  BY DEF Init, NoRun, Exists
<1>2. \A w \in Workspaces : /\ HolderOf(w) = None
                            /\ workspaces[w].epoch = 0
                            /\ Len(revisions[w]) = 0
  BY DEF Init, HolderOf
<1> QED
  BY <1>1, <1>2 DEF Lease!Init, PhaseOf

\* A step that moves none of the five abstract variables.
LEMMA StutterRefines ==
    ASSUME \A r \in Runs : /\ PhaseOf(r)' = PhaseOf(r)
                           /\ Exists(r)' <=> Exists(r)
                           /\ Exists(r) => HomeOf(r)' = HomeOf(r),
           \A w \in Workspaces : /\ HolderOf(w)' = HolderOf(w)
                                 /\ workspaces'[w].epoch = workspaces[w].epoch
                                 /\ Len(revisions'[w]) = Len(revisions[w])
    PROVE  [Lease!Next]_(Lease!leaseVars)
BY DEF Lease!leaseVars

\* accept_once submits a run for its session's workspace.
LEMMA AcceptRefines ==
    ASSUME TypeOK, Ownership, NEW r \in Runs, NEW s \in Sessions, AcceptEffect(r, s)
    PROVE  Lease!Submit(r, WorkspaceOf[s])
<1>1. /\ PhaseOf(r) = "unborn"
      /\ PhaseOf(r)' = "pending"
      /\ ~Exists(r) /\ Exists(r)' /\ HomeOf(r)' = WorkspaceOf[s]
  BY DEF AcceptEffect, PhaseOf, Exists, Terminal, TerminalStatuses, HomeOf, SessionOf
<1>2. \A p \in Runs \ {r} :
         PhaseOf(p)' = PhaseOf(p) /\ (Exists(p)' <=> Exists(p)) /\ HomeOf(p)' = HomeOf(p)
  BY DEF AcceptEffect, PhaseOf, Exists, Terminal, HomeOf, SessionOf
<1>3. \A w \in Workspaces : HolderOf(w)' = HolderOf(w)
  BY DEF AcceptEffect, HolderOf
<1>4. workspaces' = workspaces /\ revisions' = revisions
  BY DEF AcceptEffect
<1> QED
  BY <1>1, <1>2, <1>3, <1>4 DEF Lease!Submit

\* claim_next_run grants it.
LEMMA ClaimRefines ==
    ASSUME TypeOK, ForeignKeys, Ownership, NEW r \in Runs, NEW a \in Attempts,
           ClaimNextRun(r, a)
    PROVE  Lease!Grant(r)
<1>effect. ClaimEffect(r, a)
  BY ClaimNextRunEffect
<1>w. PICK w \in Workspaces : w = HomeOf(r)
  BY <1>effect DEF ClaimEffect
<1>1. /\ runs'[r].status = "RUNNING"
      /\ runs'[r].session = runs[r].session
      /\ runs'[r].attempt = a
      /\ \A p \in Runs \ {r} : runs'[p] = runs[p]
      /\ workspaces'[w].attempt = a
      /\ workspaces'[w].epoch = workspaces[w].epoch + 1
      /\ \A x \in Workspaces \ {w} : workspaces'[x] = workspaces[x]
      /\ attempts'[a].run = r
      /\ \A b \in Attempts \ {a} : attempts'[b] = attempts[b]
      /\ revisions' = revisions
  BY <1>effect, <1>w DEF ClaimEffect
<1>2. /\ runs[r].status = "QUEUED" /\ workspaces[w].attempt = None
      /\ sessions[SessionOf(r)].activeRun = None /\ ~Created(a)
  BY <1>w DEF ClaimNextRun, Claimable
<1>3. runs[r].attempt = None
  BY <1>2, NoneAssumption DEF Ownership, OwnershipAgrees, RunHoldsSlots
<1>4. /\ PhaseOf(r) = "pending" /\ Exists(r)
      /\ PhaseOf(r)' = "held" /\ Exists(r)'
  BY <1>1, <1>2, <1>3, NoneAssumption
  DEF PhaseOf, Exists, Terminal, TerminalStatuses
<1>5. \A p \in Runs \ {r} : PhaseOf(p)' = PhaseOf(p) /\ (Exists(p)' <=> Exists(p))
  BY <1>1 DEF PhaseOf, Exists, Terminal
<1>6. \A p \in Runs : HomeOf(p)' = HomeOf(p)
  BY <1>1 DEF HomeOf, SessionOf
<1>7. HolderOf(w) = None /\ HolderOf(w)' = r
  BY <1>1, <1>2, NoneAssumption DEF HolderOf
<1>8. ASSUME NEW x \in Workspaces \ {w}
      PROVE  HolderOf(x)' = HolderOf(x)
  <2>1. WorkspaceSlotHeld(x) /\ workspaces'[x] = workspaces[x]
    BY <1>1 DEF Ownership, OwnershipAgrees
  <2>2. workspaces[x].attempt \in Attempts \cup {None}
    BY DEF TypeOK, WorkspaceRow
  <2>3. workspaces[x].attempt # None => workspaces[x].attempt # a
    BY <1>2, <2>1 DEF WorkspaceSlotHeld
  <2> QED
    BY <1>1, <2>1, <2>2, <2>3 DEF HolderOf
<1>10. [p \in Runs |-> PhaseOf(p)]' = [[p \in Runs |-> PhaseOf(p)] EXCEPT ![r] = "held"]
  BY <1>4, <1>5
<1>11. [x \in Workspaces |-> HolderOf(x)]' = [[x \in Workspaces |-> HolderOf(x)] EXCEPT ![w] = r]
  BY <1>1, <1>7, <1>8
<1>12. [x \in Workspaces |-> workspaces[x].epoch]' =
         [[x \in Workspaces |-> workspaces[x].epoch] EXCEPT ![w] = @ + 1]
  BY <1>1
<1>13. [p \in Runs |-> IF Exists(p) THEN HomeOf(p) ELSE None]' =
         [p \in Runs |-> IF Exists(p) THEN HomeOf(p) ELSE None]
  BY <1>4, <1>5, <1>6
<1>14. [p \in Runs |-> IF Exists(p) THEN HomeOf(p) ELSE None][r] = w
  BY <1>4, <1>w
<1>15. [x \in Workspaces |-> Len(revisions[x])]' = [x \in Workspaces |-> Len(revisions[x])]
  BY <1>1
<1>16. /\ [p \in Runs |-> PhaseOf(p)][r] = "pending"
       /\ [x \in Workspaces |-> HolderOf(x)][w] = None
  BY <1>1, <1>4, <1>7
<1> QED
  BY <1>10, <1>11, <1>12, <1>13, <1>14, <1>15, <1>16 DEF Lease!Grant

\* transition_run to a terminal status finishes a run that holds its workspace and
\* withdraws one that does not; to any other status it changes nothing abstract.
LEMMA MoveRefines ==
    ASSUME TypeOK, ForeignKeys, Ownership, NEW r \in Runs, NEW v,
           NEW t \in Statuses \ {"RUNNING"}, NEW o \in Outcomes \cup {None},
           Transition(r, v, t, o)
    PROVE  [Lease!Next]_(Lease!leaseVars)
<1> DEFINE a == runs[r].attempt
           done == t \in TerminalStatuses
<1>effect. MoveEffect(r, t)
  BY TransitionEffect
<1>w. PICK w \in Workspaces : w = HomeOf(r)
  BY <1>effect DEF MoveEffect
<1>1. /\ Exists(r)
      /\ t \in AllowedTransitions(runs[r].status)
      /\ runs'[r].status = t
      /\ runs'[r].session = runs[r].session
      /\ \A p \in Runs \ {r} : runs'[p] = runs[p]
      /\ \A x \in Workspaces : workspaces'[x].epoch = workspaces[x].epoch
      /\ \A x \in Workspaces \ {w} : workspaces'[x] = workspaces[x]
      /\ \A b \in Attempts : attempts'[b].run = attempts[b].run
      /\ revisions' = revisions
  BY <1>effect, <1>w DEF MoveEffect
<1>2. RunHoldsSlots(r) /\ a \in Attempts \cup {None}
  BY DEF Ownership, OwnershipAgrees, TypeOK, RunRow
<1>3. /\ runs'[r].attempt = IF done THEN None ELSE a
      /\ a = None => workspaces'[w].attempt = workspaces[w].attempt
      /\ ~done => workspaces'[w].attempt = workspaces[w].attempt
      /\ done /\ a # None => workspaces'[w].attempt = None
  BY <1>2, <1>effect, <1>w DEF MoveEffect, RunHoldsSlots
<1>4. ~Terminal(r) /\ Exists(r)'
  BY <1>1, TransitionSources DEF Terminal, Exists
<1>5. \A p \in Runs \ {r} : PhaseOf(p)' = PhaseOf(p) /\ (Exists(p)' <=> Exists(p))
  BY <1>1 DEF PhaseOf, Exists, Terminal
<1>6. \A p \in Runs : HomeOf(p)' = HomeOf(p)
  BY <1>1 DEF HomeOf, SessionOf
<1>7. \A x \in Workspaces :
         workspaces'[x].attempt = workspaces[x].attempt => HolderOf(x)' = HolderOf(x)
  BY <1>1 DEF HolderOf, TypeOK, WorkspaceRow
<1>8. PhaseOf(r) = IF a # None THEN "held" ELSE "pending"
  BY <1>1, <1>4 DEF PhaseOf
<1>9. PhaseOf(r)' = IF done THEN "done" ELSE PhaseOf(r)
  BY <1>1, <1>3, <1>4, <1>8 DEF PhaseOf, Terminal
<1> HIDE DEF done, a
<1>10. w = HomeOf(r) /\ a = runs[r].attempt
  BY <1>w DEF a
<1>11. [p \in Runs |-> IF Exists(p) THEN HomeOf(p) ELSE None]' =
         [p \in Runs |-> IF Exists(p) THEN HomeOf(p) ELSE None]
  BY <1>1, <1>4, <1>5, <1>6
<1>12. /\ [x \in Workspaces |-> workspaces[x].epoch]' =
            [x \in Workspaces |-> workspaces[x].epoch]
       /\ [x \in Workspaces |-> Len(revisions[x])]' = [x \in Workspaces |-> Len(revisions[x])]
  BY <1>1
<1>13. done => [p \in Runs |-> PhaseOf(p)]' = [[p \in Runs |-> PhaseOf(p)] EXCEPT ![r] = "done"]
  BY <1>5, <1>9
<1>14. CASE done /\ a # None
  <2>1. HolderOf(w) = r /\ HolderOf(w)' = None
    BY <1>2, <1>3, <1>10, <1>14 DEF HolderOf, RunHoldsSlots
  <2>2. [x \in Workspaces |-> HolderOf(x)]' =
          [[x \in Workspaces |-> HolderOf(x)] EXCEPT ![w] = None]
    BY <1>1, <1>7, <2>1
  <2>3. /\ [p \in Runs |-> PhaseOf(p)][r] = "held"
        /\ [p \in Runs |-> IF Exists(p) THEN HomeOf(p) ELSE None][r] = w
        /\ [x \in Workspaces |-> HolderOf(x)][w] = r
    BY <1>1, <1>8, <1>10, <1>14, <2>1
  <2>4. Lease!Finish(r)
    BY <1>11, <1>12, <1>13, <1>14, <2>2, <2>3 DEF Lease!Finish
  <2> QED
    BY <2>4 DEF Lease!Next
<1>15. CASE done /\ a = None
  <2>1. [x \in Workspaces |-> HolderOf(x)]' = [x \in Workspaces |-> HolderOf(x)]
    BY <1>1, <1>3, <1>7, <1>15
  <2>2. [p \in Runs |-> PhaseOf(p)][r] = "pending"
    BY <1>8, <1>15
  <2>3. Lease!Withdraw(r)
    BY <1>11, <1>12, <1>13, <1>15, <2>1, <2>2 DEF Lease!Withdraw
  <2> QED
    BY <2>3 DEF Lease!Next
<1>16. CASE ~done
  <2>1. \A p \in Runs : /\ PhaseOf(p)' = PhaseOf(p)
                        /\ Exists(p)' <=> Exists(p)
                        /\ Exists(p) => HomeOf(p)' = HomeOf(p)
    BY <1>1, <1>4, <1>5, <1>6, <1>9, <1>16
  <2>2. \A x \in Workspaces : /\ HolderOf(x)' = HolderOf(x)
                              /\ workspaces'[x].epoch = workspaces[x].epoch
                              /\ Len(revisions'[x]) = Len(revisions[x])
    BY <1>1, <1>3, <1>7, <1>16
  <2> QED
    BY <2>1, <2>2, StutterRefines
<1> QED
  BY <1>14, <1>15, <1>16

\* record_workspace_revision writes for the holder.
LEMMA RecordRefines ==
    ASSUME TypeOK, ForeignKeys, Ownership, NEW a \in Attempts, RecordWorkspaceRevision(a)
    PROVE  \E w \in Workspaces : Lease!Write(w)
<1>1. /\ attempts[a].run \in Runs /\ Created(a)
      /\ workspaces[HomeOf(attempts[a].run)].attempt = a
  BY DEF RecordWorkspaceRevision, LeaseValid, Created, TypeOK, AttemptRow
<1>2. PICK w \in Workspaces : w = HomeOf(attempts[a].run)
  BY <1>1, WorkspaceOfAssumption DEF ForeignKeys, HomeOf
<1>3. HolderOf(w) # None
  BY <1>1, <1>2, NoneAssumption DEF HolderOf
<1>4. Frame
  BY FrameSteps
<1>5. /\ Len(revisions'[w]) = Len(revisions[w]) + 1
      /\ \A x \in Workspaces \ {w} : revisions'[x] = revisions[x]
  <2> DEFINE new == [attempt |-> a, parent |-> workspaces[w].revision]
  <2>1. revisions' = [revisions EXCEPT ![w] = Append(@, new)]
    BY <1>2 DEF RecordWorkspaceRevision
  <2>2. new \in RevisionRow /\ revisions[w] \in Seq(RevisionRow)
    BY <1>2 DEF RevisionRow, TypeOK, WorkspaceRow
  <2> HIDE DEF new
  <2> QED
    BY <1>2, <2>1, <2>2 DEF TypeOK
<1>6. /\ \A p \in Runs : /\ PhaseOf(p)' = PhaseOf(p)
                         /\ Exists(p)' <=> Exists(p)
                         /\ HomeOf(p)' = HomeOf(p)
      /\ \A x \in Workspaces : /\ HolderOf(x)' = HolderOf(x)
                               /\ workspaces'[x].epoch = workspaces[x].epoch
  BY <1>4 DEF Frame, SameRun, SameHolder, PhaseOf, Exists, Terminal, HomeOf, SessionOf,
              HolderOf
<1>7. Lease!Write(w)
  BY <1>2, <1>3, <1>5, <1>6 DEF Lease!Write
<1> QED
  BY <1>7

\* Every step of the tables is a step of the abstract lease or leaves it alone.
LEMMA NextRefines ==
    ASSUME TypeOK, ForeignKeys, Ownership, [AnyCall]_vars
    PROVE  [Lease!Next]_(Lease!leaseVars)
<1>1. CASE AcceptStep
  <2>1. PICK r \in Runs, s \in Sessions, k \in Keys, b \in BOOLEAN :
                AcceptOnce(r, s, k, b)
    BY <1>1 DEF AcceptStep
  <2>2. Lease!Submit(r, WorkspaceOf[s]) /\ WorkspaceOf[s] \in Workspaces
    BY <2>1, AcceptOnceEffect, AcceptRefines, WorkspaceOfAssumption
  <2> QED
    BY <2>2 DEF Lease!Next
<1>2. CASE ClaimStep
  <2>1. PICK r \in Runs, a \in Attempts : ClaimNextRun(r, a)
    BY <1>2 DEF ClaimStep
  <2>2. Lease!Grant(r)
    BY <2>1, ClaimRefines
  <2> QED
    BY <2>2 DEF Lease!Next
<1>3. CASE MoveStep
  BY <1>3, MoveRefines DEF MoveStep
<1>4. ASSUME NEW a \in Attempts, RecordWorkspaceRevision(a)
      PROVE  [Lease!Next]_(Lease!leaseVars)
  BY <1>4, RecordRefines DEF Lease!Next
<1>5. ASSUME Frame, revisions' = revisions
      PROVE  [Lease!Next]_(Lease!leaseVars)
  <2>1. \A p \in Runs : /\ PhaseOf(p)' = PhaseOf(p)
                        /\ Exists(p)' <=> Exists(p)
                        /\ Exists(p) => HomeOf(p)' = HomeOf(p)
    BY <1>5 DEF Frame, SameRun, PhaseOf, Exists, Terminal, HomeOf, SessionOf
  <2>2. \A x \in Workspaces : /\ HolderOf(x)' = HolderOf(x)
                              /\ workspaces'[x].epoch = workspaces[x].epoch
                              /\ Len(revisions'[x]) = Len(revisions[x])
    BY <1>5 DEF Frame, SameHolder, HolderOf
  <2> QED
    BY <2>1, <2>2, StutterRefines
<1> QED
  BY <1>1, <1>2, <1>3, <1>4, <1>5, StepKinds

\* The tables implement an exclusive, fenced lease of each workspace: a run holds its
\* workspace from the claim to its terminal status, and revisions appear only under it.
THEOREM LeaseTheorem == Spec => ImplementsLease
<1>1. Init => TypeOK /\ ForeignKeys /\ Ownership /\ Lease!Init
  BY InitTypes, InitOwnership, InitRefines
<1>2. TypeOK /\ ForeignKeys /\ Ownership /\ [Next]_vars
        => (TypeOK /\ ForeignKeys /\ Ownership)'
  BY NextTypes, NextOwnership, NextIsAnyCall
<1>3. TypeOK /\ ForeignKeys /\ Ownership /\ [Next]_vars
        => [Lease!Next]_(Lease!leaseVars)
  BY NextRefines, NextIsAnyCall
<1> QED
  BY <1>1, <1>2, <1>3, PTL DEF Spec, ImplementsLease, Lease!Spec

-----------------------------------------------------------------------------
(***************************************************************************)
(* The order of messages and retried requests.  Both rest on columns of a  *)
(* run that no method writes twice: its session, its number in the session *)
(* and its key.                                                            *)
(***************************************************************************)
\* The row of run p keeps its session, its number and its key, and does not vanish.
SameIdentity(p) ==
    /\ runs'[p].session = runs[p].session
    /\ runs'[p].seq = runs[p].seq
    /\ runs'[p].key = runs[p].key
    /\ Exists(p)' <=> Exists(p)
Identities ==
    /\ \A p \in Runs : SameIdentity(p)
    /\ \A s \in Sessions : sessions'[s].nextSeq = sessions[s].nextSeq

\* transition_run, and with it cancel_run, writes none of these columns.
LEMMA TransitionKeepsIdentities ==
    ASSUME TypeOK, ForeignKeys, NEW r \in Runs, NEW v, NEW t,
           NEW o \in Outcomes \cup {None}, Transition(r, v, t, o)
    PROVE  Identities
<1> DEFINE s == SessionOf(r)
<1>1. Exists(r) /\ s \in Sessions
  BY DEF Transition, ForeignKeys
<1>2. t \in Statuses /\ t # "ABSENT"
  BY TransitionTargets DEF Transition, Statuses
<1>3. /\ MovedRun(runs[r], t, o).status = t
      /\ MovedRun(runs[r], t, o).session = runs[r].session
      /\ MovedRun(runs[r], t, o).seq = runs[r].seq
      /\ MovedRun(runs[r], t, o).key = runs[r].key
  BY <1>2, MovedRunRow DEF TypeOK
<1>4. MovedSession(sessions[s], r, t).nextSeq = sessions[s].nextSeq
  BY <1>1, MovedSessionRow DEF TypeOK
<1>5. runs'[r] = MovedRun(runs[r], t, o) /\ \A p \in Runs \ {r} : runs'[p] = runs[p]
  BY DEF Transition, TypeOK
<1>6. /\ sessions'[s] = MovedSession(sessions[s], r, t)
      /\ \A x \in Sessions \ {s} : sessions'[x] = sessions[x]
  BY <1>1 DEF Transition, TypeOK
<1>7. \A p \in Runs : SameIdentity(p)
  BY <1>1, <1>2, <1>3, <1>5 DEF SameIdentity, Exists
<1>8. \A x \in Sessions : sessions'[x].nextSeq = sessions[x].nextSeq
  BY <1>4, <1>6
<1> QED
  BY <1>7, <1>8 DEF Identities

\* Nor does claim_next_run.
LEMMA ClaimKeepsIdentities ==
    ASSUME TypeOK, ForeignKeys, NEW r \in Runs, NEW a \in Attempts, ClaimNextRun(r, a)
    PROVE  Identities
<1> DEFINE s == SessionOf(r)
<1>1. Exists(r) /\ s \in Sessions
  BY DEF ClaimNextRun, Claimable, Exists, ForeignKeys
<1>2. /\ StartedRun(runs[r], a).status = "RUNNING"
      /\ StartedRun(runs[r], a).session = runs[r].session
      /\ StartedRun(runs[r], a).seq = runs[r].seq
      /\ StartedRun(runs[r], a).key = runs[r].key
  BY StartedRunRow DEF TypeOK
<1>3. TakenSession(sessions[s], r).nextSeq = sessions[s].nextSeq
  BY <1>1, TakenSessionRow DEF TypeOK
<1>4. runs'[r] = StartedRun(runs[r], a) /\ \A p \in Runs \ {r} : runs'[p] = runs[p]
  BY DEF ClaimNextRun, TypeOK
<1>5. /\ sessions'[s] = TakenSession(sessions[s], r)
      /\ \A x \in Sessions \ {s} : sessions'[x] = sessions[x]
  BY <1>1 DEF ClaimNextRun, TypeOK
<1>6. \A p \in Runs : SameIdentity(p)
  BY <1>1, <1>2, <1>4 DEF SameIdentity, Exists
<1>7. \A x \in Sessions : sessions'[x].nextSeq = sessions[x].nextSeq
  BY <1>3, <1>5
<1> QED
  BY <1>6, <1>7 DEF Identities

\* Nor does append_event, which advances the event counters only.
LEMMA AppendKeepsIdentities ==
    ASSUME TypeOK, ForeignKeys, NEW r \in Runs, AppendEvent(r)
    PROVE  Identities
<1> DEFINE s == SessionOf(r)
<1>1. Exists(r) /\ s \in Sessions
  BY DEF AppendEvent, ForeignKeys
<1>2. /\ ProgressedRun(runs[r]).status = runs[r].status
      /\ ProgressedRun(runs[r]).session = runs[r].session
      /\ ProgressedRun(runs[r]).seq = runs[r].seq
      /\ ProgressedRun(runs[r]).key = runs[r].key
  BY ProgressedRunRow DEF TypeOK
<1>3. LoggedSession(sessions[s]).nextSeq = sessions[s].nextSeq
  BY <1>1, LoggedSessionRow DEF TypeOK
<1>4. runs'[r] = ProgressedRun(runs[r]) /\ \A p \in Runs \ {r} : runs'[p] = runs[p]
  BY DEF AppendEvent, TypeOK
<1>5. /\ sessions'[s] = LoggedSession(sessions[s])
      /\ \A x \in Sessions \ {s} : sessions'[x] = sessions[x]
  BY <1>1 DEF AppendEvent, TypeOK
<1>6. \A p \in Runs : SameIdentity(p)
  BY <1>1, <1>2, <1>4 DEF SameIdentity, Exists
<1>7. \A x \in Sessions : sessions'[x].nextSeq = sessions[x].nextSeq
  BY <1>3, <1>5
<1> QED
  BY <1>6, <1>7 DEF Identities

\* So only accept_once changes them.
LEMMA IdentitiesKept ==
    ASSUME TypeOK, ForeignKeys, [AnyCall]_vars
    PROVE  AcceptStep \/ Identities
<1>1. ASSUME runs' = runs, sessions' = sessions
      PROVE  Identities
  BY <1>1 DEF Identities, SameIdentity, Exists
<1>2. ASSUME NEW q \in Requests, CancelRequest(q) \/ CancelFinish(q)
      PROVE  Identities
  <2>1. cancels[q].run \in Runs
    BY <1>2 DEF CancelRequest, CancelFinish, ForeignKeys
  <2>2. \E v : \E t : Transition(cancels[q].run, v, t, None)
    BY <1>2 DEF CancelRequest, CancelFinish
  <2> QED
    BY <2>1, <2>2, TransitionKeepsIdentities
<1>3. CASE AnyCall
  BY <1>3, <1>1, <1>2, TransitionKeepsIdentities, ClaimKeepsIdentities,
     AppendKeepsIdentities
  DEF AnyCall, AcceptStep, CancelRead, CancelConflict, RecordWorkspaceRevision,
      LeaseExpires, ThreadsDie, tables
<1>4. CASE UNCHANGED vars
  BY <1>4, <1>1 DEF vars
<1> QED
  BY <1>3, <1>4

\* What accept_once puts into the columns.
LEMMA AcceptedIdentity ==
    ASSUME TypeOK, NEW r \in Runs, NEW s \in Sessions, NEW k \in Keys,
           NEW b \in BOOLEAN, AcceptOnce(r, s, k, b)
    PROVE  /\ ~Exists(r) /\ Exists(r)'
           /\ runs'[r].session = s
           /\ runs'[r].key = k
           /\ runs'[r].seq = sessions[s].nextSeq
           /\ \A p \in Runs \ {r} : runs'[p] = runs[p] /\ (Exists(p)' <=> Exists(p))
           /\ sessions'[s].nextSeq = sessions[s].nextSeq + 1
           /\ \A x \in Sessions \ {s} : sessions'[x] = sessions[x]
<1>1. ASSUME NEW new, new = InsertedRun(s, k)
      PROVE  /\ new.status = "QUEUED" /\ new.session = s /\ new.key = k
             /\ new.seq = sessions[s].nextSeq
  BY <1>1 DEF InsertedRun, NoRun
<1>2. AcceptedInto(sessions[s]).nextSeq = sessions[s].nextSeq + 1
  BY AcceptedIntoRow DEF TypeOK
<1>3. runs'[r] = InsertedRun(s, k) /\ \A p \in Runs \ {r} : runs'[p] = runs[p]
  BY DEF AcceptOnce, TypeOK
<1>4. /\ sessions'[s] = AcceptedInto(sessions[s])
      /\ \A x \in Sessions \ {s} : sessions'[x] = sessions[x]
  BY DEF AcceptOnce, TypeOK
<1> QED
  BY <1>1, <1>2, <1>3, <1>4 DEF AcceptOnce, Exists

-----------------------------------------------------------------------------
\* Only a key that no run of the session has is inserted.
LEMMA NextOneRunPerKey ==
    ASSUME TypeOK, ForeignKeys, OneRunPerKey, [AnyCall]_vars
    PROVE  OneRunPerKey'
<1>1. CASE Identities
  BY <1>1 DEF Identities, SameIdentity, OneRunPerKey, SessionOf
<1>2. CASE AcceptStep
  <2>1. PICK r \in Runs, s \in Sessions, k \in Keys, b \in BOOLEAN :
                AcceptOnce(r, s, k, b)
    BY <1>2 DEF AcceptStep
  <2>2. \A p \in Runs : Exists(p) /\ SessionOf(p) = s => runs[p].key # k
    BY <2>1 DEF AcceptOnce, HasKey, RunsOf
  <2> QED
    BY <2>1, <2>2, AcceptedIdentity DEF OneRunPerKey, SessionOf
<1> QED
  BY <1>1, <1>2, IdentitiesKept

\* However requests are retried and interleaved, a session has one run for a key
\* (accept_once).
THEOREM OneRunPerKeyTheorem == Spec => []OneRunPerKey
<1>1. Init => OneRunPerKey
  BY DEF Init, OneRunPerKey, Exists, NoRun
<1>2. TypeOK /\ ForeignKeys /\ OneRunPerKey /\ [Next]_vars => OneRunPerKey'
  BY NextOneRunPerKey, NextIsAnyCall
<1> QED
  BY <1>1, <1>2, TypeCorrect, PTL DEF Spec

-----------------------------------------------------------------------------
(***************************************************************************)
(* Order.  A run accepted later has a larger number (Numbered); a run that *)
(* is claimed has no queued predecessor, and as the session's slot is free *)
(* none of its predecessors owns anything, so all of them are finished or  *)
(* being cancelled.                                                        *)
(***************************************************************************)
Numbered == \A r \in Runs : Exists(r) => runs[r].seq < sessions[SessionOf(r)].nextSeq
\* What InOrderExecution asks of a predecessor.
Behind(p) == /\ runs[p].status \in TerminalStatuses \cup {"CANCELLING"}
             /\ runs[p].attempt = None
Precedes(p, r) == SessionOf(p) = SessionOf(r) /\ runs[p].seq < runs[r].seq
Order == Numbered /\ \A r, p \in Runs :
                        Claimed(r) /\ Exists(p) /\ Precedes(p, r) => Behind(p)

\* Order is InOrderExecution with the numbering.
LEMMA OrderIsInOrder == Order => InOrderExecution
BY DEF Order, InOrderExecution, Behind, Precedes

\* The counter of a session stays above the numbers it has given out.
LEMMA NextNumbered ==
    ASSUME TypeOK, ForeignKeys, Numbered, [AnyCall]_vars
    PROVE  Numbered'
<1>1. CASE Identities
  BY <1>1 DEF Identities, SameIdentity, Numbered, SessionOf, ForeignKeys
<1>2. CASE AcceptStep
  <2>1. PICK r \in Runs, s \in Sessions, k \in Keys, b \in BOOLEAN :
                AcceptOnce(r, s, k, b)
    BY <1>2 DEF AcceptStep
  <2>2. sessions[s].nextSeq \in Nat /\ \A p \in Runs : runs[p].seq \in Nat
    BY DEF TypeOK, SessionRow, RunRow
  <2>3. /\ runs'[r].session = s
        /\ runs'[r].seq = sessions[s].nextSeq
        /\ \A p \in Runs \ {r} : runs'[p] = runs[p] /\ (Exists(p)' <=> Exists(p))
        /\ sessions'[s].nextSeq = sessions[s].nextSeq + 1
        /\ \A x \in Sessions \ {s} : sessions'[x] = sessions[x]
    BY <2>1, AcceptedIdentity
  <2>4. ASSUME NEW p \in Runs, Exists(p)'
        PROVE  runs'[p].seq < sessions'[runs'[p].session].nextSeq
    <3>1. CASE p = r
      BY <3>1, <2>2, <2>3
    <3>2. CASE p # r
      <4>1. Exists(p) /\ runs'[p] = runs[p] /\ runs[p].session \in Sessions
        BY <3>2, <2>3, <2>4 DEF ForeignKeys, SessionOf
      <4>2. runs[p].seq < sessions[runs[p].session].nextSeq
        BY <4>1 DEF Numbered, SessionOf
      <4> QED
        BY <4>1, <4>2, <2>2, <2>3
    <3> QED
      BY <3>1, <3>2
  <2> QED
    BY <2>4 DEF Numbered, SessionOf
<1> QED
  BY <1>1, <1>2, IdentitiesKept

\* A newly accepted run precedes none and has not been claimed.
LEMMA AcceptKeepsOrder ==
    ASSUME TypeOK, ForeignKeys, Order, AcceptStep
    PROVE  \A r, p \in Runs : (Claimed(r) /\ Exists(p) /\ Precedes(p, r) => Behind(p))'
<1>1. PICK n \in Runs, s \in Sessions, k \in Keys, b \in BOOLEAN :
              AcceptOnce(n, s, k, b)
  BY DEF AcceptStep
<1>2. /\ ~Exists(n)
      /\ runs'[n].session = s /\ runs'[n].seq = sessions[s].nextSeq
      /\ \A p \in Runs \ {n} : runs'[p] = runs[p] /\ (Exists(p)' <=> Exists(p))
  BY <1>1, AcceptedIdentity
<1>3. attempts' = attempts
  BY <1>1 DEF AcceptOnce
<1>4. \A r \in Runs : (Claimed(r)' <=> Claimed(r)) /\ (Claimed(r) => Exists(r))
  BY <1>3, NoneAssumption DEF Claimed, ForeignKeys, Created
<1> SUFFICES ASSUME NEW r \in Runs, NEW p \in Runs,
                    Claimed(r)', Exists(p)', Precedes(p, r)'
             PROVE  Behind(p)'
  OBVIOUS
<1>5. Claimed(r) /\ Exists(r) /\ r # n /\ runs'[r] = runs[r]
  BY <1>2, <1>4
<1>6. p # n
  <2>1. SUFFICES ASSUME p = n
                 PROVE  FALSE
    OBVIOUS
  <2>2. runs[r].session = s /\ sessions[s].nextSeq < runs[r].seq
    BY <1>2, <1>5, <2>1 DEF Precedes, SessionOf
  <2>3. runs[r].seq < sessions[s].nextSeq
    BY <1>5, <2>2 DEF Order, Numbered, SessionOf
  <2>4. runs[r].seq \in Nat /\ sessions[s].nextSeq \in Nat
    BY DEF TypeOK, RunRow, SessionRow
  <2> QED
    BY <2>2, <2>3, <2>4
<1>7. Exists(p) /\ runs'[p] = runs[p] /\ Precedes(p, r)
  BY <1>2, <1>5, <1>6 DEF Precedes, SessionOf
<1>8. Behind(p)
  BY <1>5, <1>7 DEF Order
<1> QED
  BY <1>7, <1>8 DEF Behind

\* The run that is claimed finds all its predecessors finished or being cancelled.
LEMMA ClaimKeepsOrder ==
    ASSUME TypeOK, ForeignKeys, Ownership, Order, ClaimStep, Identities
    PROVE  \A r, p \in Runs : (Claimed(r) /\ Exists(p) /\ Precedes(p, r) => Behind(p))'
<1>1. PICK m \in Runs, a \in Attempts : ClaimNextRun(m, a)
  BY DEF ClaimStep
<1>2. ClaimEffect(m, a)
  BY <1>1, ClaimNextRunEffect
<1>3. /\ runs[m].status = "QUEUED" /\ sessions[SessionOf(m)].activeRun = None
      /\ NoEarlierQueued(m) /\ attempts[a].run = None
  BY <1>1 DEF ClaimNextRun, Claimable, Created
<1>4. /\ \A p \in Runs \ {m} : runs'[p] = runs[p]
      /\ attempts'[a].run = m
      /\ \A b \in Attempts \ {a} : attempts'[b] = attempts[b]
  BY <1>2 DEF ClaimEffect
<1>5. \A r \in Runs : r # m => (Claimed(r)' <=> Claimed(r))
  BY <1>3, <1>4, NoneAssumption DEF Claimed
<1>6. \A r, p \in Runs : (Precedes(p, r)' <=> Precedes(p, r)) /\ (Exists(p)' <=> Exists(p))
  BY DEF Identities, SameIdentity, Precedes, SessionOf
<1>7. \A r \in Runs : runs[r].seq \in Nat
  BY DEF TypeOK, RunRow
<1> SUFFICES ASSUME NEW r \in Runs, NEW p \in Runs,
                    Claimed(r)', Exists(p)', Precedes(p, r)'
             PROVE  Behind(p)'
  OBVIOUS
<1>8. Exists(p) /\ Precedes(p, r)
  BY <1>6
<1>9. Behind(p)
  <2>1. CASE r # m
    BY <2>1, <1>5, <1>8 DEF Order
  <2>2. CASE r = m
    <3>1. SessionOf(p) = SessionOf(m) /\ runs[p].seq < runs[m].seq
      BY <2>2, <1>8 DEF Precedes
    <3>2. runs[p].status # "QUEUED"
      BY <3>1, <1>3, <1>7, <1>8 DEF NoEarlierQueued, RunsOf
    <3>3. RunHoldsSlots(p) /\ StatusOwnsSlots(p)
      BY DEF Ownership, OwnershipAgrees
    <3>4. runs[p].attempt = None
      BY <3>1, <3>3, <1>3, NoneAssumption DEF RunHoldsSlots
    <3>5. runs[p].status \in Statuses
      BY <1>8 DEF TypeOK, RunRow, Exists
    <3> QED
      BY <3>2, <3>3, <3>4, <3>5
      DEF StatusOwnsSlots, Behind, Statuses, WaitingStatuses, TerminalStatuses
  <2> QED
    BY <2>1, <2>2
<1>10. p # m
  BY <1>3, <1>9 DEF Behind, TerminalStatuses
<1> QED
  BY <1>4, <1>9, <1>10 DEF Behind

\* A finished run does not move, and one that is being cancelled only finishes.
LEMMA MoveKeepsOrder ==
    ASSUME TypeOK, ForeignKeys, Order, MoveStep, Identities
    PROVE  \A r, p \in Runs : (Claimed(r) /\ Exists(p) /\ Precedes(p, r) => Behind(p))'
<1>1. PICK m \in Runs, v \in Nat, t \in Statuses \ {"RUNNING"},
           o \in Outcomes \cup {None} : Transition(m, v, t, o)
  BY DEF MoveStep
<1>2. MoveEffect(m, t)
  BY <1>1, TransitionEffect
<1>3. /\ t \in AllowedTransitions(runs[m].status)
      /\ runs'[m].status = t
      /\ t \in TerminalStatuses => runs'[m].attempt = None
      /\ \A p \in Runs \ {m} : runs'[p] = runs[p]
      /\ \A b \in Attempts : attempts'[b].run = attempts[b].run
  BY <1>2 DEF MoveEffect
<1>4. \A r \in Runs : Claimed(r)' <=> Claimed(r)
  BY <1>3 DEF Claimed
<1>5. \A r, p \in Runs : (Precedes(p, r)' <=> Precedes(p, r)) /\ (Exists(p)' <=> Exists(p))
  BY DEF Identities, SameIdentity, Precedes, SessionOf
<1>6. ASSUME NEW p \in Runs, Behind(p)
      PROVE  Behind(p)'
  <2>1. CASE p # m
    BY <2>1, <1>3, <1>6 DEF Behind
  <2>2. CASE p = m
    <3>1. t \in TerminalStatuses
      BY <2>2, <1>3, <1>6
      DEF Behind, AllowedTransitions, TerminalStatuses, WaitingStatuses
    <3> QED
      BY <2>2, <3>1, <1>3 DEF Behind
  <2> QED
    BY <2>1, <2>2
<1> QED
  BY <1>4, <1>5, <1>6 DEF Order

\* Order is inductive.
LEMMA NextOrder ==
    ASSUME TypeOK, ForeignKeys, Ownership, Order, [AnyCall]_vars
    PROVE  Order'
<1>1. Numbered'
  BY NextNumbered DEF Order
<1>2. CASE AcceptStep
  BY <1>1, <1>2, AcceptKeepsOrder DEF Order
<1>3. CASE Identities /\ ClaimStep
  BY <1>1, <1>3, ClaimKeepsOrder DEF Order
<1>4. CASE Identities /\ MoveStep
  BY <1>1, <1>4, MoveKeepsOrder DEF Order
<1>5. CASE Identities /\ Frame
  <2>1. \A r, p \in Runs : /\ Precedes(p, r)' <=> Precedes(p, r)
                           /\ Exists(p)' <=> Exists(p)
                           /\ Claimed(r)' <=> Claimed(r)
                           /\ Behind(p) => Behind(p)'
    BY <1>5 DEF Identities, SameIdentity, Frame, SameRun, Precedes, SessionOf, Claimed,
                Behind
  <2> QED
    BY <1>1, <2>1 DEF Order
<1> QED
  BY <1>2, <1>3, <1>4, <1>5, IdentitiesKept, StepKinds

\* Messages of a session are executed in the order in which accept_once numbered them,
\* whatever cancellations take out of the queue (claim_next_run).
THEOREM InOrderTheorem == Spec => []InOrderExecution
<1>1. Init => TypeOK /\ ForeignKeys /\ Ownership /\ Order
  <2>1. Init => Order
    BY NoneAssumption DEF Init, Order, Numbered, Exists, Claimed, NoRun, NoAttempt
  <2> QED
    BY <2>1, InitTypes, InitOwnership
<1>2. TypeOK /\ ForeignKeys /\ Ownership /\ Order /\ [Next]_vars
        => (TypeOK /\ ForeignKeys /\ Ownership /\ Order)'
  BY NextTypes, NextOwnership, NextOrder, NextIsAnyCall
<1>3. Order => InOrderExecution
  BY OrderIsInOrder
<1> QED
  BY <1>1, <1>2, <1>3, PTL DEF Spec
-----------------------------------------------------------------------------
(***************************************************************************)
(* The event log.  A method that writes an event advances the counters of  *)
(* its run and its session with it (RunLogs); every other method leaves    *)
(* the log and what it is compared with alone (LogQuiet).                  *)
(***************************************************************************)
\* Events are in the log of their run's session, and of runs that exist.
LoggedHome ==
    \A s \in Sessions : \A i \in DOMAIN events[s] :
        \E p \in Runs : p = events[s][i].run /\ Exists(p) /\ SessionOf(p) = s
LogInv == LoggedHome /\ EventLogReplays

\* Run r moves, and says so: what the event is, and what the counters do.
RunLogs(r, s, type) ==
    /\ SessionOf(r)' = s /\ Exists(r)'
    /\ LogEvent(r, IF Exists(r) THEN runs[r].nextEvent ELSE 1, s, type)
    /\ Exists(r) => SessionOf(r) = s /\ runs'[r].nextEvent = runs[r].nextEvent + 1
    /\ ~Exists(r) => runs'[r].nextEvent = 2
    /\ \A p \in Runs \ {r} : runs'[p] = runs[p]
    /\ sessions'[s].nextEvent = sessions[s].nextEvent + 1
    /\ \A x \in Sessions \ {s} : sessions'[x].nextEvent = sessions[x].nextEvent
    /\ \/ /\ type = "progress" /\ Exists(r)
          /\ runs'[r].status = runs[r].status /\ runs'[r].version = runs[r].version
          /\ runs'[r].attempt = runs[r].attempt
       \/ type = "run.accepted" /\ ~Exists(r) /\ runs'[r].version = 0
       \/ /\ type \in RunEventTypes /\ Exists(r) /\ type = EventTypeOf(runs'[r].status)
          /\ runs'[r].version = runs[r].version + 1

\* A method that writes no event.
LogQuiet ==
    /\ events' = events
    /\ \A p \in Runs : /\ runs'[p].status = runs[p].status
                       /\ runs'[p].session = runs[p].session
                       /\ runs'[p].version = runs[p].version
                       /\ runs'[p].attempt = runs[p].attempt
                       /\ runs'[p].nextEvent = runs[p].nextEvent
    /\ \A s \in Sessions : sessions'[s].nextEvent = sessions[s].nextEvent

\* accept_once numbers the first event of a run.
LEMMA AcceptLogs ==
    ASSUME TypeOK, NEW r \in Runs, NEW s \in Sessions, NEW k \in Keys,
           NEW b \in BOOLEAN, AcceptOnce(r, s, k, b)
    PROVE  RunLogs(r, s, "run.accepted")
<1>1. ASSUME NEW new, new = InsertedRun(s, k)
      PROVE  /\ new.status = "QUEUED" /\ new.session = s
             /\ new.version = 0 /\ new.nextEvent = 2
  BY <1>1 DEF InsertedRun, NoRun
<1>2. AcceptedInto(sessions[s]).nextEvent = sessions[s].nextEvent + 1
  BY AcceptedIntoRow DEF TypeOK
<1>3. runs'[r] = InsertedRun(s, k) /\ \A p \in Runs \ {r} : runs'[p] = runs[p]
  BY DEF AcceptOnce, TypeOK
<1>4. /\ sessions'[s] = AcceptedInto(sessions[s])
      /\ \A x \in Sessions \ {s} : sessions'[x] = sessions[x]
  BY DEF AcceptOnce, TypeOK
<1>5. ~Exists(r) /\ LogEvent(r, 1, s, "run.accepted")
  BY DEF AcceptOnce
<1>6. /\ runs'[r].status = "QUEUED" /\ runs'[r].session = s
      /\ runs'[r].version = 0 /\ runs'[r].nextEvent = 2
  BY <1>1, <1>3
<1>7. SessionOf(r)' = s /\ Exists(r)'
  BY <1>6 DEF SessionOf, Exists
<1> QED
  BY <1>2, <1>3, <1>4, <1>5, <1>6, <1>7 DEF RunLogs

\* claim_next_run announces the start.
LEMMA ClaimLogs ==
    ASSUME TypeOK, ForeignKeys, NEW r \in Runs, NEW a \in Attempts, ClaimNextRun(r, a)
    PROVE  RunLogs(r, SessionOf(r), "run.started")
<1> DEFINE s == SessionOf(r)
<1>1. Exists(r) /\ s \in Sessions
  BY DEF ClaimNextRun, Claimable, Exists, ForeignKeys
<1>2. /\ StartedRun(runs[r], a).status = "RUNNING"
      /\ StartedRun(runs[r], a).session = runs[r].session
      /\ StartedRun(runs[r], a).version = runs[r].version + 1
      /\ StartedRun(runs[r], a).nextEvent = runs[r].nextEvent + 1
  BY StartedRunRow DEF TypeOK
<1>3. TakenSession(sessions[s], r).nextEvent = sessions[s].nextEvent + 1
  BY <1>1, TakenSessionRow DEF TypeOK
<1>4. runs'[r] = StartedRun(runs[r], a) /\ \A p \in Runs \ {r} : runs'[p] = runs[p]
  BY DEF ClaimNextRun, TypeOK
<1>5. /\ sessions'[s] = TakenSession(sessions[s], r)
      /\ \A x \in Sessions \ {s} : sessions'[x] = sessions[x]
  BY <1>1 DEF ClaimNextRun, TypeOK
<1>6. LogEvent(r, runs[r].nextEvent, s, "run.started")
  BY DEF ClaimNextRun
<1>7. "run.started" \in RunEventTypes /\ EventTypeOf("RUNNING") = "run.started"
  BY DEF RunEventTypes, EventTypeOf, TerminalStatuses, WaitingStatuses
<1>8. SessionOf(r)' = s /\ Exists(r)'
  BY <1>2, <1>4 DEF SessionOf, Exists
<1> QED
  BY <1>1, <1>2, <1>3, <1>4, <1>5, <1>6, <1>7, <1>8 DEF RunLogs

\* transition_run and cancel_run announce the status they reach.
LEMMA TransitionLogs ==
    ASSUME TypeOK, ForeignKeys, NEW r \in Runs, NEW v, NEW t,
           NEW o \in Outcomes \cup {None}, Transition(r, v, t, o)
    PROVE  RunLogs(r, SessionOf(r), EventTypeOf(t))
<1> DEFINE s == SessionOf(r)
<1>1. Exists(r) /\ s \in Sessions
  BY DEF Transition, ForeignKeys
<1>2. t \in Statuses /\ t # "ABSENT"
  BY TransitionTargets DEF Transition, Statuses
<1>3. /\ MovedRun(runs[r], t, o).status = t
      /\ MovedRun(runs[r], t, o).session = runs[r].session
      /\ MovedRun(runs[r], t, o).version = runs[r].version + 1
      /\ MovedRun(runs[r], t, o).nextEvent = runs[r].nextEvent + 1
  BY <1>2, MovedRunRow DEF TypeOK
<1>4. MovedSession(sessions[s], r, t).nextEvent = sessions[s].nextEvent + 1
  BY <1>1, MovedSessionRow DEF TypeOK
<1>5. runs'[r] = MovedRun(runs[r], t, o) /\ \A p \in Runs \ {r} : runs'[p] = runs[p]
  BY DEF Transition, TypeOK
<1>6. /\ sessions'[s] = MovedSession(sessions[s], r, t)
      /\ \A x \in Sessions \ {s} : sessions'[x] = sessions[x]
  BY <1>1 DEF Transition, TypeOK
<1>7. LogEvent(r, runs[r].nextEvent, s, EventTypeOf(t))
  BY DEF Transition
<1>8. EventTypeOf(t) \in RunEventTypes
  BY DEF Transition, AllowedTransitions, WaitingStatuses, TerminalStatuses, EventTypeOf,
         RunEventTypes
<1>9. SessionOf(r)' = s /\ Exists(r)'
  BY <1>2, <1>3, <1>5 DEF SessionOf, Exists
<1> QED
  BY <1>1, <1>3, <1>4, <1>5, <1>6, <1>7, <1>8, <1>9 DEF RunLogs

\* append_event announces progress and moves nothing.
LEMMA AppendLogs ==
    ASSUME TypeOK, ForeignKeys, NEW r \in Runs, AppendEvent(r)
    PROVE  RunLogs(r, SessionOf(r), "progress")
<1> DEFINE s == SessionOf(r)
<1>1. Exists(r) /\ s \in Sessions
  BY DEF AppendEvent, ForeignKeys
<1>2. /\ ProgressedRun(runs[r]).status = runs[r].status
      /\ ProgressedRun(runs[r]).session = runs[r].session
      /\ ProgressedRun(runs[r]).version = runs[r].version
      /\ ProgressedRun(runs[r]).attempt = runs[r].attempt
      /\ ProgressedRun(runs[r]).nextEvent = runs[r].nextEvent + 1
  BY ProgressedRunRow DEF TypeOK
<1>3. LoggedSession(sessions[s]).nextEvent = sessions[s].nextEvent + 1
  BY <1>1, LoggedSessionRow DEF TypeOK
<1>4. runs'[r] = ProgressedRun(runs[r]) /\ \A p \in Runs \ {r} : runs'[p] = runs[p]
  BY DEF AppendEvent, TypeOK
<1>5. /\ sessions'[s] = LoggedSession(sessions[s])
      /\ \A x \in Sessions \ {s} : sessions'[x] = sessions[x]
  BY <1>1 DEF AppendEvent, TypeOK
<1>6. LogEvent(r, runs[r].nextEvent, s, "progress")
  BY DEF AppendEvent
<1>7. SessionOf(r)' = s /\ Exists(r)'
  BY <1>1, <1>2, <1>4 DEF SessionOf, Exists
<1> QED
  BY <1>1, <1>2, <1>3, <1>4, <1>5, <1>6, <1>7 DEF RunLogs

\* Every call of the store does one or the other.
LEMMA StepLogs ==
    ASSUME TypeOK, ForeignKeys, [AnyCall]_vars
    PROVE  \/ \E r \in Runs, s \in Sessions, type \in EventTypes : RunLogs(r, s, type)
           \/ LogQuiet
<1>1. ASSUME events' = events, runs' = runs, sessions' = sessions
      PROVE  LogQuiet
  BY <1>1 DEF LogQuiet
<1>2. ASSUME NEW r \in Runs, NEW v, NEW t, NEW o \in Outcomes \cup {None},
             Transition(r, v, t, o)
      PROVE  \E x \in Runs, s \in Sessions, type \in EventTypes : RunLogs(x, s, type)
  <2>1. SessionOf(r) \in Sessions /\ EventTypeOf(t) \in EventTypes
    BY <1>2, TransitionTargets DEF Transition, ForeignKeys
  <2> QED
    BY <1>2, <2>1, TransitionLogs
<1>3. ASSUME NEW q \in Requests, CancelRequest(q) \/ CancelFinish(q)
      PROVE  \E x \in Runs, s \in Sessions, type \in EventTypes : RunLogs(x, s, type)
  <2>1. cancels[q].run \in Runs
    BY <1>3 DEF CancelRequest, CancelFinish, ForeignKeys
  <2> QED
    BY <1>2, <1>3, <2>1 DEF CancelRequest, CancelFinish
<1>4. ASSUME NEW r \in Runs, NEW a \in Attempts, ClaimNextRun(r, a)
      PROVE  \E x \in Runs, s \in Sessions, type \in EventTypes : RunLogs(x, s, type)
  <2>1. SessionOf(r) \in Sessions /\ "run.started" \in EventTypes
    BY <1>4 DEF ClaimNextRun, Claimable, Exists, ForeignKeys, EventTypes, RunEventTypes
  <2> QED
    BY <1>4, <2>1, ClaimLogs
<1>5. ASSUME NEW r \in Runs, AppendEvent(r)
      PROVE  \E x \in Runs, s \in Sessions, type \in EventTypes : RunLogs(x, s, type)
  <2>1. SessionOf(r) \in Sessions /\ "progress" \in EventTypes
    BY <1>5 DEF AppendEvent, ForeignKeys, EventTypes
  <2> QED
    BY <1>5, <2>1, AppendLogs
<1>6. ASSUME NEW r \in Runs, NEW s \in Sessions, NEW k \in Keys, NEW b \in BOOLEAN,
             AcceptOnce(r, s, k, b)
      PROVE  \E x \in Runs, y \in Sessions, type \in EventTypes : RunLogs(x, y, type)
  <2>1. "run.accepted" \in EventTypes
    BY DEF EventTypes, RunEventTypes
  <2> QED
    BY <1>6, <2>1, AcceptLogs
<1>7. CASE AnyCall
  BY <1>7, <1>1, <1>2, <1>3, <1>4, <1>5, <1>6
  DEF AnyCall, CancelRead, CancelConflict, RecordWorkspaceRevision, LeaseExpires,
      ThreadsDie, tables
<1> QED
  BY <1>7, <1>1 DEF vars

\* state_version tells readers apart: a row whose version has not moved has not moved.
LEMMA VersionsMove ==
    ASSUME TypeOK, ForeignKeys, [AnyCall]_vars, NEW p \in Runs, Exists(p)
    PROVE  /\ Exists(p)'
           /\ \/ /\ runs'[p].version = runs[p].version
                 /\ runs'[p].status = runs[p].status
                 /\ runs'[p].attempt = runs[p].attempt
              \/ runs'[p].version = runs[p].version + 1
<1>1. ASSUME NEW r \in Runs, NEW s \in Sessions, NEW type \in EventTypes, RunLogs(r, s, type)
      PROVE  /\ Exists(p)'
             /\ \/ /\ runs'[p].version = runs[p].version
                   /\ runs'[p].status = runs[p].status
                   /\ runs'[p].attempt = runs[p].attempt
                \/ runs'[p].version = runs[p].version + 1
  BY <1>1 DEF RunLogs, Exists
<1> QED
  BY <1>1, StepLogs DEF LogQuiet, Exists

-----------------------------------------------------------------------------
\* What one more event does to the log: everything before it stays where it is.
LEMMA LogGrows ==
    ASSUME TypeOK, NEW r \in Runs, NEW s \in Sessions, NEW n, NEW type,
           LogEvent(r, n, s, type)
    PROVE  LET last == Len(events[s]) + 1
           IN  /\ last \in Nat
               /\ DOMAIN events[s] = 1 .. Len(events[s])
               /\ DOMAIN events'[s] = 1 .. last
               /\ Len(events'[s]) = last
               /\ events'[s][last].run = r
               /\ events'[s][last].seq = n
               /\ events'[s][last].sessionSeq = sessions[s].nextEvent
               /\ events'[s][last].type = type
               /\ \A i \in DOMAIN events[s] : i # last /\ events'[s][i] = events[s][i]
               /\ \A x \in Sessions \ {s} : events'[x] = events[x]
<1> DEFINE e == EventFor(r, n, s, type)
           last == Len(events[s]) + 1
<1>1. events' = [events EXCEPT ![s] = Append(@, e)]
  BY DEF LogEvent
<1>2. events[s] \in Seq(EventRow) /\ s \in DOMAIN events
  BY DEF TypeOK
<1>3. /\ e.run = r /\ e.seq = n /\ e.type = type
      /\ e.sessionSeq = sessions[s].nextEvent
  BY DEF EventFor
<1>4. events'[s] = Append(events[s], e) /\ \A x \in Sessions \ {s} : events'[x] = events[x]
  BY <1>1 DEF TypeOK
<1>5. last \in Nat /\ DOMAIN events[s] = 1 .. Len(events[s]) /\ Len(events[s]) \in Nat
  BY <1>2
<1> HIDE DEF e
<1>6. /\ Len(Append(events[s], e)) = last
      /\ DOMAIN Append(events[s], e) = 1 .. last
      /\ Append(events[s], e)[last] = e
      /\ \A i \in 1 .. Len(events[s]) : Append(events[s], e)[i] = events[s][i]
  BY <1>2
<1>7. \A i \in 1 .. Len(events[s]) : i # last
  BY <1>5
<1> QED
  BY <1>3, <1>4, <1>5, <1>6, <1>7

\* The log of a run that does not move is the same.
LEMMA OthersLogStays ==
    ASSUME TypeOK, ForeignKeys, NEW r \in Runs, NEW s \in Sessions, NEW type,
           RunLogs(r, s, type), NEW p \in Runs, p # r, Exists(p)
    PROVE  /\ Exists(p)' /\ SessionOf(p)' = SessionOf(p) /\ runs'[p] = runs[p]
           /\ EventsOf(p)' = EventsOf(p)
           /\ RunLog(p)' = RunLog(p)
           /\ \A i \in EventsOf(p) :
                 events'[SessionOf(p)][i] = events[SessionOf(p)][i]
<1> DEFINE last == Len(events[s]) + 1
<1>1. runs'[p] = runs[p]
  BY DEF RunLogs
<1>2. Exists(p)' /\ SessionOf(p)' = SessionOf(p) /\ SessionOf(p) \in Sessions
  BY <1>1 DEF Exists, SessionOf, ForeignKeys
<1>3. PICK n : LogEvent(r, n, s, type)
  BY DEF RunLogs
<1>4. /\ last \in Nat
      /\ DOMAIN events[s] = 1 .. Len(events[s])
      /\ DOMAIN events'[s] = 1 .. last
      /\ events'[s][last].run = r
      /\ \A i \in DOMAIN events[s] : i # last /\ events'[s][i] = events[s][i]
      /\ \A x \in Sessions \ {s} : events'[x] = events[x]
  BY <1>3, LogGrows
<1>5. CASE SessionOf(p) # s
  <2>1. events'[SessionOf(p)] = events[SessionOf(p)]
    BY <1>2, <1>4, <1>5
  <2> QED
    BY <1>1, <1>2, <2>1 DEF EventsOf, RunLog
<1>6. CASE SessionOf(p) = s
  <2>1. Len(events[s]) \in Nat /\ DOMAIN events'[s] = DOMAIN events[s] \cup {last}
    <3>1. Len(events[s]) \in Nat
      BY DEF TypeOK
    <3> QED
      BY <1>4, <3>1
  <2>2. \A i : i \in EventsOf(p)' <=> i \in EventsOf(p)
    BY <1>2, <1>4, <1>6, <2>1 DEF EventsOf
  <2>3. EventsOf(p)' = EventsOf(p)
    BY <2>2
  <2>4. \A i \in EventsOf(p) : events'[SessionOf(p)][i] = events[SessionOf(p)][i]
    BY <1>4, <1>6 DEF EventsOf
  <2>5. RunLog(p)' = RunLog(p)
    BY <1>2, <2>3, <2>4 DEF RunLog
  <2> QED
    BY <1>1, <1>2, <2>3, <2>4, <2>5
<1> QED
  BY <1>5, <1>6

\* What is in the log of a run, which may be new.
EventsSoFar(r) == IF Exists(r) THEN EventsOf(r) ELSE {}
RunLogSoFar(r) == IF Exists(r) THEN RunLog(r) ELSE {}

\* The log of the run that moves grows by the new position, the largest of all.
LEMMA OwnLogGrows ==
    ASSUME TypeOK, ForeignKeys, LoggedHome, NEW r \in Runs, NEW s \in Sessions,
           NEW type \in EventTypes, RunLogs(r, s, type)
    PROVE  LET last == Len(events[s]) + 1
               old  == EventsSoFar(r)
               log  == RunLogSoFar(r)
           IN  /\ last \in Nat
               /\ old \subseteq 1 .. last - 1 /\ log \subseteq old
               /\ EventsOf(r)' = old \cup {last}
               /\ RunLog(r)' = IF type \in RunEventTypes THEN log \cup {last} ELSE log
               /\ \A i \in old : events'[s][i] = events[s][i]
               /\ events'[s][last].seq = IF Exists(r) THEN runs[r].nextEvent ELSE 1
               /\ events'[s][last].type = type
<1> DEFINE last   == Len(events[s]) + 1
           old    == EventsSoFar(r)
           oldLog == RunLogSoFar(r)
<1>1. LogEvent(r, IF Exists(r) THEN runs[r].nextEvent ELSE 1, s, type)
  BY DEF RunLogs
<1>2. /\ last \in Nat
      /\ DOMAIN events[s] = 1 .. Len(events[s])
      /\ DOMAIN events'[s] = 1 .. last
      /\ events'[s][last].run = r
      /\ events'[s][last].seq = IF Exists(r) THEN runs[r].nextEvent ELSE 1
      /\ events'[s][last].type = type
      /\ \A i \in DOMAIN events[s] : i # last /\ events'[s][i] = events[s][i]
  BY <1>1, LogGrows
<1>3. Len(events[s]) \in Nat
  BY DEF TypeOK
<1>4. DOMAIN events'[s] = DOMAIN events[s] \cup {last}
  BY <1>2, <1>3
<1>5. SessionOf(r)' = s /\ (Exists(r) => SessionOf(r) = s)
  BY DEF RunLogs
<1>6. \A i \in DOMAIN events[s] : events[s][i].run = r <=> i \in old
  BY <1>5 DEF EventsOf, EventsSoFar, LoggedHome
<1>7. old \subseteq DOMAIN events[s]
  BY <1>5 DEF EventsOf, EventsSoFar
<1>8. \A i : i \in EventsOf(r)' <=> i \in old \cup {last}
  BY <1>2, <1>4, <1>5, <1>6, <1>7 DEF EventsOf
<1>9. EventsOf(r)' = old \cup {last}
  BY <1>8
<1>10. oldLog = {i \in old : events[s][i].type \in RunEventTypes}
  BY <1>5 DEF RunLog, RunLogSoFar, EventsSoFar
<1>11. \A i : i \in RunLog(r)' <=>
               i \in (IF type \in RunEventTypes THEN oldLog \cup {last} ELSE oldLog)
  BY <1>2, <1>5, <1>7, <1>9, <1>10 DEF RunLog
<1>12. RunLog(r)' = IF type \in RunEventTypes THEN oldLog \cup {last} ELSE oldLog
  BY <1>11
<1>13. old \subseteq 1 .. last - 1 /\ oldLog \subseteq old
  BY <1>2, <1>3, <1>7, <1>10
<1> QED
  BY <1>2, <1>7, <1>9, <1>12, <1>13

\* One more element, larger than the others: how the set counts.
LEMMA CountOneMore ==
    ASSUME NEW last \in Nat, NEW S, S \subseteq 1 .. last - 1
    PROVE  /\ IsFiniteSet(S) /\ Cardinality(S) \in Nat
           /\ IsFiniteSet(S \cup {last})
           /\ Cardinality(S \cup {last}) = Cardinality(S) + 1
           /\ UpTo(S \cup {last}, last) = S \cup {last}
           /\ \A i \in S : UpTo(S \cup {last}, i) = UpTo(S, i)
<1>1. IsFiniteSet(1 .. last - 1)
  BY FS_Interval
<1>2. IsFiniteSet(S) /\ Cardinality(S) \in Nat
  BY <1>1, FS_Subset, FS_CardinalityType
<1>3. last <= last /\ last \notin S /\ \A i \in S : i \in Int /\ i <= last /\ ~(last <= i)
  OBVIOUS
<1>4. IsFiniteSet(S \cup {last}) /\ Cardinality(S \cup {last}) = Cardinality(S) + 1
  BY <1>2, <1>3, FS_AddElement
<1>5. \A j : j \in UpTo(S \cup {last}, last) <=> j \in S \cup {last}
  BY <1>3 DEF UpTo
<1>6. ASSUME NEW i \in S
      PROVE  UpTo(S \cup {last}, i) = UpTo(S, i)
  BY <1>3, <1>6 DEF UpTo
<1> QED
  BY <1>2, <1>4, <1>5, <1>6

\* The run that moves still replays: its event carries the next number, and announces
\* what the row now says.
LEMMA OwnReplays ==
    ASSUME TypeOK, ForeignKeys, LogInv, NEW r \in Runs, NEW s \in Sessions,
           NEW type \in EventTypes, RunLogs(r, s, type)
    PROVE  RunReplays(r)'
<1>1. PICK last : last = Len(events[s]) + 1
  OBVIOUS
<1>2. PICK old : old = EventsSoFar(r)
  OBVIOUS
<1>3. PICK oldLog : oldLog = RunLogSoFar(r)
  OBVIOUS
<1>4. /\ last \in Nat
      /\ old \subseteq 1 .. last - 1 /\ oldLog \subseteq old
      /\ EventsOf(r)' = old \cup {last}
      /\ RunLog(r)' = IF type \in RunEventTypes THEN oldLog \cup {last} ELSE oldLog
      /\ \A i \in old : events'[s][i] = events[s][i]
      /\ events'[s][last].seq = IF Exists(r) THEN runs[r].nextEvent ELSE 1
      /\ events'[s][last].type = type
  <2>1. LoggedHome
    BY DEF LogInv
  <2> QED
    BY <2>1, <1>1, <1>2, <1>3, OwnLogGrows
<1>5. oldLog \subseteq 1 .. last - 1
  BY <1>4
<1>6. SessionOf(r)' = s /\ (Exists(r) => SessionOf(r) = s /\ RunReplays(r))
  BY DEF RunLogs, LogInv, EventLogReplays
<1>7. runs[r].version \in Nat
  BY DEF TypeOK, RunRow
<1>8. /\ Cardinality(old) \in Nat /\ Cardinality(oldLog) \in Nat
      /\ Cardinality(old \cup {last}) = Cardinality(old) + 1
      /\ Cardinality(oldLog \cup {last}) = Cardinality(oldLog) + 1
      /\ UpTo(old \cup {last}, last) = old \cup {last}
      /\ \A i \in old : UpTo(old \cup {last}, i) = UpTo(old, i)
  BY <1>4, <1>5, CountOneMore
<1>9. (IF Exists(r) THEN runs[r].nextEvent ELSE 1) = Cardinality(old) + 1
  BY <1>2, <1>6, FS_EmptySet DEF RunReplays, EventsSoFar
<1>10. runs'[r].nextEvent = Cardinality(EventsOf(r)') + 1
  BY <1>4, <1>8, <1>9 DEF RunLogs
<1>11. \A i \in old : events[s][i].seq = Cardinality(UpTo(old, i))
  BY <1>2, <1>6 DEF RunReplays, EventsSoFar
<1>12. \A i \in old \cup {last} :
           events'[s][i].seq = Cardinality(UpTo(old \cup {last}, i))
  BY <1>4, <1>8, <1>9, <1>11
<1>13. Exists(r) => /\ Cardinality(oldLog) = runs[r].version + 1
                    /\ \E i \in oldLog : /\ events[s][i].type = Announced(r)
                                         /\ \A j \in oldLog : j <= i
  BY <1>3, <1>6 DEF RunReplays, RunLogSoFar
<1>14. ~Exists(r) => Cardinality(oldLog) = 0
  BY <1>3, FS_EmptySet DEF RunLogSoFar
<1>15. /\ Cardinality(RunLog(r)') = runs'[r].version + 1
       /\ \E i \in RunLog(r)' : /\ events'[s][i].type = Announced(r)'
                                /\ \A j \in RunLog(r)' : j <= i
  <2>1. CASE type = "progress"
    <3>1. type \notin RunEventTypes
      BY <2>1 DEF RunEventTypes
    <3>2. /\ Exists(r) /\ runs'[r].status = runs[r].status
          /\ runs'[r].version = runs[r].version
      BY <2>1, <3>1 DEF RunLogs
    <3>3. RunLog(r)' = oldLog /\ Announced(r)' = Announced(r)
      BY <1>4, <3>1, <3>2 DEF Announced
    <3> QED
      BY <1>4, <1>13, <3>2, <3>3
  <2>2. CASE type # "progress"
    <3>1. type \in RunEventTypes
      BY <2>2 DEF EventTypes
    <3>2. RunLog(r)' = oldLog \cup {last}
      BY <1>4, <3>1
    <3>3. /\ Cardinality(oldLog) + 1 = runs'[r].version + 1
          /\ Announced(r)' = type
      <4>1. CASE Exists(r)
        BY <2>2, <4>1, <1>7, <1>13 DEF RunLogs, Announced
      <4>2. CASE ~Exists(r)
        BY <2>2, <4>2, <1>14 DEF RunLogs, Announced
      <4> QED
        BY <4>1, <4>2
    <3>4. \A j \in oldLog \cup {last} : j <= last
      BY <1>4, <1>5
    <3> QED
      BY <1>4, <1>8, <3>2, <3>3, <3>4
  <2> QED
    BY <2>1, <2>2
<1> QED
  BY <1>4, <1>6, <1>10, <1>12, <1>15 DEF RunReplays

\* A run that does not move replays as before.
LEMMA OthersReplay ==
    ASSUME TypeOK, ForeignKeys, LogInv, NEW r \in Runs, NEW s \in Sessions,
           NEW type \in EventTypes, RunLogs(r, s, type), NEW p \in Runs, p # r, Exists(p)
    PROVE  RunReplays(p)'
<1>1. RunReplays(p)
  BY DEF LogInv, EventLogReplays
<1>2. /\ SessionOf(p)' = SessionOf(p) /\ runs'[p] = runs[p]
      /\ EventsOf(p)' = EventsOf(p)
      /\ RunLog(p)' = RunLog(p)
      /\ \A i \in EventsOf(p) : events'[SessionOf(p)][i] = events[SessionOf(p)][i]
  BY OthersLogStays
<1>3. RunLog(p) \subseteq EventsOf(p) /\ Announced(p)' = Announced(p)
  BY <1>2 DEF RunLog, Announced
<1> QED
  BY <1>1, <1>2, <1>3 DEF RunReplays

\* The sessions' own numbering goes on, and events stay where their runs are.
LEMMA LogsKeepLogInv ==
    ASSUME TypeOK, ForeignKeys, LogInv, NEW r \in Runs, NEW s \in Sessions,
           NEW type \in EventTypes, RunLogs(r, s, type)
    PROVE  LogInv'
<1> DEFINE last == Len(events[s]) + 1
<1>1. PICK n : LogEvent(r, n, s, type)
  BY DEF RunLogs
<1>2. /\ last \in Nat
      /\ DOMAIN events[s] = 1 .. Len(events[s])
      /\ DOMAIN events'[s] = 1 .. last
      /\ Len(events'[s]) = last
      /\ events'[s][last].run = r
      /\ events'[s][last].sessionSeq = sessions[s].nextEvent
      /\ \A i \in DOMAIN events[s] : i # last /\ events'[s][i] = events[s][i]
      /\ \A x \in Sessions \ {s} : events'[x] = events[x]
  BY <1>1, LogGrows
<1>3. Len(events[s]) \in Nat
  BY DEF TypeOK
<1>4. DOMAIN events'[s] = DOMAIN events[s] \cup {last}
  BY <1>2, <1>3
<1>5. /\ sessions'[s].nextEvent = sessions[s].nextEvent + 1
      /\ \A x \in Sessions \ {s} : sessions'[x].nextEvent = sessions[x].nextEvent
      /\ SessionOf(r)' = s /\ Exists(r)'
      /\ Exists(r) => SessionOf(r) = s
      /\ \A p \in Runs \ {r} : runs'[p] = runs[p]
  BY DEF RunLogs
<1>6. \A x \in Sessions : SessionReplays(x)
  BY DEF LogInv, EventLogReplays
<1>7. ASSUME NEW x \in Sessions
      PROVE  SessionReplays(x)'
  <2>1. CASE x = s
    BY <2>1, <1>2, <1>3, <1>4, <1>5, <1>6 DEF SessionReplays
  <2>2. CASE x # s
    BY <2>2, <1>2, <1>5, <1>6 DEF SessionReplays
  <2> QED
    BY <2>1, <2>2
<1>8. \A p \in Runs : Exists(p) => Exists(p)' /\ SessionOf(p)' = SessionOf(p)
  BY <1>5 DEF Exists, SessionOf
<1>9. LoggedHome
  BY DEF LogInv
<1>10. LoggedHome'
  <2>1. ASSUME NEW x \in Sessions, NEW i \in DOMAIN events'[x]
        PROVE  \E p \in Runs : p = events'[x][i].run /\ Exists(p)' /\ SessionOf(p)' = x
    <3>1. CASE x = s /\ i = last
      BY <3>1, <1>2, <1>5
    <3>2. CASE ~(x = s /\ i = last)
      <4>1. i \in DOMAIN events[x] /\ events'[x][i] = events[x][i]
        BY <3>2, <2>1, <1>2, <1>4
      <4>2. PICK p \in Runs : p = events[x][i].run /\ Exists(p) /\ SessionOf(p) = x
        BY <4>1, <1>9 DEF LoggedHome
      <4> QED
        BY <4>1, <4>2, <1>8
    <3> QED
      BY <3>1, <3>2
  <2> QED
    BY <2>1 DEF LoggedHome
<1>11. ASSUME NEW p \in Runs, Exists(p)'
       PROVE  RunReplays(p)'
  <2>1. CASE p = r
    BY <2>1, OwnReplays
  <2>2. CASE p # r
    <3>1. Exists(p)
      BY <1>5, <1>11, <2>2 DEF Exists
    <3> QED
      BY <2>2, <3>1, OthersReplay
  <2> QED
    BY <2>1, <2>2
<1> QED
  BY <1>7, <1>10, <1>11 DEF LogInv, EventLogReplays

\* A call that writes no event changes nothing the log is compared with.
LEMMA QuietKeepsLogInv ==
    ASSUME TypeOK, ForeignKeys, LogInv, LogQuiet
    PROVE  LogInv'
<1>1. \A p \in Runs : /\ Exists(p)' <=> Exists(p)
                      /\ SessionOf(p)' = SessionOf(p)
                      /\ EventsOf(p)' = EventsOf(p)
                      /\ RunLog(p)' = RunLog(p)
                      /\ Announced(p)' = Announced(p)
                      /\ runs'[p].version = runs[p].version
                      /\ runs'[p].nextEvent = runs[p].nextEvent
  BY DEF LogQuiet, Exists, SessionOf, EventsOf, RunLog, Announced
<1>2. events' = events /\ LoggedHome
  BY DEF LogQuiet, LogInv
<1>3. LoggedHome'
  BY <1>1, <1>2 DEF LoggedHome
<1>4. \A s \in Sessions : SessionReplays(s)'
  BY DEF LogQuiet, LogInv, EventLogReplays, SessionReplays
<1>5. ASSUME NEW p \in Runs, Exists(p)'
      PROVE  RunReplays(p)'
  <2>1. RunReplays(p)
    BY <1>1, <1>5 DEF LogInv, EventLogReplays
  <2> QED
    BY <1>1, <2>1 DEF RunReplays, LogQuiet
<1> QED
  BY <1>3, <1>4, <1>5 DEF LogInv, EventLogReplays

\* The log replays to the tables after any call.
LEMMA AnyCallKeepsLogInv ==
    ASSUME TypeOK, ForeignKeys, LogInv, [AnyCall]_vars
    PROVE  LogInv'
BY StepLogs, LogsKeepLogInv, QuietKeepsLogInv

\* There is nothing to replay at first.
LEMMA InitLogInv == Init => LogInv
<1> SUFFICES ASSUME Init
             PROVE  LogInv
  OBVIOUS
<1>1. \A s \in Sessions : events[s] = <<>> /\ sessions[s].nextEvent = 1
  BY DEF Init
<1>2. \A r \in Runs : ~Exists(r)
  BY DEF Init, Exists, NoRun
<1>3. \A s \in Sessions : SessionReplays(s)
  BY <1>1 DEF SessionReplays
<1>4. LoggedHome
  BY <1>1 DEF LoggedHome
<1> QED
  BY <1>2, <1>3, <1>4 DEF LogInv, EventLogReplays

\* The event log of every session replays to the rows: whatever is called in whatever
\* order, no number is skipped or given twice and the last run-level event of a run
\* announces its status (_insert_event_locked and the counters beside it).
THEOREM EventLogTheorem == Spec => []EventLogReplays
<1>1. TypeOK /\ ForeignKeys /\ LogInv /\ [Next]_vars => (TypeOK /\ ForeignKeys /\ LogInv)'
  BY NextTypes, AnyCallKeepsLogInv, NextIsAnyCall
<1>2. LogInv => EventLogReplays
  BY DEF LogInv
<1> QED
  BY <1>1, <1>2, InitTypes, InitLogInv, PTL DEF Spec

-----------------------------------------------------------------------------
(***************************************************************************)
(* All of it, for the modules that put callers around the store: whatever  *)
(* makes its changes by calls of the store inherits what is proved here.   *)
(***************************************************************************)
TablesInv == StoreInv /\ LogInv /\ Order /\ OneRunPerKey

\* What sqlite_store promises of the run tables.
TablesSafe ==
    /\ OwnershipAgrees /\ FencingTokens /\ NoLostUpdate
    /\ OneRunPerKey /\ InOrderExecution /\ EventLogReplays

\* Empty tables.
LEMMA InitTables == Init => TablesInv
<1>1. Init => Order /\ OneRunPerKey
  BY NoneAssumption
  DEF Init, Order, OneRunPerKey, Numbered, Exists, Claimed, NoRun, NoAttempt
<1> QED
  BY <1>1, InitStoreInv, InitLogInv DEF TablesInv

\* Any call of the store keeps all of it.
LEMMA AnyCallKeepsTables ==
    ASSUME TablesInv, [AnyCall]_vars
    PROVE  TablesInv'
<1>1. TypeOK /\ ForeignKeys /\ Ownership
  BY DEF TablesInv, StoreInv, Ownership
<1> QED
  BY <1>1, AnyCallKeepsStoreInv, AnyCallKeepsLogInv, NextOrder, NextOneRunPerKey DEF TablesInv

\* The invariant implies every promise.
LEMMA TablesAreSafe == TablesInv => TablesSafe
  BY OrderIsInOrder DEF TablesInv, TablesSafe, StoreInv, LogInv
=============================================================================
