--------------------------- MODULE SessionProofs ---------------------------
(***************************************************************************)
(* Proofs about PendingReply and SessionStream: what an answer does to the *)
(* tables, and that the streams of a session implement the event feed, for *)
(* any number of clients, messages and questions and any size of a page.   *)
(***************************************************************************)
EXTENDS SessionStream, RunStoreSafety, SequenceTheorems, WellFoundedInduction

-----------------------------------------------------------------------------
(***************************************************************************)
(* The inductive invariant.  First what answering relies on: a message     *)
(* that was asked about keeps its attempt, a file without an accepted      *)
(* answer is of one that did not commit, and every accepted answer has its *)
(* own run.resumed event.                                                  *)
(***************************************************************************)
ReplyTypes ==
    /\ pendings \in [Pendings -> PendingRow]
    /\ answers \in [Pendings -> Texts \cup {None}]
    /\ orphans \subseteq Pendings \X Texts
AskedHolds ==
    \A p \in Pendings :
        Asked(p) => /\ Exists(pendings[p].run)
                    /\ Terminal(pendings[p].run) \/ runs[pendings[p].run].attempt # None
ResolvedAsked == \A p \in Pendings : Resolved(p) => Asked(p)
OnlyLeftFiles ==
    \A p \in Pendings : ~Resolved(p) /\ answers[p] # None => <<p, answers[p]>> \in orphans
ResumesCount ==
    \A r \in Runs :
        Exists(r) => /\ IsFiniteSet(ResolvedOf(r))
                     /\ Cardinality(ResolvedOf(r)) <= Cardinality(Resumed(r))
ReplyInv ==
    /\ StoreInv /\ LogInv
    /\ ReplyTypes /\ AskedHolds /\ ResolvedAsked
    /\ OnlyLeftFiles /\ AnswerIsStored /\ ResumesCount

(***************************************************************************)
(* Then what the streams rely on: messages of the session are numbered,    *)
(* only the last of them may be unfinished, a row that has moved says so,  *)
(* and run.finished is the last word on a message.                         *)
(***************************************************************************)
UnfinishedIsLast ==
    \A r, p \in RunsOf(Session) : ~Terminal(r) /\ p # r => runs[p].seq < runs[r].seq
FreshIsQueued == \A r \in Runs : Exists(r) /\ runs[r].version = 0 => runs[r].status = "QUEUED"
FinishIsFinal == \A i \in DOMAIN Log : Log[i].type = "run.finished" => Terminal(Log[i].run)

SessionOrder == Numbered /\ UnfinishedIsLast /\ FreshIsQueued /\ FinishIsFinal

\* Then what each client has: before its stream it has been given nothing, its stream is
\* somewhere in the log, and it has been given what the stream owes it so far; a message
\* it follows or shows is one of the session's.
Attached(c) == clients[c].pc \in Streaming \cup {"closed"}
Known(r) == r \in Runs /\ Exists(r) /\ SessionOf(r) = Session
NothingYet(c) == ~Attached(c) => clients[c].got = <<>>
InLog(c) ==
    /\ clients[c].start <= Cursor
    /\ Attached(c) => clients[c].start <= clients[c].cursor /\ clients[c].cursor <= Cursor
Given(c) ==
    Attached(c) =>
      \A i \in clients[c].start + 1 .. clients[c].cursor :
          clients[c].run \in {None, Log[i].run} =>
              \E n \in DOMAIN clients[c].got : clients[c].got[n] = i
Following(c) == clients[c].run # None => Known(clients[c].run)
Answering(c) ==
    clients[c].pc \in {"version", "respond"} =>
        /\ clients[c].pending \in Pendings /\ clients[c].run # None
        /\ clients[c].run = pendings[clients[c].pending].run
\* At the tail every message that a stream follows is over, or the log has gone on.
AtTail(c) ==
    clients[c].pc = "tail" =>
        \A r \in RunsOf(Session) :
            \/ clients[c].run \notin {None, r}
            \/ Terminal(r)
            \/ \A i \in EventsOf(r) : i > clients[c].cursor
\* A message shown as unfinished had no run.finished when it was read.
Showing(c) ==
    clients[c].shown # None =>
        /\ clients[c].pc \in Streaming \cup {"closed", "snapshot"}
        /\ Known(clients[c].shown) /\ clients[c].run = None
        /\ clients[c].mark <= Cursor
        /\ \A i \in FinishOf(clients[c].shown) : i > clients[c].mark
        /\ clients[c].pc = "closed" =>
             \E i \in FinishOf(clients[c].shown) : i <= clients[c].cursor
ClientOK(c) ==
    /\ NothingYet(c) /\ InLog(c) /\ Given(c) /\ Following(c)
    /\ Answering(c) /\ AtTail(c) /\ Showing(c)
SessionInv ==
    /\ ReplyInv /\ SessionOrder
    /\ clients \in [Clients -> ClientRow]
    /\ \A c \in Clients : ClientOK(c)

-----------------------------------------------------------------------------
(***************************************************************************)
(* What a step does to the tables and to the questions.                    *)
(***************************************************************************)
AnswerStep ==
    \/ UNCHANGED replyVars
    \/ \E p \in Pendings, r \in Runs : InsertPending(p, r)
    \/ \E p \in Pendings, v \in Nat, text \in Texts :
          Accepted(p, v, text)
    \/ \E p \in Pendings, text \in Texts : LeavesFile(p, text) /\ UNCHANGED pendings

\* Resuming a run is one of the calls of the store.
LEMMA AcceptedIsCall ==
    ASSUME TypeOK, ReplyTypes, AskedHolds, NEW p \in Pendings, NEW v \in Nat, NEW text,
           Accepted(p, v, text)
    PROVE  AnyCall
<1>1. pendings[p].run \in Runs
  BY DEF Accepted, Open, Asked, ReplyTypes, PendingRow
<1>2. "QUEUED" \in Statuses \ {"RUNNING"}
  BY DEF Statuses
<1>3. Transition(pendings[p].run, v, "QUEUED", None) /\ UNCHANGED cancels
  BY DEF Accepted
<1> QED
  BY <1>1, <1>2, <1>3 DEF AnyCall

\* A client answers the question it read, with the version it read.
LEMMA RespondsAnswers ==
    ASSUME NEW c \in Clients, NEW text \in Texts, clients \in [Clients -> ClientRow],
           ReplyTypes, Answering(c), Responds(c, text)
    PROVE  AnswerStep /\ (vars' = vars \/ \E p \in Pendings, v \in Nat : Accepted(p, v, text))
<1> DEFINE row == clients[c]
<1>1. row.pending \in Pendings /\ row.version \in Nat
  BY DEF Responds, Answering, ClientRow
<1>2. CASE Accepted(row.pending, row.version, text)
  BY <1>1, <1>2 DEF AnswerStep
<1>3. CASE Refused(row.pending, row.version, text) \/ Fails(row.pending, text)
  BY <1>1, <1>3 DEF AnswerStep, Refused, RolledBackRow, Fails, ReplyTypes
<1>4. CASE Repeated(row.pending, text) \/ Contradicts(row.pending, text)
  BY <1>4 DEF AnswerStep, Repeated, Contradicts
<1> QED
  BY <1>2, <1>3, <1>4 DEF Responds

\* Every step is a call of the store, or leaves the tables alone, and answers at most
\* one question.
LEMMA SessionCalls ==
    ASSUME TypeOK, ReplyTypes, AskedHolds, clients \in [Clients -> ClientRow],
           \A c \in Clients : Answering(c), [SessionNext]_sessionVars
    PROVE  [AnyCall]_vars /\ AnswerStep
<1>1. CASE UNCHANGED sessionVars
  BY <1>1 DEF sessionVars, AnswerStep
<1>2. CASE StoreStep
  <2>1. ASSUME NEW r \in Runs, NEW t \in Targets, NEW o \in Outcomes \cup {None},
               TransitionRun(r, t, o)
        PROVE  AnyCall
    <3>1. runs[r].version \in Nat /\ t \in Statuses \ {"RUNNING"}
      BY TargetsAssumption DEF TypeOK, RunRow
    <3> QED
      BY <2>1, <3>1 DEF TransitionRun, AnyCall
  <2>2. ASSUME NEW r \in Runs, NEW k \in Keys, AcceptOnce(r, Session, k, TRUE)
        PROVE  AnyCall
    BY <2>2, SessionAssumption DEF AnyCall
  <2> QED
    BY <1>2, <2>1, <2>2 DEF StoreStep, StoreAction, AnyCall, AnswerStep, TransitionRun, replyVars
<1>3. CASE Asks
  BY <1>3 DEF Asks, AnswerStep, InsertPending
<1>4. CASE ServerDies
  <2>1. AnyCall
    BY <1>4 DEF ServerDies, AnyCall, ThreadsDie
  <2>2. \A c \in Clients : clients[c].pc = "respond" => clients[c].pending \in Pendings
    BY DEF Answering
  <2>3. AnswerStep
    BY <1>4, <2>2 DEF ServerDies, AnswerStep, replyVars
  <2> QED
    BY <2>1, <2>3
<1>5. ASSUME NEW c \in Clients, NEW r \in Runs, NEW k \in Keys, SendSubmits(c, r, k)
      PROVE  [AnyCall]_vars /\ AnswerStep
  BY <1>5, SessionAssumption DEF SendSubmits, AnyCall, AnswerStep
<1>6. ASSUME NEW c \in Clients, NEW text \in Texts, Responds(c, text)
      PROVE  [AnyCall]_vars /\ AnswerStep
  BY <1>6, RespondsAnswers, AcceptedIsCall
<1>7. ASSUME Quiet
      PROVE  [AnyCall]_vars /\ AnswerStep
  BY <1>7 DEF Quiet, AnswerStep
<1>8. CASE ClientStep
  BY <1>8, <1>5, <1>6, <1>7
  DEF ClientStep, Subscribes, SendReads, SendBusy, ReplyReads, ReplyReadsCursor, ReadPage,
      LooksOver, LooksEmpty, Compares, Disconnect, ReadCurrent, Reconnects
<1> QED
  BY <1>1, <1>2, <1>3, <1>4, <1>8 DEF SessionNext

-----------------------------------------------------------------------------
(***************************************************************************)
(* Answers.                                                                *)
(***************************************************************************)
\* A run that was started stays started until it is over, and stays over.
LEMMA HoldsStay ==
    ASSUME StoreInv, [AnyCall]_vars, NEW r \in Runs, Exists(r)
    PROVE  /\ Exists(r)'
           /\ SessionOf(r)' = SessionOf(r)
           /\ Terminal(r) => Terminal(r)'
           /\ runs[r].attempt # None => Terminal(r)' \/ runs'[r].attempt # None
<1>1. TypeOK /\ ForeignKeys
  BY DEF StoreInv
<1>2. CASE AcceptStep
  <2>1. PICK x \in Runs, s \in Sessions, k \in Keys, b \in BOOLEAN : AcceptOnce(x, s, k, b)
    BY <1>2 DEF AcceptStep
  <2>2. r # x
    BY <2>1 DEF AcceptOnce
  <2> QED
    BY <1>1, <2>1, <2>2, AcceptOnceEffect DEF AcceptEffect, Exists, SessionOf, Terminal
<1>3. CASE ClaimStep
  <2>1. PICK x \in Runs, a \in Attempts : ClaimNextRun(x, a)
    BY <1>3 DEF ClaimStep
  <2>2. runs[x].status = "QUEUED" /\ a # None
    BY <2>1, NoneAssumption DEF ClaimNextRun, Claimable
  <2>3. /\ runs'[x].status = "RUNNING" /\ runs'[x].session = runs[x].session
        /\ runs'[x].attempt = a
        /\ \A p \in Runs \ {x} : runs'[p] = runs[p]
    BY <1>1, <2>1, ClaimNextRunEffect DEF ClaimEffect
  <2>4. CASE r = x
    BY <2>2, <2>3, <2>4 DEF Exists, SessionOf, Terminal, TerminalStatuses
  <2>5. CASE r # x
    BY <2>3, <2>5 DEF Exists, SessionOf, Terminal
  <2> QED
    BY <2>4, <2>5
<1>4. CASE MoveStep
  <2>1. PICK x \in Runs, v \in Nat, t \in Statuses \ {"RUNNING"}, o \in Outcomes \cup {None} :
            Transition(x, v, t, o)
    BY <1>4 DEF MoveStep
  <2>2. MoveEffect(x, t)
    BY <1>1, <2>1, TransitionEffect
  <2>3. t # "ABSENT" /\ runs[x].status \notin TerminalStatuses
    BY <2>2, TransitionSources DEF MoveEffect
  <2> QED
    BY <2>2, <2>3 DEF MoveEffect, Exists, SessionOf, Terminal
<1>5. CASE Frame
  BY <1>5 DEF Frame, SameRun, Exists, SessionOf, Terminal
<1> QED
  BY <1>1, <1>2, <1>3, <1>4, <1>5, StepKinds

\* Some positions of a sequence.
LEMMA PositionsFinite ==
    ASSUME NEW S, NEW q \in Seq(S), NEW T, T \subseteq DOMAIN q
    PROVE  /\ T \subseteq 1 .. Len(q)
           /\ IsFiniteSet(T) /\ Cardinality(T) \in Nat
<1>1. DOMAIN q = 1 .. Len(q) /\ Len(q) \in Nat
  OBVIOUS
<1>2. IsFiniteSet(1 .. Len(q))
  BY <1>1, FS_Interval
<1>3. IsFiniteSet(T)
  BY <1>1, <1>2, FS_Subset
<1> QED
  BY <1>1, <1>3, FS_CardinalityType

\* The run.resumed events of a run are part of its session's log, now ...
LEMMA ResumedIsFinite ==
    ASSUME TypeOK, ForeignKeys, NEW r \in Runs, Exists(r)
    PROVE  /\ Resumed(r) \subseteq 1 .. Len(events[SessionOf(r)])
           /\ IsFiniteSet(Resumed(r)) /\ Cardinality(Resumed(r)) \in Nat
<1>1. events[SessionOf(r)] \in Seq(EventRow)
  BY DEF ForeignKeys, TypeOK
<1>2. Resumed(r) \subseteq DOMAIN events[SessionOf(r)]
  BY DEF Resumed, RunLog, EventsOf
<1> QED
  BY <1>1, <1>2, PositionsFinite

\* ... and after the step.
LEMMA ResumedStaysFinite ==
    ASSUME TypeOK', ForeignKeys', NEW r \in Runs, Exists(r)'
    PROVE  Cardinality(Resumed(r)') \in Nat
<1>1. events'[SessionOf(r)'] \in Seq(EventRow)
  BY DEF ForeignKeys, TypeOK
<1>2. Resumed(r)' \subseteq DOMAIN events'[SessionOf(r)']
  BY DEF Resumed, RunLog, EventsOf
<1> QED
  BY <1>1, <1>2, PositionsFinite

\* When its run moves, a run gets at most one more; one when it is resumed.
LEMMA OwnResumes ==
    ASSUME StoreInv, LogInv, NEW r \in Runs, NEW s \in Sessions, NEW type \in EventTypes,
           RunLogs(r, s, type), Exists(r)
    PROVE  /\ Cardinality(Resumed(r)) <= Cardinality(Resumed(r)')
           /\ type = "run.resumed" => Cardinality(Resumed(r)') = Cardinality(Resumed(r)) + 1
<1> DEFINE last == Len(events[s]) + 1
<1>1. TypeOK /\ ForeignKeys /\ LoggedHome
  BY DEF StoreInv, LogInv
<1>2. SessionOf(r) = s /\ SessionOf(r)' = s
  BY DEF RunLogs
<1>3. /\ last \in Nat
      /\ EventsOf(r) \subseteq 1 .. last - 1
      /\ RunLog(r) \subseteq EventsOf(r)
      /\ RunLog(r)' = IF type \in RunEventTypes THEN RunLog(r) \cup {last} ELSE RunLog(r)
      /\ \A i \in EventsOf(r) : events'[s][i] = events[s][i]
      /\ events'[s][last].type = type
  BY <1>1, OwnLogGrows DEF EventsSoFar, RunLogSoFar
<1>4. Resumed(r) \subseteq 1 .. last - 1
  BY <1>3 DEF Resumed
<1>5. CASE type = "run.resumed"
  <2>1. type \in RunEventTypes
    BY <1>5 DEF RunEventTypes
  <2>2. \A i : i \in Resumed(r)' <=> i \in Resumed(r) \cup {last}
    BY <1>2, <1>3, <1>5, <2>1 DEF Resumed
  <2>3. Resumed(r)' = Resumed(r) \cup {last}
    BY <2>2
  <2>4. /\ Cardinality(Resumed(r)) \in Nat
        /\ Cardinality(Resumed(r) \cup {last}) = Cardinality(Resumed(r)) + 1
    BY <1>3, <1>4, CountOneMore
  <2> QED
    BY <2>3, <2>4
<1>6. CASE type # "run.resumed"
  <2>1. \A i : i \in Resumed(r)' <=> i \in Resumed(r)
    BY <1>2, <1>3, <1>6 DEF Resumed
  <2>2. Resumed(r)' = Resumed(r)
    BY <2>1
  <2>3. Cardinality(Resumed(r)) \in Nat
    BY <1>1, ResumedIsFinite
  <2> QED
    BY <1>6, <2>2, <2>3
<1> QED
  BY <1>5, <1>6

\* No call takes an event away.
LEMMA ResumedStays ==
    ASSUME StoreInv, LogInv, [AnyCall]_vars, NEW r \in Runs, Exists(r)
    PROVE  Cardinality(Resumed(r)) <= Cardinality(Resumed(r)')
<1>1. TypeOK /\ ForeignKeys /\ Cardinality(Resumed(r)) \in Nat
  BY ResumedIsFinite DEF StoreInv
<1>2. CASE LogQuiet
  <2>1. Resumed(r)' = Resumed(r)
    BY <1>2 DEF LogQuiet, Resumed, RunLog, EventsOf, SessionOf
  <2> QED
    BY <1>1, <2>1
<1>3. ASSUME NEW x \in Runs, NEW s \in Sessions, NEW type \in EventTypes, RunLogs(x, s, type)
      PROVE  Cardinality(Resumed(r)) <= Cardinality(Resumed(r)')
  <2>1. CASE r = x
    BY <1>3, <2>1, OwnResumes
  <2>2. CASE r # x
    <3>1. /\ SessionOf(r)' = SessionOf(r)
          /\ RunLog(r)' = RunLog(r)
          /\ \A i \in EventsOf(r) : events'[SessionOf(r)][i] = events[SessionOf(r)][i]
      BY <1>1, <1>3, <2>2, OthersLogStays
    <3>2. RunLog(r) \subseteq EventsOf(r)
      BY DEF RunLog
    <3>3. \A i : i \in Resumed(r)' <=> i \in Resumed(r)
      BY <3>1, <3>2 DEF Resumed
    <3>4. Resumed(r)' = Resumed(r)
      BY <3>3
    <3> QED
      BY <1>1, <3>4
  <2> QED
    BY <2>1, <2>2
<1> QED
  BY <1>1, <1>2, <1>3, StepLogs

\* Every question about a run that has been answered has its event.
LEMMA AcceptedResumes ==
    ASSUME StoreInv, LogInv, NEW r \in Runs, NEW v, Transition(r, v, "QUEUED", None)
    PROVE  Exists(r) /\ Cardinality(Resumed(r)') = Cardinality(Resumed(r)) + 1
<1>1. TypeOK /\ ForeignKeys /\ Exists(r) /\ SessionOf(r) \in Sessions
  BY DEF StoreInv, ForeignKeys, Transition
<1>2. EventTypeOf("QUEUED") = "run.resumed" /\ "run.resumed" \in EventTypes
  BY DEF EventTypeOf, TerminalStatuses, WaitingStatuses, EventTypes, RunEventTypes
<1>3. RunLogs(r, SessionOf(r), "run.resumed")
  BY <1>1, <1>2, TransitionLogs
<1> QED
  BY <1>1, <1>2, <1>3, OwnResumes

\* What a question is about does not depend on what other questions are.
LEMMA AnswersElsewhere ==
    ASSUME NEW p \in Pendings, NEW row,
           ReplyTypes, pendings' = [pendings EXCEPT ![p] = row]
    PROVE  /\ pendings'[p] = row
           /\ \A x \in Pendings \ {p} : /\ pendings'[x] = pendings[x]
                                        /\ Asked(x)' <=> Asked(x)
                                        /\ Resolved(x)' <=> Resolved(x)
BY DEF ReplyTypes, Asked, Resolved

\* respond_to_run on a row of the table.
LEMMA AnsweredRowIs ==
    ASSUME NEW row \in PendingRow, NEW text \in Texts
    PROVE  /\ AnsweredRow(row, text) = [run |-> row.run, answer |-> text]
           /\ [run |-> row.run, answer |-> text] \in PendingRow
<1>1. ASSUME NEW new, new = AnsweredRow(row, text)
      PROVE  new = [run |-> row.run, answer |-> text]
  BY <1>1 DEF AnsweredRow, PendingRow
<1>2. [run |-> row.run, answer |-> text] \in PendingRow
  BY DEF PendingRow
<1> QED
  BY <1>1, <1>2

\* The parts of the invariant that speak of questions, for a call that resolves none:
\* they name runs whose hold and whose resumptions no call takes away.
LEMMA CallKeepsQuestions ==
    ASSUME ReplyInv, [AnyCall]_vars, UNCHANGED pendings
    PROVE  StoreInv' /\ LogInv' /\ ResolvedAsked' /\ AskedHolds' /\ ResumesCount'
<1>1. StoreInv' /\ LogInv'
  BY AnyCallKeepsStoreInv, AnyCallKeepsLogInv DEF ReplyInv, StoreInv
<1>2. ResolvedAsked'
  BY DEF ReplyInv, ResolvedAsked, Resolved, Asked
<1>3. AskedHolds'
  <2>1. ASSUME NEW p \in Pendings, Asked(p)'
        PROVE  (/\ Exists(pendings[p].run)
                /\ Terminal(pendings[p].run) \/ runs[pendings[p].run].attempt # None)'
    <3>1. PICK r \in Runs : r = pendings[p].run /\ pendings'[p] = pendings[p] /\ Asked(p)
      BY <2>1 DEF Asked, ReplyInv, ReplyTypes, PendingRow
    <3>2. Exists(r) /\ (Terminal(r) \/ runs[r].attempt # None)
      BY <3>1 DEF ReplyInv, AskedHolds
    <3>3. Exists(r)' /\ (Terminal(r)' \/ runs'[r].attempt # None)
      BY <3>2, HoldsStay DEF ReplyInv
    <3> QED
      BY <3>1, <3>3 DEF Exists, Terminal
  <2> QED
    BY <2>1 DEF AskedHolds
<1>4. ASSUME NEW r \in Runs, Exists(r)'
      PROVE  /\ IsFiniteSet(ResolvedOf(r)')
             /\ Cardinality(ResolvedOf(r)') <= Cardinality(Resumed(r)')
  <2>1. ResolvedOf(r)' = ResolvedOf(r)
    BY DEF ResolvedOf, Resolved
  <2>2. TypeOK' /\ ForeignKeys' /\ Cardinality(Resumed(r)') \in Nat
    BY <1>1, <1>4, ResumedStaysFinite DEF StoreInv
  <2>3. CASE Exists(r)
    <3>1. Cardinality(Resumed(r)) <= Cardinality(Resumed(r)')
      BY <2>3, ResumedStays DEF ReplyInv
    <3>2. IsFiniteSet(ResolvedOf(r)) /\ Cardinality(ResolvedOf(r)) <= Cardinality(Resumed(r))
      BY <2>3 DEF ReplyInv, ResumesCount
    <3>3. Cardinality(Resumed(r)) \in Nat /\ Cardinality(ResolvedOf(r)) \in Nat
      BY <2>3, <3>2, ResumedIsFinite, FS_CardinalityType DEF ReplyInv, StoreInv
    <3> QED
      BY <2>1, <2>2, <3>1, <3>2, <3>3
  <2>4. CASE ~Exists(r)
    <3>1. ResolvedOf(r) = {}
      BY <2>4, NoneAssumption DEF ResolvedOf, ReplyInv, ResolvedAsked, AskedHolds
    <3> QED
      BY <2>1, <2>2, <3>1, FS_EmptySet
  <2> QED
    BY <2>3, <2>4
<1>5. ResumesCount'
  BY <1>4 DEF ResumesCount
<1> QED
  BY <1>1, <1>2, <1>3, <1>5

\* A call of the store touches no file of an answer ...
LEMMA CallKeepsReplies ==
    ASSUME ReplyInv, [AnyCall]_vars, UNCHANGED replyVars
    PROVE  ReplyInv'
<1>1. pendings' = pendings /\ answers' = answers /\ orphans' = orphans
  BY DEF replyVars
<1>2. ReplyTypes' /\ OnlyLeftFiles' /\ AnswerIsStored'
  BY <1>1 DEF ReplyInv, ReplyTypes, OnlyLeftFiles, AnswerIsStored, Resolved
<1> QED
  BY <1>1, <1>2, CallKeepsQuestions DEF ReplyInv

\* ... and an answer that does not commit leaves its file, of a question that is open.
LEMMA LeavesKeepsReplies ==
    ASSUME ReplyInv, [AnyCall]_vars, NEW p \in Pendings, NEW text \in Texts,
           LeavesFile(p, text), UNCHANGED pendings
    PROVE  ReplyInv'
<1>1. ReplyTypes /\ OnlyLeftFiles /\ AnswerIsStored
  BY DEF ReplyInv
<1>2. orphans' = orphans \cup {<<p, text>>} /\ ~Resolved(p)
  BY DEF LeavesFile, Open
<1>3. /\ answers' \in [Pendings -> Texts \cup {None}]
      /\ answers'[p] = IF answers[p] = None THEN text ELSE answers[p]
      /\ \A x \in Pendings \ {p} : answers'[x] = answers[x]
  BY <1>1 DEF LeavesFile, WrittenAnswer, ReplyTypes
<1>4. \A x \in Pendings : Resolved(x)' <=> Resolved(x)
  BY DEF Resolved
<1>5. ReplyTypes' /\ AnswerIsStored'
  BY <1>1, <1>2, <1>3, <1>4 DEF ReplyTypes, AnswerIsStored
<1>6. OnlyLeftFiles'
  BY <1>1, <1>2, <1>3, <1>4 DEF OnlyLeftFiles
<1> QED
  BY <1>5, <1>6, CallKeepsQuestions DEF ReplyInv

\* A question is asked about a run that executes.
LEMMA InsertKeepsReplies ==
    ASSUME ReplyInv, NEW p \in Pendings, NEW r \in Runs, InsertPending(p, r)
    PROVE  ReplyInv'
<1> DEFINE row == [run |-> r, answer |-> pendings[p].answer]
<1>1. /\ StoreInv /\ LogInv /\ TypeOK /\ ReplyTypes /\ ResolvedAsked /\ AskedHolds
      /\ OnlyLeftFiles /\ AnswerIsStored /\ ResumesCount /\ pendings[p] \in PendingRow
  BY DEF ReplyInv, StoreInv, ReplyTypes
<1>2. vars' = vars /\ answers' = answers /\ orphans' = orphans
  BY DEF InsertPending
<1>3. StoreInv' /\ LogInv'
  BY <1>1, <1>2, AnyCallKeepsStoreInv, AnyCallKeepsLogInv DEF StoreInv
<1>4. row = [pendings[p] EXCEPT !.run = r] /\ row \in PendingRow
  <2>1. ASSUME NEW new, new = [pendings[p] EXCEPT !.run = r]
        PROVE  new = row
    BY <2>1, <1>1 DEF PendingRow
  <2>2. row \in PendingRow
    BY <1>1 DEF PendingRow
  <2> QED
    BY <2>1, <2>2
<1>5. pendings' = [pendings EXCEPT ![p] = row]
  BY <1>1, <1>4 DEF InsertPending, ReplyTypes
<1>6. ~Resolved(p) /\ row.answer = None /\ row.run = r /\ r # None
  BY <1>1, NoneAssumption DEF InsertPending, ResolvedAsked, Resolved
<1> HIDE DEF row
<1>7. /\ pendings'[p] = row
      /\ \A x \in Pendings \ {p} : /\ pendings'[x] = pendings[x]
                                   /\ Asked(x)' <=> Asked(x)
                                   /\ Resolved(x)' <=> Resolved(x)
  BY <1>1, <1>5, AnswersElsewhere
<1>8. ReplyTypes'
  BY <1>1, <1>2, <1>4, <1>5 DEF ReplyTypes
<1>9. Asked(p)' /\ ~Resolved(p)'
  BY <1>6, <1>7 DEF Asked, Resolved
<1>10. ResolvedAsked'
  BY <1>1, <1>7, <1>9 DEF ResolvedAsked
<1>11. OnlyLeftFiles' /\ AnswerIsStored'
  BY <1>1, <1>2, <1>6, <1>7, <1>9 DEF OnlyLeftFiles, AnswerIsStored
<1>12. \A x \in Runs : /\ Exists(x)' <=> Exists(x)
                       /\ Terminal(x)' <=> Terminal(x)
                       /\ runs'[x] = runs[x]
                       /\ Resumed(x)' = Resumed(x)
  BY <1>2 DEF vars, Exists, Terminal, Resumed, RunLog, EventsOf, SessionOf
<1>13. AskedHolds'
  <2>1. Exists(r) /\ runs[r].attempt # None
    BY <1>1 DEF InsertPending, StoreInv, OwnershipAgrees, StatusOwnsSlots
  <2>2. \A x \in Pendings \ {p} : Asked(x) => pendings[x].run \in Runs
    BY <1>1 DEF ReplyTypes, PendingRow, Asked
  <2>3. runs' = runs
    BY <1>2 DEF vars
  <2> QED
    BY <1>1, <1>6, <1>7, <2>1, <2>2, <2>3 DEF AskedHolds, Exists, Terminal
<1>14. \A x \in Runs : ResolvedOf(x)' = ResolvedOf(x)
  <2>1. ASSUME NEW x \in Runs
        PROVE  \A y : y \in ResolvedOf(x)' <=> y \in ResolvedOf(x)
    BY <1>6, <1>7, <1>9 DEF ResolvedOf
  <2> QED
    BY <2>1
<1>15. ResumesCount'
  BY <1>1, <1>12, <1>14 DEF ResumesCount
<1> QED
  BY <1>3, <1>8, <1>10, <1>11, <1>13, <1>15 DEF ReplyInv

\* An accepted answer is one more resolved question and one more run.resumed event.
LEMMA AcceptedKeepsReplies ==
    ASSUME ReplyInv, NEW p \in Pendings, NEW v \in Nat, NEW text \in Texts,
           Accepted(p, v, text)
    PROVE  ReplyInv'
<1>1. /\ StoreInv /\ LogInv /\ TypeOK /\ ForeignKeys /\ ReplyTypes /\ ResolvedAsked
      /\ AskedHolds /\ OnlyLeftFiles /\ AnswerIsStored /\ ResumesCount
  BY DEF ReplyInv, StoreInv
<1>2. AnyCall
  BY <1>1, AcceptedIsCall
<1>3. StoreInv' /\ LogInv'
  BY <1>1, <1>2, AnyCallKeepsStoreInv, AnyCallKeepsLogInv
<1>4. PICK r \in Runs : r = pendings[p].run
  BY <1>1 DEF Accepted, Open, Asked, ReplyTypes, PendingRow
<1>5. /\ Transition(r, v, "QUEUED", None) /\ ~Resolved(p) /\ Asked(p) /\ r # None
      /\ orphans' = orphans
  BY <1>4 DEF Accepted, Open, Asked
<1>6. PICK row \in PendingRow : /\ row.run = r /\ row.answer = text
                                /\ pendings' = [pendings EXCEPT ![p] = row]
  <2>1. /\ pendings[p] \in PendingRow
        /\ AnsweredRow(pendings[p], text) = [run |-> r, answer |-> text]
        /\ [run |-> r, answer |-> text] \in PendingRow
    BY <1>1, <1>4, AnsweredRowIs DEF ReplyTypes
  <2>2. pendings' = [pendings EXCEPT ![p] = [run |-> r, answer |-> text]]
    BY <1>1, <2>1 DEF Accepted, ReplyTypes
  <2> QED
    BY <2>1, <2>2
<1>7. /\ pendings'[p] = row
      /\ \A x \in Pendings \ {p} : /\ pendings'[x] = pendings[x]
                                   /\ Asked(x)' <=> Asked(x)
                                   /\ Resolved(x)' <=> Resolved(x)
  BY <1>1, <1>6, AnswersElsewhere
<1>8. Asked(p)' /\ Resolved(p)' /\ pendings'[p].answer = text
  BY <1>5, <1>6, <1>7, TextsAssumption DEF Asked, Resolved
<1>9. /\ answers' \in [Pendings -> Texts \cup {None}]
      /\ \A x \in Pendings \ {p} : answers'[x] = answers[x]
      /\ answers'[p] = IF answers[p] = None THEN text ELSE answers[p]
  BY <1>1 DEF Accepted, WrittenAnswer, ReplyTypes
<1>10. ReplyTypes'
  BY <1>1, <1>5, <1>6, <1>9 DEF ReplyTypes
<1>11. ResolvedAsked' /\ OnlyLeftFiles'
  BY <1>1, <1>5, <1>7, <1>8, <1>9 DEF ResolvedAsked, OnlyLeftFiles
<1>12. AnswerIsStored'
  <2>1. answers'[p] = text \/ <<p, answers'[p]>> \in orphans'
    BY <1>1, <1>5, <1>9 DEF OnlyLeftFiles
  <2> QED
    BY <1>1, <1>5, <1>7, <1>8, <1>9, <2>1 DEF AnswerIsStored
<1>13. \A x \in Runs : Exists(x) =>
          /\ Exists(x)'
          /\ Terminal(x) => Terminal(x)'
          /\ runs[x].attempt # None => Terminal(x)' \/ runs'[x].attempt # None
  BY <1>1, <1>2, HoldsStay
<1>14. AskedHolds'
  <2>1. ASSUME NEW x \in Pendings, Asked(x)'
        PROVE  (/\ Exists(pendings[x].run)
                /\ Terminal(pendings[x].run) \/ runs[pendings[x].run].attempt # None)'
    <3>1. PICK y \in Runs : y = pendings[x].run /\ y = pendings'[x].run /\ Asked(x)
      BY <1>1, <1>4, <1>5, <1>6, <1>7, <2>1 DEF ReplyTypes, PendingRow, Asked
    <3>2. Exists(y) /\ (Terminal(y) \/ runs[y].attempt # None)
      BY <1>1, <3>1 DEF AskedHolds
    <3> QED
      BY <1>13, <3>1, <3>2 DEF Exists, Terminal
  <2> QED
    BY <2>1 DEF AskedHolds
<1>15. ASSUME NEW x \in Runs, Exists(x)'
       PROVE  /\ IsFiniteSet(ResolvedOf(x)')
              /\ Cardinality(ResolvedOf(x)') <= Cardinality(Resumed(x)')
  <2>1. Exists(r) /\ Cardinality(Resumed(r)') = Cardinality(Resumed(r)) + 1
    BY <1>1, <1>5, AcceptedResumes
  <2>2. Exists(x)
    <3>1. MoveEffect(r, "QUEUED")
      BY <1>1, <1>5, TransitionEffect
    <3> QED
      BY <1>15, <2>1, <3>1 DEF MoveEffect, Exists
  <2>3. /\ IsFiniteSet(ResolvedOf(x)) /\ Cardinality(ResolvedOf(x)) <= Cardinality(Resumed(x))
        /\ Cardinality(ResolvedOf(x)) \in Nat /\ Cardinality(Resumed(x)) \in Nat
    BY <1>1, <2>2, ResumedIsFinite, FS_CardinalityType DEF ResumesCount
  <2>4. CASE x = r
    <3>1. \A y : y \in ResolvedOf(r)' <=> y \in ResolvedOf(r) \cup {p}
      BY <1>5, <1>6, <1>7, <1>8 DEF ResolvedOf
    <3>2. ResolvedOf(r)' = ResolvedOf(r) \cup {p} /\ p \notin ResolvedOf(r)
      BY <1>5, <3>1 DEF ResolvedOf
    <3>3. /\ IsFiniteSet(ResolvedOf(r)')
          /\ Cardinality(ResolvedOf(r)') = Cardinality(ResolvedOf(r)) + 1
      BY <2>3, <2>4, <3>2, FS_AddElement
    <3> QED
      BY <2>1, <2>3, <2>4, <3>3
  <2>5. CASE x # r
    <3>1. \A y : y \in ResolvedOf(x)' <=> y \in ResolvedOf(x)
      BY <1>4, <1>6, <1>7, <1>8, <2>5 DEF ResolvedOf
    <3>2. ResolvedOf(x)' = ResolvedOf(x)
      BY <3>1
    <3>3. Cardinality(Resumed(x)) <= Cardinality(Resumed(x)')
      BY <1>1, <1>2, <2>2, ResumedStays
    <3>4. Cardinality(Resumed(x)') \in Nat
      BY <1>3, <1>15, ResumedStaysFinite DEF StoreInv
    <3> QED
      BY <2>3, <3>2, <3>3, <3>4
  <2> QED
    BY <2>4, <2>5
<1>16. ResumesCount'
  BY <1>15 DEF ResumesCount
<1> QED
  BY <1>3, <1>10, <1>11, <1>12, <1>14, <1>16 DEF ReplyInv

\* So every step of a session keeps what answering relies on.
LEMMA StepKeepsReplies ==
    ASSUME ReplyInv, [AnyCall]_vars, AnswerStep
    PROVE  ReplyInv'
BY CallKeepsReplies, InsertKeepsReplies, LeavesKeepsReplies, AcceptedKeepsReplies
DEF AnswerStep

\* There are no questions at first.
LEMMA InitReplies == ReplyInit => ReplyInv
<1> SUFFICES ASSUME ReplyInit
             PROVE  ReplyInv
  OBVIOUS
<1>1. StoreInv /\ LogInv
  BY InitStoreInv, InitLogInv DEF ReplyInit
<1>2. \A p \in Pendings : ~Asked(p) /\ ~Resolved(p) /\ answers[p] = None
  BY DEF ReplyInit, Asked, Resolved, NoPending
<1>3. ReplyTypes
  BY DEF ReplyInit, ReplyTypes, PendingRow, NoPending
<1>4. \A r \in Runs : ~Exists(r)
  BY DEF ReplyInit, Init, Exists, NoRun
<1> QED
  BY <1>1, <1>2, <1>3, <1>4
  DEF ReplyInv, AskedHolds, ResolvedAsked, OnlyLeftFiles, AnswerIsStored, ResumesCount

\* A resolved question is about a run that is over or still has its attempt.
LEMMA ReplyInvHolds == ReplyInv => AnsweredKeepsHold
<1> SUFFICES ASSUME ReplyInv, NEW r \in Runs, ResolvedOf(r) # {}, ~Terminal(r)
             PROVE  /\ sessions[SessionOf(r)].activeRun = r
                    /\ runs[r].attempt # None
                    /\ workspaces[HomeOf(r)].attempt = runs[r].attempt
  BY DEF AnsweredKeepsHold
<1>1. runs[r].attempt # None
  BY DEF ResolvedOf, ReplyInv, ResolvedAsked, AskedHolds
<1> QED
  BY <1>1 DEF ReplyInv, StoreInv, OwnershipAgrees, RunHoldsSlots

-----------------------------------------------------------------------------
(***************************************************************************)
(* The session's messages and its log.                                     *)
(***************************************************************************)
\* A step either accepts a message into the session, while none is unfinished there, or
\* leaves the identities of all messages alone.
LEMMA SessionAccepts ==
    ASSUME TypeOK, ForeignKeys, ReplyTypes, \A c \in Clients : Answering(c),
           [SessionNext]_sessionVars
    PROVE  \/ \E r \in Runs, k \in Keys : AcceptOnce(r, Session, k, TRUE)
           \/ Identities
<1>1. ASSUME runs' = runs, sessions' = sessions
      PROVE  Identities
  BY <1>1 DEF Identities, SameIdentity, Exists
<1>2. ASSUME NEW r \in Runs, NEW v, NEW t, NEW o \in Outcomes \cup {None},
             Transition(r, v, t, o)
      PROVE  Identities
  BY <1>2, TransitionKeepsIdentities
<1>3. ASSUME NEW q \in Requests, CancelRequest(q) \/ CancelFinish(q)
      PROVE  Identities
  <2>1. cancels[q].run \in Runs
    BY <1>3 DEF CancelRequest, CancelFinish, ForeignKeys
  <2> QED
    BY <1>2, <1>3, <2>1 DEF CancelRequest, CancelFinish
<1>4. CASE StoreStep
  BY <1>4, <1>1, <1>2, <1>3, ClaimKeepsIdentities, AppendKeepsIdentities
  DEF StoreStep, StoreAction, TransitionRun, CancelRead, CancelConflict, tables
<1>5. ASSUME NEW c \in Clients, NEW text \in Texts, Responds(c, text)
      PROVE  Identities
  <2>1. CASE Accepted(clients[c].pending, clients[c].version, text)
    <3>1. pendings[clients[c].pending].run \in Runs
      BY <1>5, <2>1 DEF Responds, Answering, Accepted, Open, Asked, ReplyTypes, PendingRow
    <3> QED
      BY <1>2, <2>1, <3>1 DEF Accepted
  <2> QED
    BY <1>5, <2>1, <1>1 DEF Responds, Refused, Fails, Repeated, Contradicts, vars
<1>6. CASE ClientStep
  BY <1>6, <1>1, <1>5
  DEF ClientStep, Subscribes, SendReads, SendSubmits, SendBusy, ReplyReads, ReplyReadsCursor,
      ReadPage, LooksOver, LooksEmpty, Compares, Disconnect, ReadCurrent, Reconnects, Quiet, vars
<1>7. CASE Asks \/ ServerDies \/ UNCHANGED sessionVars
  BY <1>7, <1>1 DEF Asks, InsertPending, ServerDies, tables, sessionVars, vars
<1> QED
  BY <1>4, <1>6, <1>7 DEF SessionNext

\* A message that waits, executes or is cancelled is the session's last.
LEMMA KeepsUnfinishedIsLast ==
    ASSUME StoreInv, ReplyTypes, Numbered, UnfinishedIsLast,
           \A c \in Clients : Answering(c), [AnyCall]_vars, [SessionNext]_sessionVars
    PROVE  UnfinishedIsLast'
<1>1. TypeOK /\ ForeignKeys
  BY DEF StoreInv
<1>2. \A r \in Runs : Exists(r) /\ ~Terminal(r)' => ~Terminal(r)
  BY HoldsStay
<1>3. CASE Identities
  <2>1. \A r \in Runs : /\ r \in RunsOf(Session)' <=> r \in RunsOf(Session)
                        /\ runs'[r].seq = runs[r].seq
    BY <1>3 DEF Identities, SameIdentity, RunsOf, SessionOf
  <2> QED
    BY <1>2, <2>1 DEF UnfinishedIsLast, RunsOf
<1>4. ASSUME NEW x \in Runs, NEW k \in Keys, AcceptOnce(x, Session, k, TRUE)
      PROVE  UnfinishedIsLast'
  <2>1. /\ ~Exists(x) /\ Exists(x)'
        /\ runs'[x].session = Session
        /\ runs'[x].seq = sessions[Session].nextSeq
        /\ \A p \in Runs \ {x} : runs'[p] = runs[p] /\ (Exists(p)' <=> Exists(p))
    BY <1>1, <1>4, SessionAssumption, AcceptedIdentity
  <2>2. \A r \in RunsOf(Session) : Terminal(r) /\ runs[r].seq < sessions[Session].nextSeq
    BY <1>4 DEF AcceptOnce, Busy, Numbered, RunsOf
  <2>3. \A r \in Runs \ {x} : r \in RunsOf(Session)' <=> r \in RunsOf(Session)
    BY <2>1 DEF RunsOf, SessionOf
  <2>4. \A r \in Runs \ {x} : Terminal(r)' <=> Terminal(r)
    BY <2>1 DEF Terminal
  <2> QED
    BY <2>1, <2>2, <2>3, <2>4 DEF UnfinishedIsLast, RunsOf
<1> QED
  BY <1>1, <1>3, <1>4, SessionAccepts

\* A row that has not moved since it was inserted is in the queue.
LEMMA KeepsFreshIsQueued ==
    ASSUME StoreInv, FreshIsQueued, [AnyCall]_vars
    PROVE  FreshIsQueued'
<1>1. TypeOK /\ ForeignKeys
  BY DEF StoreInv
<1>2. ASSUME NEW r \in Runs, Exists(r)', runs'[r].version = 0
      PROVE  runs'[r].status = "QUEUED"
  <2>1. CASE Exists(r)
    <3>1. runs[r].version \in Nat
      BY <1>1 DEF TypeOK, RunRow
    <3> QED
      BY <1>1, <1>2, <2>1, <3>1, VersionsMove DEF FreshIsQueued
  <2>2. CASE ~Exists(r)
    <3>1. AcceptStep
      BY <1>1, <1>2, <2>2, IdentitiesKept DEF Identities, SameIdentity
    <3>2. PICK x \in Runs, s \in Sessions, k \in Keys, b \in BOOLEAN : AcceptOnce(x, s, k, b)
      BY <3>1 DEF AcceptStep
    <3>3. AcceptEffect(x, s)
      BY <1>1, <3>2, AcceptOnceEffect
    <3> QED
      BY <1>2, <2>2, <3>3 DEF AcceptEffect, Exists
  <2> QED
    BY <2>1, <2>2
<1> QED
  BY <1>2 DEF FreshIsQueued

\* The log of the session only grows.
LogExtends ==
    /\ Cursor \in Nat /\ Cursor' \in Nat /\ Cursor <= Cursor'
    /\ DOMAIN Log = 1 .. Cursor /\ DOMAIN Log' = 1 .. Cursor'
    /\ \A i \in 1 .. Cursor : Log'[i] = Log[i]
LogGrowsBy(r, type) ==
    /\ LogExtends /\ Cursor' = Cursor + 1
    /\ Log'[Cursor'].run = r /\ Log'[Cursor'].type = type

\* A step adds at most one event, of a run whose message is then the session's; the event
\* and the run's row agree (RunLogs).
LEMMA LogOnlyGrows ==
    ASSUME StoreInv, [AnyCall]_vars
    PROVE  \/ LogExtends /\ Log' = Log
           \/ \E r \in Runs, type \in EventTypes :
                 RunLogs(r, Session, type) /\ LogGrowsBy(r, type)
<1>1. TypeOK /\ ForeignKeys /\ Session \in Sessions
  BY SessionAssumption DEF StoreInv
<1>2. Cursor \in Nat /\ DOMAIN Log = 1 .. Cursor
  BY <1>1 DEF TypeOK, Log, Cursor
<1>3. ASSUME Log' = Log
      PROVE  LogExtends
  BY <1>2, <1>3 DEF LogExtends, Cursor
<1>4. ASSUME NEW r \in Runs, NEW s \in Sessions, NEW type \in EventTypes, RunLogs(r, s, type)
      PROVE  \/ LogExtends /\ Log' = Log
             \/ RunLogs(r, Session, type) /\ LogGrowsBy(r, type)
  <2>1. PICK n : LogEvent(r, n, s, type)
    BY <1>4 DEF RunLogs
  <2>2. CASE s # Session
    <3>1. Log' = Log
      BY <1>1, <2>1, <2>2, LogGrows DEF Log
    <3> QED
      BY <1>3, <3>1
  <2>3. CASE s = Session
    <3>1. /\ DOMAIN Log' = 1 .. Cursor + 1 /\ Cursor' = Cursor + 1
          /\ Log'[Cursor + 1].run = r /\ Log'[Cursor + 1].type = type
          /\ \A i \in DOMAIN Log : Log'[i] = Log[i]
      BY <1>1, <2>1, <2>3, LogGrows DEF Log, Cursor
    <3> QED
      BY <1>2, <1>4, <2>3, <3>1 DEF LogExtends, LogGrowsBy
  <2> QED
    BY <2>2, <2>3
<1> QED
  BY <1>1, <1>3, <1>4, StepLogs DEF LogQuiet, Log

\* run.finished is the last word: no step takes a message out of its terminal status, and
\* only a terminal status is announced by it.
LEMMA KeepsFinishIsFinal ==
    ASSUME StoreInv, LogInv, FinishIsFinal, [AnyCall]_vars
    PROVE  FinishIsFinal'
<1>1. /\ TypeOK /\ ForeignKeys /\ LoggedHome /\ Session \in Sessions
      /\ TypeOK'
  BY SessionAssumption, AnyCallKeepsStoreInv DEF StoreInv, LogInv
<1>2. \A i \in DOMAIN Log : Log[i].run \in Runs /\ Exists(Log[i].run)
  BY <1>1 DEF LoggedHome, Log
<1>3. \A i \in DOMAIN Log :
        Log[i].type = "run.finished" => runs'[Log[i].run].status \in TerminalStatuses
  <2>1. ASSUME NEW i \in DOMAIN Log, Log[i].type = "run.finished"
        PROVE  \E r \in Runs : r = Log[i].run /\ Terminal(r)'
    <3>1. PICK r \in Runs : r = Log[i].run /\ Exists(r)
      BY <1>2, <2>1
    <3>2. Terminal(r)
      BY <2>1, <3>1 DEF FinishIsFinal
    <3> QED
      BY <3>1, <3>2, HoldsStay
  <2> QED
    BY <2>1 DEF Terminal
<1>4. CASE Log' = Log
  BY <1>3, <1>4 DEF FinishIsFinal, Terminal
<1>5. ASSUME NEW r \in Runs, NEW type \in EventTypes,
             RunLogs(r, Session, type), LogGrowsBy(r, type)
      PROVE  FinishIsFinal'
  <2>1. type = "run.finished" => Terminal(r)'
    <3>1. Exists(r)' /\ runs'[r].status \in Statuses
      BY <1>1, <1>5 DEF RunLogs, TypeOK, RunRow, Exists
    <3>2. ASSUME NEW st \in Statuses, EventTypeOf(st) = "run.finished"
          PROVE  st \in TerminalStatuses
      BY <3>2 DEF EventTypeOf, Statuses, WaitingStatuses, TerminalStatuses
    <3> QED
      BY <1>5, <3>1, <3>2 DEF RunLogs, Terminal
  <2> QED
    BY <1>3, <1>5, <2>1 DEF FinishIsFinal, LogGrowsBy, LogExtends, Terminal
<1> QED
  BY <1>4, <1>5, LogOnlyGrows

\* What the streams rely on is kept.
LEMMA KeepsSessionOrder ==
    ASSUME ReplyInv, SessionOrder, \A c \in Clients : Answering(c),
           [AnyCall]_vars, [SessionNext]_sessionVars
    PROVE  SessionOrder'
<1>1. TypeOK /\ ForeignKeys /\ StoreInv /\ LogInv /\ ReplyTypes
  BY DEF ReplyInv, StoreInv
<1>2. Numbered /\ UnfinishedIsLast /\ FreshIsQueued /\ FinishIsFinal
  BY DEF SessionOrder
<1>3. Numbered'
  BY <1>1, <1>2, NextNumbered
<1>4. UnfinishedIsLast'
  BY <1>1, <1>2, KeepsUnfinishedIsLast
<1>5. FreshIsQueued' /\ FinishIsFinal'
  BY <1>1, <1>2, KeepsFreshIsQueued, KeepsFinishIsFinal
<1> QED
  BY <1>3, <1>4, <1>5 DEF SessionOrder

-----------------------------------------------------------------------------
(***************************************************************************)
(* Numbers in order.  Induction over the numbers of a set is by the least  *)
(* counterexample.                                                         *)
(***************************************************************************)
\* A set of numbers has a least one.
LEMMA LeastNumber ==
    ASSUME NEW T \in SUBSET Nat, T # {}
    PROVE  \E x \in T : \A y \in T : x <= y
<1>1. PICK x \in T : \A y \in T : ~(<<y, x>> \in OpToRel(<, Nat))
  BY NatLessThanWellFounded, WFMin
<1>2. ASSUME NEW y \in T
      PROVE  x <= y
  <2>1. x \in Nat /\ y \in Nat
    OBVIOUS
  <2>2. ~(<<y, x>> \in OpToRel(<, Nat))
    BY <1>1
  <2>3. ~(y < x)
    BY <2>1, <2>2 DEF OpToRel
  <2> QED
    BY <2>1, <2>3
<1> QED
  BY <1>2

\* How many of a set's numbers there are up to a bound, as the bound moves on.
Counted(S, m) ==
    /\ IsFiniteSet(S) /\ Cardinality(S) \in Nat
    /\ UpTo(S, 0) = {} /\ UpTo(S, m) = S
    /\ \A i \in Nat : IsFiniteSet(UpTo(S, i)) /\ Cardinality(UpTo(S, i)) \in Nat
    /\ \A i \in Nat : Cardinality(UpTo(S, i + 1)) =
                         Cardinality(UpTo(S, i)) + IF i + 1 \in S THEN 1 ELSE 0

\* Every set of numbers up to m is counted so.
LEMMA CountingUp ==
    ASSUME NEW m \in Nat, NEW S, S \subseteq 1 .. m
    PROVE  Counted(S, m)
<1>1. IsFiniteSet(1 .. m)
  BY FS_Interval
<1>2. IsFiniteSet(S) /\ Cardinality(S) \in Nat
  BY <1>1, FS_Subset, FS_CardinalityType
<1>3. \A i : UpTo(S, i) \subseteq S
  BY DEF UpTo
<1>4. \A i \in Nat : IsFiniteSet(UpTo(S, i)) /\ Cardinality(UpTo(S, i)) \in Nat
  BY <1>2, <1>3, FS_Subset, FS_CardinalityType
<1>0. \A x \in S : x \in Nat /\ 1 <= x /\ x <= m
  OBVIOUS
<1>5. UpTo(S, 0) = {} /\ UpTo(S, m) = S
  <2>1. \A x \in S : ~(x <= 0) /\ x <= m
    BY <1>0
  <2> QED
    BY <2>1 DEF UpTo
<1>6. ASSUME NEW i \in Nat
      PROVE  UpTo(S, i + 1) = UpTo(S, i) \cup (S \cap {i + 1})
  <2>1. \A x \in S : x <= i + 1 <=> x <= i \/ x = i + 1
    BY <1>0
  <2> QED
    BY <2>1 DEF UpTo
<1>7. ASSUME NEW i \in Nat
      PROVE  Cardinality(UpTo(S, i + 1)) =
                Cardinality(UpTo(S, i)) + IF i + 1 \in S THEN 1 ELSE 0
  <2>1. CASE i + 1 \in S
    <3>1. UpTo(S, i + 1) = UpTo(S, i) \cup {i + 1} /\ i + 1 \notin UpTo(S, i)
      BY <1>6, <2>1 DEF UpTo
    <3>2. PICK U : U = UpTo(S, i)
      OBVIOUS
    <3>3. IsFiniteSet(U) /\ i + 1 \notin U
      BY <1>4, <3>1, <3>2
    <3>4. Cardinality(U \cup {i + 1}) = Cardinality(U) + 1
      BY <3>3, FS_AddElement
    <3> QED
      BY <2>1, <3>1, <3>2, <3>4
  <2>2. CASE i + 1 \notin S
    <3>1. S \cap {i + 1} = {}
      BY <2>2
    <3>2. UpTo(S, i + 1) = UpTo(S, i)
      BY <1>6, <3>1
    <3> QED
      BY <1>4, <2>2, <3>2
  <2> QED
    BY <2>1, <2>2
<1> QED
  BY <1>2, <1>4, <1>5, <1>7 DEF Counted

\* The k-th number of a set is in the set.
LEMMA KthNumber ==
    ASSUME NEW m \in Nat, NEW S, S \subseteq 1 .. m, NEW k \in 1 .. Cardinality(S)
    PROVE  \E i \in S : Cardinality(UpTo(S, i)) = k
<1>0. Counted(S, m)
  BY CountingUp
<1> DEFINE count(i) == Cardinality(UpTo(S, i))
           T == {i \in Nat : count(i) >= k}
<1>1. /\ \A i \in Nat : count(i) \in Nat
      /\ \A i \in Nat : count(i + 1) = count(i) + IF i + 1 \in S THEN 1 ELSE 0
      /\ count(0) = 0 /\ count(m) = Cardinality(S) /\ Cardinality(S) \in Nat
  <2>1. /\ \A i \in Nat : count(i) \in Nat
        /\ \A i \in Nat : count(i + 1) = count(i) + IF i + 1 \in S THEN 1 ELSE 0
    BY <1>0 DEF Counted
  <2>2. count(0) = 0 /\ count(m) = Cardinality(S) /\ Cardinality(S) \in Nat
    <3>1. UpTo(S, 0) = {} /\ UpTo(S, m) = S /\ Cardinality(S) \in Nat
      BY <1>0 DEF Counted
    <3> QED
      BY <3>1, FS_EmptySet
  <2> QED
    BY <2>1, <2>2
<1>2. k \in Nat /\ k >= 1 /\ k <= Cardinality(S)
  BY <1>1
<1>3. m \in T
  BY <1>1, <1>2
<1>4. PICK i \in T : \A j \in T : i <= j
  <2>1. T \in SUBSET Nat /\ T # {}
    BY <1>3
  <2> HIDE DEF T
  <2> QED
    BY <2>1, LeastNumber
<1>5. i \in Nat /\ count(i) >= k
  BY <1>4
<1>6. i # 0
  BY <1>1, <1>2, <1>5
<1>7. PICK h \in Nat : i = h + 1
  <2>1. i - 1 \in Nat /\ i = (i - 1) + 1
    BY <1>5, <1>6
  <2> QED
    BY <2>1
<1>8. count(h) < k
  <2>1. h \notin T
    BY <1>4, <1>7
  <2> QED
    BY <1>1, <1>2, <1>7, <2>1
<1>9. i \in S /\ count(i) = k
  <2>1. count(h) \in Nat /\ count(i) = count(h) + IF i \in S THEN 1 ELSE 0
    BY <1>1, <1>7
  <2> HIDE DEF count
  <2> QED
    BY <1>2, <1>5, <1>8, <2>1
<1> QED
  BY <1>9

\* Ascending lists the numbers of a set: nothing else, and each of them.
LEMMA AscendingLists ==
    ASSUME NEW m \in Nat, NEW S, S \subseteq 1 .. m
    PROVE  /\ Ascending(S) \in Seq(Nat) /\ DOMAIN Ascending(S) = 1 .. Cardinality(S)
           /\ Len(Ascending(S)) = Cardinality(S)
           /\ \A k \in DOMAIN Ascending(S) : Ascending(S)[k] \in S
           /\ \A i \in S : \E k \in DOMAIN Ascending(S) : Ascending(S)[k] = i
<1>1. /\ IsFiniteSet(S) /\ Cardinality(S) \in Nat
      /\ \A i \in Nat : IsFiniteSet(UpTo(S, i)) /\ Cardinality(UpTo(S, i)) \in Nat
  BY CountingUp DEF Counted
<1>0. \A x \in S : x \in Nat
  OBVIOUS
<1>2. DOMAIN Ascending(S) = 1 .. Cardinality(S)
  BY DEF Ascending
<1>3. ASSUME NEW k \in 1 .. Cardinality(S)
      PROVE  Ascending(S)[k] \in S /\ Cardinality(UpTo(S, Ascending(S)[k])) = k
  <2>1. \E i \in S : Cardinality(UpTo(S, i)) = k
    BY KthNumber
  <2>2. Ascending(S)[k] = CHOOSE i \in S : Cardinality(UpTo(S, i)) = k
    BY DEF Ascending, Nth
  <2> QED
    BY <2>1, <2>2
<1>4. Ascending(S) \in Seq(Nat) /\ Len(Ascending(S)) = Cardinality(S)
  <2>1. \A k \in 1 .. Cardinality(S) : Ascending(S)[k] \in Nat
    BY <1>0, <1>3
  <2>2. Ascending(S) = [k \in 1 .. Cardinality(S) |-> Ascending(S)[k]]
    BY DEF Ascending
  <2>3. Ascending(S) \in [1 .. Cardinality(S) -> Nat]
    BY <2>1, <2>2
  <2>4. PICK n \in Nat : n = Cardinality(S)
    BY <1>1
  <2>5. Ascending(S) \in [1 .. n -> Nat]
    BY <2>3, <2>4
  <2>6. Ascending(S) \in Seq(Nat)
    BY <2>5
  <2>7. Len(Ascending(S)) = n
    BY <2>5, <2>6
  <2> QED
    BY <2>4, <2>6, <2>7
<1>5. ASSUME NEW i \in S, NEW j \in S, Cardinality(UpTo(S, i)) = Cardinality(UpTo(S, j)), i < j
      PROVE  FALSE
  <2>1. i \in Nat /\ j \in Nat
    OBVIOUS
  <2>2. UpTo(S, i) \subseteq UpTo(S, j) /\ j \in UpTo(S, j) /\ j \notin UpTo(S, i)
    <3>1. \A x \in S : x <= i => x <= j
      BY <1>0, <1>5, <2>1
    <3>2. j <= j /\ ~(j <= i)
      BY <1>5, <2>1
    <3> QED
      BY <3>1, <3>2 DEF UpTo
  <2> QED
    BY <1>1, <1>5, <2>1, <2>2, FS_Subset
<1>6. ASSUME NEW i \in S
      PROVE  \E k \in 1 .. Cardinality(S) : Ascending(S)[k] = i
  <2> DEFINE k == Cardinality(UpTo(S, i))
  <2>1. i \in Nat /\ i \in UpTo(S, i) /\ UpTo(S, i) \subseteq S
    BY DEF UpTo
  <2>2. k \in Nat /\ k # 0 /\ k <= Cardinality(S)
    BY <1>1, <2>1, FS_EmptySet, FS_Subset
  <2>3. k \in 1 .. Cardinality(S)
    BY <1>1, <2>2
  <2>4. Ascending(S)[k] \in S /\ Cardinality(UpTo(S, Ascending(S)[k])) = k
    BY <1>3, <2>3
  <2>5. Ascending(S)[k] \in Nat
    BY <1>0, <2>4
  <2>6. Ascending(S)[k] = i
    BY <1>5, <2>1, <2>4, <2>5
  <2> QED
    BY <2>3, <2>6
<1> QED
  BY <1>2, <1>3, <1>4, <1>6

-----------------------------------------------------------------------------
(***************************************************************************)
(* A page.                                                                 *)
(***************************************************************************)
\* Where a page that is read at a cursor ends.
PageEnd(cursor) == IF cursor + PageSize <= Cursor THEN cursor + PageSize ELSE Cursor

\* As the log is numbered without gaps, a page is the next PageSize events or what there
\* is, and the number to go on from is its last (list_session_events).
LEMMA PageIs ==
    ASSUME StoreInv, LogInv, NEW cursor \in Nat, cursor <= Cursor
    PROVE  /\ Cursor \in Nat /\ PageEnd(cursor) \in Nat
           /\ cursor <= PageEnd(cursor) /\ PageEnd(cursor) <= Cursor
           /\ Page(cursor) = cursor + 1 .. PageEnd(cursor)
           /\ NextAfter(Page(cursor), cursor) = PageEnd(cursor)
           /\ \A set \in SUBSET (1 .. Cursor) : Numbers(set) = set
<1>1. Cursor \in Nat /\ DOMAIN Log = 1 .. Cursor /\ \A i \in 1 .. Cursor : Log[i].sessionSeq = i
  BY SessionAssumption
  DEF StoreInv, TypeOK, LogInv, EventLogReplays, SessionReplays, Log, Cursor
<1>2. /\ PageSize \in Nat /\ PageEnd(cursor) \in Nat
      /\ cursor <= PageEnd(cursor) /\ PageEnd(cursor) <= Cursor
  BY <1>1, PageSizeAssumption DEF PageEnd
<1>3. \A set \in SUBSET (1 .. Cursor) : Numbers(set) = set
  <2>1. ASSUME NEW set \in SUBSET (1 .. Cursor)
        PROVE  \A i : i \in Numbers(set) <=> i \in set
    BY <1>1, <2>1 DEF Numbers
  <2> QED
    BY <2>1
<1>4. Later(cursor) = cursor + 1 .. Cursor
  <2>1. \A i : i \in Later(cursor) <=> i \in cursor + 1 .. Cursor
    BY <1>1 DEF Later
  <2> QED
    BY <2>1
<1>5. ASSUME NEW i \in cursor + 1 .. Cursor
      PROVE  Cardinality(Before(Later(cursor), i)) = i - cursor
  <2>1. \A j : j \in Before(Later(cursor), i) <=> j \in cursor + 1 .. i
    BY <1>1, <1>4, <1>5 DEF Before
  <2>2. Before(Later(cursor), i) = cursor + 1 .. i
    BY <2>1
  <2>3. cursor + 1 \in Int /\ i \in Int /\ i - (cursor + 1) + 1 = i - cursor /\ ~(cursor + 1 > i)
    BY <1>1, <1>5
  <2> QED
    BY <2>2, <2>3, FS_Interval
<1>6. Page(cursor) = cursor + 1 .. PageEnd(cursor)
  <2>1. \A i : i \in Page(cursor) <=> i \in cursor + 1 .. Cursor /\ i - cursor <= PageSize
    BY <1>4, <1>5 DEF Page
  <2>2. \A i : i \in cursor + 1 .. Cursor /\ i - cursor <= PageSize
                <=> i \in cursor + 1 .. PageEnd(cursor)
    BY <1>1, <1>2 DEF PageEnd
  <2> QED
    BY <2>1, <2>2
<1>7. NextAfter(Page(cursor), cursor) = PageEnd(cursor)
  <2>1. Numbers(Page(cursor)) = Page(cursor)
    BY <1>1, <1>2, <1>3, <1>6
  <2>2. CASE Page(cursor) = {}
    <3>1. ~(cursor + 1 <= PageEnd(cursor))
      BY <1>2, <1>6, <2>2
    <3> QED
      BY <1>2, <2>2, <3>1 DEF NextAfter
  <2>3. CASE Page(cursor) # {}
    <3>1. /\ PageEnd(cursor) \in Page(cursor)
          /\ \A m \in Page(cursor) : m <= PageEnd(cursor)
          /\ \A n \in Page(cursor) : PageEnd(cursor) <= n => n = PageEnd(cursor)
      BY <1>2, <1>6, <2>3
    <3>2. NextAfter(Page(cursor), cursor) =
              CHOOSE n \in Page(cursor) : \A m \in Page(cursor) : m <= n
      BY <2>1, <2>3 DEF NextAfter
    <3>3. PICK n \in Page(cursor) : /\ n = NextAfter(Page(cursor), cursor)
                                    /\ \A m \in Page(cursor) : m <= n
      BY <3>1, <3>2
    <3> QED
      BY <3>1, <3>3
  <2> QED
    BY <2>2, <2>3
<1> QED
  BY <1>1, <1>2, <1>3, <1>6, <1>7

-----------------------------------------------------------------------------
(***************************************************************************)
(* Clients while others move.                                              *)
(***************************************************************************)
\* Whatever happens, the log only grows, messages of the session stay, those that are
\* over stay over, and a question goes on being about the same message.
SessionMoves ==
    /\ LogExtends
    /\ \A r \in Runs : Known(r) => Known(r)'
    /\ \A r \in RunsOf(Session) : Terminal(r) => Terminal(r)'
    /\ \A p \in Pendings : Asked(p) => pendings'[p].run = pendings[p].run

\* What a step may do: one call of the store, one answer, and clients that move.
LEMMA StepMoves ==
    ASSUME SessionInv, [SessionNext]_sessionVars
    PROVE  SessionMoves /\ [AnyCall]_vars /\ AnswerStep
<1>1. /\ TypeOK /\ StoreInv /\ ReplyInv /\ ReplyTypes /\ AskedHolds
      /\ \A c \in Clients : Answering(c)
  BY DEF SessionInv, ReplyInv, StoreInv, ClientOK
<1>2. [AnyCall]_vars /\ AnswerStep
  BY <1>1, SessionCalls DEF SessionInv
<1>3. LogExtends
  BY <1>1, <1>2, LogOnlyGrows DEF LogGrowsBy
<1>4. \A r \in Runs : /\ Known(r) => Known(r)'
                      /\ Exists(r) /\ Terminal(r) => Terminal(r)'
  BY <1>1, <1>2, HoldsStay DEF Known
<1>5. ASSUME NEW p \in Pendings, Asked(p)
      PROVE  pendings'[p].run = pendings[p].run
  <2>1. CASE UNCHANGED replyVars
    BY <2>1 DEF replyVars
  <2>2. ASSUME NEW x \in Pendings, NEW r \in Runs, InsertPending(x, r)
        PROVE  pendings'[p].run = pendings[p].run
    BY <1>1, <1>5, <2>2 DEF InsertPending, ReplyTypes
  <2>3. ASSUME NEW x \in Pendings, NEW v, NEW text \in Texts, Accepted(x, v, text)
        PROVE  pendings'[p].run = pendings[p].run
    <3>1. pendings[x] \in PendingRow
      BY <1>1 DEF ReplyTypes
    <3>2. AnsweredRow(pendings[x], text) = [run |-> pendings[x].run, answer |-> text]
      BY <3>1, AnsweredRowIs
    <3>3. AnsweredRow(pendings[x], text).run = pendings[x].run
      BY <3>2
    <3> QED
      BY <1>1, <2>3, <3>3 DEF Accepted, ReplyTypes
  <2> QED
    BY <1>2, <2>1, <2>2, <2>3 DEF AnswerStep
<1> QED
  BY <1>2, <1>3, <1>4, <1>5 DEF SessionMoves, RunsOf

\* Every event of the session's log is of one of its messages.
LEMMA LogIsOfSession ==
    ASSUME SessionInv
    PROVE  \A i \in DOMAIN Log : Known(Log[i].run) /\ Log[i].run \in RunsOf(Session)
BY SessionAssumption DEF SessionInv, ReplyInv, LogInv, LoggedHome, Log, Known, RunsOf

\* Of the events of a message, those behind a position are the old ones.
LEMMA EventsBehind ==
    ASSUME SessionInv, SessionMoves, NEW r, NEW i \in 1 .. Cursor, Log'[i].run = r
    PROVE  /\ Known(r) /\ r \in RunsOf(Session) /\ i \in EventsOf(r)
           /\ Log'[i].type = "run.finished" => i \in FinishOf(r)
<1>1. i \in DOMAIN Log /\ Log[i].run = r /\ Log'[i] = Log[i]
  BY DEF SessionMoves, LogExtends
<1>2. Known(r) /\ r \in RunsOf(Session)
  BY <1>1, LogIsOfSession
<1> QED
  BY <1>1, <1>2 DEF Known, EventsOf, FinishOf, Log

\* A client that does nothing keeps what it has.
LEMMA ClientStays ==
    ASSUME SessionInv, SessionMoves, NEW c \in Clients, clients'[c] = clients[c]
    PROVE  ClientOK(c)'
<1>1. /\ ClientOK(c) /\ clients[c] \in ClientRow
      /\ Cursor \in Nat /\ Cursor' \in Nat /\ Cursor <= Cursor'
      /\ DOMAIN Log = 1 .. Cursor /\ DOMAIN Log' = 1 .. Cursor'
      /\ \A i \in 1 .. Cursor : Log'[i] = Log[i]
      /\ \A r \in Runs : Known(r) => Known(r)'
      /\ \A r \in RunsOf(Session) : Terminal(r) => Terminal(r)'
  BY DEF SessionInv, SessionMoves, LogExtends
<1>2. /\ clients[c].start \in Nat /\ clients[c].cursor \in Nat /\ clients[c].mark \in Nat
      /\ clients[c].run \in Runs \cup {None} /\ clients[c].shown \in Runs \cup {None}
  BY <1>1 DEF ClientRow
<1>3. NothingYet(c)' /\ (Attached(c)' <=> Attached(c))
  BY <1>1 DEF ClientOK, NothingYet, Attached
<1>4. InLog(c)'
  BY <1>1, <1>2, <1>3 DEF ClientOK, InLog
<1>5. Given(c)'
  <2>1. CASE Attached(c)
    <3>1. \A i \in clients[c].start + 1 .. clients[c].cursor : i \in 1 .. Cursor
      BY <1>1, <1>2, <2>1 DEF ClientOK, InLog
    <3> QED
      BY <1>1, <2>1, <3>1 DEF ClientOK, Given
  <2> QED
    BY <1>3, <2>1 DEF Given
<1>6. Following(c)'
  BY <1>1, <1>2 DEF ClientOK, Following, Known
<1>7. Answering(c)'
  <2>1. CASE clients[c].pc \in {"version", "respond"}
    <3>1. clients[c].pending \in Pendings /\ Asked(clients[c].pending)
      BY <1>1, <2>1 DEF ClientOK, Answering, Asked
    <3> QED
      BY <1>1, <2>1, <3>1 DEF ClientOK, Answering, SessionMoves
  <2> QED
    BY <2>1 DEF Answering
<1>8. AtTail(c)'
  <2>1. ASSUME clients[c].pc = "tail", NEW r \in RunsOf(Session)',
               clients[c].run \in {None, r}, ~Terminal(r)', NEW i \in EventsOf(r)'
        PROVE  i > clients[c].cursor
    <3>1. i \in 1 .. Cursor' /\ Log'[i].run = r
      BY <1>1, <2>1 DEF EventsOf, RunsOf, Log
    <3>2. clients[c].cursor <= Cursor
      BY <1>1, <2>1 DEF ClientOK, InLog, Attached, Streaming
    <3>3. CASE i \in 1 .. Cursor
      <4>1. r \in RunsOf(Session) /\ i \in EventsOf(r)
        BY <3>1, <3>3, EventsBehind
      <4> QED
        BY <1>1, <2>1, <4>1 DEF ClientOK, AtTail
    <3>4. CASE i \notin 1 .. Cursor
      BY <1>1, <1>2, <3>1, <3>2, <3>4
    <3> QED
      BY <3>3, <3>4
  <2> QED
    BY <2>1 DEF AtTail
<1>9. Showing(c)'
  <2>1. CASE clients[c].shown # None
    <3>1. PICK r \in Runs : r = clients[c].shown
      BY <1>2, <2>1
    <3>2. /\ clients[c].pc \in Streaming \cup {"closed", "snapshot"}
          /\ Known(r) /\ clients[c].run = None
          /\ clients[c].mark <= Cursor
          /\ \A i \in FinishOf(r) : i > clients[c].mark
          /\ clients[c].pc = "closed" => \E i \in FinishOf(r) : i <= clients[c].cursor
      BY <1>1, <2>1, <3>1 DEF ClientOK, Showing
    <3>3. ASSUME NEW i \in FinishOf(r)'
          PROVE  i > clients[c].mark
      <4>1. i \in 1 .. Cursor' /\ Log'[i].run = r /\ Log'[i].type = "run.finished"
        BY <1>1, <3>3 DEF FinishOf
      <4>2. CASE i \in 1 .. Cursor
        BY <3>2, <4>1, <4>2, EventsBehind
      <4>3. CASE i \notin 1 .. Cursor
        BY <1>1, <1>2, <3>2, <4>1, <4>3
      <4> QED
        BY <4>2, <4>3
    <3>4. \A i \in FinishOf(r) : i \in FinishOf(r)'
      BY <1>1 DEF FinishOf
    <3>5. clients[c].mark <= Cursor' /\ Known(r)'
      BY <1>1, <1>2, <3>2
    <3> QED
      BY <1>1, <3>1, <3>2, <3>3, <3>4, <3>5 DEF Showing, Known, FinishOf
  <2> QED
    BY <2>1 DEF Showing
<1> QED
  BY <1>3, <1>4, <1>5, <1>6, <1>7, <1>8, <1>9 DEF ClientOK

-----------------------------------------------------------------------------
(***************************************************************************)
(* Clients that move.                                                      *)
(***************************************************************************)
\* The rows that the handlers assign, field by field.
LEMMA GoneIs ==
    ASSUME NEW pc \in ClientPCs
    PROVE  /\ Gone(pc) \in ClientRow
           /\ Gone(pc) = [pc |-> pc, run |-> None, pending |-> None, version |-> 0,
                          start |-> 0, cursor |-> 0, got |-> <<>>, shown |-> None, mark |-> 0]
BY DEF Gone, ClientRow

\* The row of a client that starts to read the log behind event n.
LEMMA FromIs ==
    ASSUME NEW row \in ClientRow, NEW run \in Runs \cup {None}, NEW n \in Nat
    PROVE  /\ From(row, run, n) \in ClientRow
           /\ From(row, run, n) =
                [pc |-> "page", run |-> run, pending |-> row.pending, version |-> 0,
                 start |-> n, cursor |-> n, got |-> row.got, shown |-> row.shown,
                 mark |-> row.mark]
<1> DEFINE result ==
             [pc |-> "page", run |-> run, pending |-> row.pending, version |-> 0,
              start |-> n, cursor |-> n, got |-> row.got, shown |-> row.shown,
              mark |-> row.mark]
<1>1. ASSUME NEW new, new = From(row, run, n)
      PROVE  new = result
  BY <1>1 DEF From, ClientRow
<1>2. result \in ClientRow
  BY DEF ClientRow, ClientPCs, Streaming
<1> QED
  BY <1>1, <1>2

\* The row of a client that goes on to another place.
LEMMA StepIs ==
    ASSUME NEW row \in ClientRow, NEW pc \in ClientPCs
    PROVE  /\ [row EXCEPT !.pc = pc] \in ClientRow
           /\ [row EXCEPT !.pc = pc] =
                [pc |-> pc, run |-> row.run, pending |-> row.pending, version |-> row.version,
                 start |-> row.start, cursor |-> row.cursor, got |-> row.got,
                 shown |-> row.shown, mark |-> row.mark]
<1> DEFINE result ==
             [pc |-> pc, run |-> row.run, pending |-> row.pending, version |-> row.version,
              start |-> row.start, cursor |-> row.cursor, got |-> row.got,
              shown |-> row.shown, mark |-> row.mark]
<1>1. ASSUME NEW new, new = [row EXCEPT !.pc = pc]
      PROVE  new = result
  BY <1>1 DEF ClientRow
<1>2. result \in ClientRow
  BY DEF ClientRow
<1> QED
  BY <1>1, <1>2

\* The row of a client that was handed a page.
LEMMA PageRowIs ==
    ASSUME NEW row \in ClientRow, NEW n \in Nat, NEW more \in Seq(Nat),
           NEW new, new = [row EXCEPT !.pc = "look", !.cursor = n, !.got = @ \o more]
    PROVE  /\ new \in ClientRow
           /\ new = [pc |-> "look", run |-> row.run, pending |-> row.pending,
                     version |-> row.version, start |-> row.start, cursor |-> n,
                     got |-> row.got \o more, shown |-> row.shown, mark |-> row.mark]
<1> DEFINE result ==
             [pc |-> "look", run |-> row.run, pending |-> row.pending, version |-> row.version,
              start |-> row.start, cursor |-> n, got |-> row.got \o more,
              shown |-> row.shown, mark |-> row.mark]
<1>1. new = result
  BY DEF ClientRow
<1>2. row.got \o more \in Seq(Nat)
  BY DEF ClientRow
<1>3. result \in ClientRow
  BY <1>2 DEF ClientRow, ClientPCs, Streaming
<1> QED
  BY <1>1, <1>3

\* A client without a stream.
LEMMA GoneOK ==
    ASSUME SessionInv, SessionMoves, NEW c \in Clients,
           NEW pc \in {"idle", "lost"}, clients'[c] = Gone(pc)
    PROVE  ClientOK(c)'
<1>1. /\ clients'[c].pc \in {"idle", "lost"} /\ clients'[c].run = None
      /\ clients'[c].got = <<>> /\ clients'[c].shown = None /\ clients'[c].start = 0
  BY GoneIs DEF ClientPCs
<1>2. 0 <= Cursor'
  BY DEF SessionMoves, LogExtends
<1> QED
  BY <1>1, <1>2
  DEF ClientOK, NothingYet, InLog, Given, Following, Answering, AtTail, Showing, Attached,
      Streaming

\* A client before its stream, which shows nothing: it has taken the cursor, read a
\* question, or both.
LEMMA PreparesOK ==
    ASSUME SessionInv, SessionMoves, NEW c \in Clients,
           clients'[c].pc \in {"send", "version", "respond"},
           clients'[c].got = <<>>, clients'[c].shown = None,
           clients'[c].start <= Cursor',
           clients'[c].pc = "send" => clients'[c].run = None,
           clients'[c].pc # "send" =>
               /\ clients'[c].pending \in Pendings /\ clients'[c].run # None
               /\ clients'[c].run = pendings'[clients'[c].pending].run
               /\ \E r \in Runs : r = clients'[c].run /\ Known(r)'
    PROVE  ClientOK(c)'
<1>1. Following(c)'
  BY DEF Following, Known
<1> QED
  BY <1>1
  DEF ClientOK, NothingYet, InLog, Given, Answering, AtTail, Showing, Attached, Streaming

\* A stream that begins at a position of the log.
LEMMA OpensOK ==
    ASSUME SessionInv, SessionMoves, NEW c \in Clients, NEW n \in Nat, n <= Cursor',
           clients'[c].pc = "page", clients'[c].start = n, clients'[c].cursor = n,
           clients'[c].run # None => \E r \in Runs : r = clients'[c].run /\ Known(r)',
           clients'[c].shown # None =>
               /\ clients'[c].run = None /\ clients'[c].mark <= Cursor'
               /\ \E r \in Runs : /\ r = clients'[c].shown /\ Known(r)'
                                  /\ \A i \in FinishOf(r)' : i > clients'[c].mark
    PROVE  ClientOK(c)'
<1>1. Following(c)'
  BY DEF Following, Known
<1>2. Given(c)'
  <2>1. \A i : i \notin n + 1 .. n
    OBVIOUS
  <2> QED
    BY <2>1 DEF Given
<1>3. Showing(c)'
  BY DEF Showing, Known, FinishOf, Streaming
<1>4. InLog(c)'
  BY DEF InLog
<1> QED
  BY <1>1, <1>2, <1>3, <1>4 DEF ClientOK, NothingYet, Answering, AtTail, Attached, Streaming

\* A step of the client that leaves everything else alone leaves the log alone.
LEMMA QuietMoves ==
    ASSUME SessionInv, Quiet
    PROVE  /\ SessionMoves /\ Log' = Log /\ Cursor' = Cursor
           /\ pendings' = pendings /\ RunsOf(Session)' = RunsOf(Session)
           /\ \A r \in Runs : /\ Known(r)' <=> Known(r)
                             /\ Terminal(r)' <=> Terminal(r)
                             /\ FinishOf(r)' = FinishOf(r)
                             /\ EventsOf(r)' = EventsOf(r)
<1>1. TypeOK /\ Session \in Sessions
  BY SessionAssumption DEF SessionInv, ReplyInv, StoreInv
<1>2. vars' = vars /\ pendings' = pendings
  BY DEF Quiet, replyVars
<1>3. /\ Log' = Log /\ Cursor' = Cursor /\ RunsOf(Session)' = RunsOf(Session)
      /\ \A r \in Runs : /\ Known(r)' <=> Known(r)
                        /\ Terminal(r)' <=> Terminal(r)
                        /\ FinishOf(r)' = FinishOf(r)
                        /\ EventsOf(r)' = EventsOf(r)
  BY <1>2 DEF vars, Log, Cursor, RunsOf, Known, Exists, SessionOf, Terminal, FinishOf, EventsOf
<1>4. Cursor \in Nat /\ DOMAIN Log = 1 .. Cursor
  BY <1>1 DEF TypeOK, Log, Cursor
<1>5. LogExtends
  BY <1>3, <1>4 DEF LogExtends
<1>6. /\ \A r \in Runs : Known(r) => Known(r)'
      /\ \A p \in Pendings : Asked(p) => pendings'[p].run = pendings[p].run
  BY <1>2 DEF vars, Known, Exists, SessionOf
<1>7. \A r \in RunsOf(Session) : Terminal(r) => Terminal(r)'
  BY <1>2 DEF vars, Terminal
<1>8. SessionMoves
  BY <1>5, <1>6, <1>7 DEF SessionMoves
<1> QED
  BY <1>2, <1>3, <1>8

\* The session's latest message; when that is over, they all are.
LEMMA LatestIs ==
    ASSUME SessionInv, RunsOf(Session) # {}
    PROVE  /\ Latest \in RunsOf(Session)
           /\ Terminal(Latest) => \A r \in RunsOf(Session) : Terminal(r)
<1> DEFINE left(r) == sessions[Session].nextSeq - runs[r].seq
           T == {left(r) : r \in RunsOf(Session)}
<1>1. /\ sessions[Session].nextSeq \in Nat
      /\ \A r \in RunsOf(Session) : /\ runs[r].seq \in Nat
                                   /\ runs[r].seq < sessions[Session].nextSeq
  BY SessionAssumption
  DEF SessionInv, ReplyInv, StoreInv, TypeOK, SessionRow, RunRow, SessionOrder, Numbered, RunsOf
<1>2. T \in SUBSET Nat /\ T # {}
  BY <1>1
<1>3. PICK least \in T : \A n \in T : least <= n
  <2> HIDE DEF T
  <2> QED
    BY <1>2, LeastNumber
<1>4. PICK r \in RunsOf(Session) : \A p \in RunsOf(Session) : left(r) <= left(p)
  BY <1>3
<1>5. \A p \in RunsOf(Session) : runs[p].seq <= runs[r].seq
  BY <1>1, <1>4
<1>6. Latest \in RunsOf(Session) /\ \A p \in RunsOf(Session) : runs[p].seq <= runs[Latest].seq
  BY <1>4, <1>5 DEF Latest
<1>7. ASSUME Terminal(Latest), NEW p \in RunsOf(Session), ~Terminal(p)
      PROVE  FALSE
  <2>1. p # Latest
    BY <1>7
  <2>2. runs[Latest].seq < runs[p].seq
    BY <1>6, <1>7, <2>1 DEF SessionInv, SessionOrder, UnfinishedIsLast
  <2>3. runs[Latest].seq \in Nat /\ runs[p].seq \in Nat /\ runs[p].seq <= runs[Latest].seq
    BY <1>1, <1>6
  <2> QED
    BY <2>2, <2>3
<1> QED
  BY <1>6, <1>7

\* A message of the session is in its log, and if it is over the log says so.
LEMMA MessageIsLogged ==
    ASSUME SessionInv, NEW r \in Runs, Known(r)
    PROVE  /\ r \in RunsOf(Session)
           /\ \E i \in EventsOf(r) : i \in 1 .. Cursor
           /\ Terminal(r) => \E i \in FinishOf(r) : i \in 1 .. Cursor
           /\ ~Terminal(r) => FinishOf(r) = {}
<1>1. RunReplays(r) /\ SessionOf(r) = Session /\ r \in RunsOf(Session)
  BY DEF SessionInv, ReplyInv, LogInv, EventLogReplays, Known, RunsOf
<1>2. PICK i \in RunLog(r) : Log[i].type = Announced(r)
  BY <1>1 DEF RunReplays, Log
<1>3. DOMAIN Log = 1 .. Cursor
  BY SessionAssumption DEF SessionInv, ReplyInv, StoreInv, TypeOK, Log, Cursor
<1>4. i \in EventsOf(r) /\ i \in 1 .. Cursor /\ Log[i].run = r
  BY <1>1, <1>2, <1>3 DEF RunLog, EventsOf, Log
<1>5. ASSUME Terminal(r)
      PROVE  i \in FinishOf(r)
  <2>1. runs[r].version # 0
    BY <1>5 DEF SessionInv, SessionOrder, FreshIsQueued, Known, Terminal, TerminalStatuses
  <2>2. Announced(r) = EventTypeOf(runs[r].status) /\ runs[r].status \in TerminalStatuses
    BY <1>5, <2>1 DEF Announced, Terminal
  <2>3. EventTypeOf(runs[r].status) = "run.finished"
    BY <2>2 DEF EventTypeOf, TerminalStatuses, WaitingStatuses
  <2> QED
    BY <1>2, <1>3, <1>4, <2>2, <2>3 DEF FinishOf
<1>6. ~Terminal(r) => FinishOf(r) = {}
  BY DEF SessionInv, SessionOrder, FinishIsFinal, FinishOf
<1> QED
  BY <1>1, <1>4, <1>5, <1>6

\* A client that moves, moves alone.
ClientsOK ==
    /\ clients \in [Clients -> ClientRow]
    /\ \A c \in Clients : ClientOK(c)

\* When one client moves, only that one has to be looked at.
LEMMA MovesAlone ==
    ASSUME SessionInv, SessionMoves, NEW c \in Clients, NEW row \in ClientRow, Moves(c, row),
           ClientOK(c)'
    PROVE  ClientsOK'
<1>1. clients \in [Clients -> ClientRow]
  BY DEF SessionInv
<1>2. /\ clients' \in [Clients -> ClientRow]
      /\ \A x \in Clients \ {c} : clients'[x] = clients[x]
  BY <1>1 DEF Moves
<1>3. \A x \in Clients \ {c} : ClientOK(x)'
  BY <1>2, ClientStays
<1> QED
  BY <1>2, <1>3 DEF ClientsOK

\* The client that moves is where it has moved to.
LEMMA MovesTo ==
    ASSUME SessionInv, NEW c \in Clients, NEW row, Moves(c, row)
    PROVE  clients'[c] = row
BY DEF SessionInv, Moves

\* A client before its stream has been given nothing, shows nothing unless it reconnects,
\* and is somewhere in the log.
LEMMA ClientIs ==
    ASSUME SessionInv, NEW c \in Clients
    PROVE  /\ clients[c] \in ClientRow /\ ClientOK(c)
           /\ clients[c].start \in Nat /\ clients[c].start <= Cursor
           /\ clients[c].run \in Runs \cup {None} /\ clients[c].shown \in Runs \cup {None}
           /\ clients[c].run # None => Known(clients[c].run)
           /\ clients[c].pc \in {"idle", "send", "version", "respond", "lost"} =>
                 clients[c].got = <<>> /\ clients[c].shown = None
<1>1. clients[c] \in ClientRow /\ ClientOK(c)
  BY DEF SessionInv
<1> QED
  BY <1>1 DEF ClientRow, ClientOK, InLog, Following, NothingYet, Attached, Showing, Streaming

\* _stream_session_events.
LEMMA SubscribesOK ==
    ASSUME SessionInv, NEW c \in Clients, Subscribes(c)
    PROVE  ClientsOK'
<1>1. Quiet /\ SessionMoves
  BY QuietMoves DEF Subscribes
<1>2. clients[c] \in ClientRow /\ clients[c].shown = None
  BY ClientIs DEF Subscribes
<1> DEFINE row == From(clients[c], None, 0)
<1>3. /\ row \in ClientRow /\ row.pc = "page" /\ row.run = None /\ row.shown = None
      /\ row.start = 0 /\ row.cursor = 0
  <2>1. None \in Runs \cup {None} /\ 0 \in Nat
    OBVIOUS
  <2>2. /\ row \in ClientRow
        /\ row = [pc |-> "page", run |-> None, pending |-> clients[c].pending, version |-> 0,
                  start |-> 0, cursor |-> 0, got |-> clients[c].got,
                  shown |-> clients[c].shown, mark |-> clients[c].mark]
    BY <1>2, <2>1, FromIs
  <2> HIDE DEF row
  <2> QED
    BY <1>2, <2>2
<1>4. Moves(c, row) /\ clients'[c] = row
  BY MovesTo DEF Subscribes
<1>5. 0 <= Cursor'
  BY <1>1 DEF SessionMoves, LogExtends
<1> HIDE DEF row
<1>6. ClientOK(c)'
  BY <1>1, <1>3, <1>4, <1>5, OpensOK
<1> QED
  BY <1>1, <1>3, <1>4, <1>6, MovesAlone

\* _send_message reads the cursor.
LEMMA SendReadsOK ==
    ASSUME SessionInv, NEW c \in Clients, SendReads(c)
    PROVE  ClientsOK'
<1>1. Quiet /\ SessionMoves /\ Cursor' = Cursor /\ Cursor \in Nat
  BY QuietMoves DEF SendReads, SessionMoves, LogExtends
<1> DEFINE row == [Gone("send") EXCEPT !.start = Cursor]
<1>2. ASSUME NEW new, new = row
      PROVE  /\ new \in ClientRow /\ new.pc = "send" /\ new.run = None /\ new.got = <<>>
             /\ new.shown = None /\ new.start = Cursor
  BY <1>1, <1>2, GoneIs DEF ClientRow, ClientPCs
<1>3. Moves(c, row) /\ clients'[c] = row
  BY MovesTo DEF SendReads
<1>4. /\ row \in ClientRow /\ row.pc = "send" /\ row.run = None /\ row.got = <<>>
      /\ row.shown = None /\ row.start = Cursor
  BY <1>2
<1> HIDE DEF row
<1>5. Cursor <= Cursor'
  BY <1>1
<1>6. ClientOK(c)'
  BY <1>1, <1>3, <1>4, <1>5, PreparesOK
<1> QED
  BY <1>1, <1>3, <1>4, <1>6, MovesAlone

\* _send_message submits; the message is the session's and the stream begins behind the
\* cursor that was read before.
LEMMA SendSubmitsOK ==
    ASSUME SessionInv, SessionMoves, NEW c \in Clients, NEW r \in Runs, NEW k \in Keys,
           SendSubmits(c, r, k)
    PROVE  ClientsOK'
<1>1. /\ clients[c] \in ClientRow /\ clients[c].shown = None
      /\ clients[c].start \in Nat /\ clients[c].start <= Cursor
  BY ClientIs DEF SendSubmits
<1> DEFINE row == From(clients[c], r, clients[c].start)
<1>2. /\ row \in ClientRow /\ row.pc = "page" /\ row.run = r /\ row.shown = None
      /\ row.start = clients[c].start /\ row.cursor = clients[c].start
  BY <1>1, FromIs
<1>3. Moves(c, row) /\ clients'[c] = row
  BY MovesTo DEF SendSubmits
<1>4. Known(r)'
  <2>1. TypeOK
    BY DEF SessionInv, ReplyInv, StoreInv
  <2>2. runs'[r].session = Session /\ Exists(r)'
    BY <2>1, SessionAssumption, AcceptedIdentity DEF SendSubmits
  <2> QED
    BY <2>2 DEF Known, SessionOf
<1>5. clients[c].start <= Cursor'
  BY <1>1 DEF SessionMoves, LogExtends
<1> HIDE DEF row
<1>6. ClientOK(c)'
  BY <1>1, <1>2, <1>3, <1>4, <1>5, OpensOK
<1> QED
  BY <1>2, <1>3, <1>6, MovesAlone

\* A request that is turned down, and a connection that breaks.
LEMMA GivesUpOK ==
    ASSUME SessionInv, SessionMoves, NEW c \in Clients, NEW pc \in {"idle", "lost"},
           Moves(c, Gone(pc))
    PROVE  ClientsOK'
<1>1. pc \in ClientPCs
  BY DEF ClientPCs
<1>2. Gone(pc) \in ClientRow
  BY <1>1, GoneIs
<1>3. ClientOK(c)'
  BY MovesTo, GoneOK
<1> QED
  BY <1>2, <1>3, MovesAlone

\* _reply reads the message and its version ...
LEMMA ReplyReadsOK ==
    ASSUME SessionInv, NEW c \in Clients, NEW p \in Pendings, ReplyReads(c, p)
    PROVE  ClientsOK'
<1>1. /\ Quiet /\ SessionMoves /\ pendings' = pendings
      /\ 0 <= Cursor' /\ \A r \in Runs : Known(r) => Known(r)'
  BY QuietMoves DEF ReplyReads, SessionMoves, LogExtends
<1>2. PICK r \in Runs : r = pendings[p].run
  BY DEF ReplyReads, Asked, SessionInv, ReplyInv, ReplyTypes, PendingRow
<1>3. Known(r) /\ r # None /\ runs[r].version \in Nat
  BY <1>2, NoneAssumption
  DEF ReplyReads, Known, SessionInv, ReplyInv, AskedHolds, StoreInv, TypeOK, RunRow
<1> DEFINE row == [Gone("version") EXCEPT !.run = r, !.pending = p,
                                          !.version = runs[r].version]
<1>4. ASSUME NEW new, new = row
      PROVE  /\ new \in ClientRow /\ new.pc = "version" /\ new.run = r /\ new.pending = p
             /\ new.got = <<>> /\ new.shown = None /\ new.start = 0
  <2>1. "version" \in ClientPCs
    BY DEF ClientPCs
  <2>2. new = [pc |-> "version", run |-> r, pending |-> p, version |-> runs[r].version,
               start |-> 0, cursor |-> 0, got |-> <<>>, shown |-> None, mark |-> 0]
    BY <1>4 DEF Gone
  <2> QED
    BY <1>3, <2>1, <2>2 DEF ClientRow
<1>5. Moves(c, row) /\ clients'[c] = row
  BY <1>2, MovesTo DEF ReplyReads
<1>6. /\ row \in ClientRow /\ row.pc = "version" /\ row.run = r /\ row.pending = p
      /\ row.got = <<>> /\ row.shown = None /\ row.start = 0
  BY <1>4
<1> HIDE DEF row
<1>7. ClientOK(c)'
  BY <1>1, <1>2, <1>3, <1>5, <1>6, PreparesOK
<1> QED
  BY <1>1, <1>5, <1>6, <1>7, MovesAlone

\* ... and then the cursor.
LEMMA ReplyReadsCursorOK ==
    ASSUME SessionInv, NEW c \in Clients, ReplyReadsCursor(c)
    PROVE  ClientsOK'
<1>1. /\ Quiet /\ SessionMoves /\ pendings' = pendings
      /\ Cursor' = Cursor /\ Cursor \in Nat /\ \A r \in Runs : Known(r) => Known(r)'
  BY QuietMoves DEF ReplyReadsCursor, SessionMoves, LogExtends
<1>2. /\ clients[c] \in ClientRow /\ clients[c].got = <<>> /\ clients[c].shown = None
      /\ clients[c].run # None => Known(clients[c].run)
  BY ClientIs DEF ReplyReadsCursor
<1>3. /\ clients[c].pending \in Pendings /\ clients[c].run # None
      /\ clients[c].run = pendings[clients[c].pending].run
  BY ClientIs DEF ReplyReadsCursor, ClientOK, Answering
<1>4. PICK r \in Runs : r = clients[c].run /\ Known(r)
  BY <1>2, <1>3 DEF Known
<1> DEFINE row == [clients[c] EXCEPT !.pc = "respond", !.start = Cursor]
<1>5. ASSUME NEW new, new = row
      PROVE  /\ new \in ClientRow /\ new.pc = "respond" /\ new.run = r
             /\ new.pending = clients[c].pending
             /\ new.got = <<>> /\ new.shown = None /\ new.start = Cursor
  BY <1>1, <1>2, <1>4, <1>5 DEF ClientRow, ClientPCs
<1>6. Moves(c, row) /\ clients'[c] = row
  BY MovesTo DEF ReplyReadsCursor
<1>7. /\ row \in ClientRow /\ row.pc = "respond" /\ row.run = r
      /\ row.pending = clients[c].pending
      /\ row.got = <<>> /\ row.shown = None /\ row.start = Cursor
  BY <1>5
<1> HIDE DEF row
<1>8. Cursor <= Cursor'
  BY <1>1
<1>9. clients'[c].run = pendings'[clients'[c].pending].run
  BY <1>1, <1>3, <1>4, <1>6, <1>7
<1>10. ClientOK(c)'
  BY <1>1, <1>3, <1>4, <1>6, <1>7, <1>8, <1>9, PreparesOK
<1> QED
  BY <1>1, <1>6, <1>7, <1>10, MovesAlone

\* _reply answers and streams the message it answered, or is turned down.
LEMMA RespondsOK ==
    ASSUME SessionInv, SessionMoves, NEW c \in Clients, NEW text \in Texts, Responds(c, text)
    PROVE  ClientsOK'
<1>1. /\ clients[c] \in ClientRow /\ clients[c].shown = None
      /\ clients[c].start \in Nat /\ clients[c].start <= Cursor
      /\ clients[c].run \in Runs \cup {None}
      /\ clients[c].run # None => Known(clients[c].run)
  BY ClientIs DEF Responds
<1> DEFINE asked  == [clients[c] EXCEPT !.pending = None]
           row    == From(asked, clients[c].run, clients[c].start)
<1>2. ASSUME NEW new, new = asked
      PROVE  new \in ClientRow /\ new.shown = None
  BY <1>1, <1>2 DEF ClientRow
<1>3. /\ row \in ClientRow /\ row.pc = "page" /\ row.run = clients[c].run /\ row.shown = None
      /\ row.start = clients[c].start /\ row.cursor = clients[c].start
  <2>1. asked \in ClientRow /\ asked.shown = None
    BY <1>2
  <2> HIDE DEF asked
  <2> QED
    BY <1>1, <2>1, FromIs
<1>4. CASE Moves(c, row)
  <2>1. clients'[c] = row
    BY <1>4, MovesTo
  <2>2. clients[c].start <= Cursor'
    BY <1>1 DEF SessionMoves, LogExtends
  <2>3. clients'[c].run # None => \E r \in Runs : r = clients'[c].run /\ Known(r)'
    <3>1. ASSUME clients[c].run # None
          PROVE  \E r \in Runs : r = clients[c].run /\ Known(r)'
      <4>1. PICK r \in Runs : r = clients[c].run /\ Known(r)
        BY <1>1, <3>1
      <4> QED
        BY <4>1 DEF SessionMoves
    <3> QED
      BY <1>3, <2>1, <3>1
  <2> HIDE DEF row
  <2>4. ClientOK(c)'
    BY <1>1, <1>3, <2>1, <2>2, <2>3, OpensOK
  <2> QED
    BY <1>3, <1>4, <2>4, MovesAlone
<1>5. CASE Moves(c, Gone("idle"))
  BY <1>5, GivesUpOK
<1> QED
  BY <1>4, <1>5 DEF Responds

\* _stream goes on with the next page, looks whether its message is over, or ends.
LEMMA StreamStepOK ==
    ASSUME SessionInv, Quiet, NEW c \in Clients, NEW pc \in Streaming \cup {"closed"},
           clients[c].pc \in Streaming, Step(c, pc),
           pc = "tail" => \A r \in RunsOf(Session) : \/ clients[c].run \notin {None, r}
                                                     \/ Terminal(r),
           pc = "closed" /\ clients[c].shown # None =>
               \E i \in FinishOf(clients[c].shown) : i <= clients[c].cursor
    PROVE  ClientsOK'
<1>1. /\ SessionMoves /\ Log' = Log /\ Cursor' = Cursor
      /\ RunsOf(Session)' = RunsOf(Session)
      /\ \A r \in Runs : Known(r) => Known(r)'
      /\ \A r \in Runs : FinishOf(r)' = FinishOf(r)
  <2>1. /\ SessionMoves /\ Log' = Log /\ Cursor' = Cursor
        /\ RunsOf(Session)' = RunsOf(Session)
    BY QuietMoves
  <2>2. \A r \in Runs : Known(r) => Known(r)'
    BY <2>1 DEF SessionMoves
  <2>3. \A r \in Runs : FinishOf(r)' = FinishOf(r)
    BY <2>1 DEF FinishOf
  <2> QED
    BY <2>1, <2>2, <2>3
<1>2. /\ clients[c] \in ClientRow /\ ClientOK(c) /\ pc \in ClientPCs
      /\ clients[c].run # None => Known(clients[c].run)
  BY ClientIs DEF ClientPCs
<1> DEFINE row == [clients[c] EXCEPT !.pc = pc]
<1>3. Moves(c, row) /\ clients'[c] = row
  BY MovesTo DEF Step
<1>4. /\ row \in ClientRow
      /\ row.pc = pc /\ row.run = clients[c].run /\ row.pending = clients[c].pending
      /\ row.start = clients[c].start /\ row.cursor = clients[c].cursor
      /\ row.got = clients[c].got /\ row.shown = clients[c].shown
      /\ row.mark = clients[c].mark
  <2>1. /\ row \in ClientRow
        /\ row = [pc |-> pc, run |-> clients[c].run, pending |-> clients[c].pending,
                  version |-> clients[c].version, start |-> clients[c].start,
                  cursor |-> clients[c].cursor, got |-> clients[c].got,
                  shown |-> clients[c].shown, mark |-> clients[c].mark]
    BY <1>2, StepIs
  <2> HIDE DEF row
  <2> QED
    BY <2>1
<1> HIDE DEF row
<1>5. Attached(c) /\ Attached(c)'
  BY <1>3, <1>4 DEF Attached
<1>6. NothingYet(c)' /\ Answering(c)' /\ InLog(c)'
  BY <1>1, <1>2, <1>3, <1>4, <1>5
  DEF ClientOK, NothingYet, Answering, InLog, Streaming
<1>7. Given(c)'
  BY <1>1, <1>2, <1>3, <1>4, <1>5 DEF ClientOK, Given
<1>8. Following(c)'
  <2>1. ASSUME clients[c].run # None
        PROVE  clients[c].run \in Runs /\ Known(clients[c].run)
    BY <1>2, <2>1 DEF Known
  <2>2. ASSUME NEW r \in Runs, r = clients[c].run, Known(r)
        PROVE  Following(c)'
    BY <1>1, <1>3, <1>4, <2>2 DEF Following, Known
  <2> QED
    BY <1>3, <1>4, <2>1, <2>2 DEF Following
<1>9. AtTail(c)'
  <2>1. CASE pc = "tail"
    <3>1. \A r \in RunsOf(Session) : clients[c].run \notin {None, r} \/ Terminal(r)'
      BY <1>1, <2>1 DEF SessionMoves
    <3> QED
      BY <1>1, <1>3, <1>4, <3>1 DEF AtTail
  <2> QED
    BY <1>3, <1>4, <2>1 DEF AtTail
<1>10. Showing(c)'
  <2>1. CASE clients[c].shown # None
    <3>1. PICK r \in Runs : r = clients[c].shown /\ Known(r)
      BY <1>2, <2>1 DEF ClientOK, Showing, Known
    <3>2. /\ Known(r)' /\ FinishOf(r)' = FinishOf(r)
          /\ clients[c].run = None /\ clients[c].mark <= Cursor
          /\ \A i \in FinishOf(r) : i > clients[c].mark
          /\ pc = "closed" => \E i \in FinishOf(r) : i <= clients[c].cursor
      BY <1>1, <1>2, <2>1, <3>1 DEF ClientOK, Showing
    <3> QED
      BY <1>1, <1>3, <1>4, <3>1, <3>2 DEF Showing, Known, FinishOf
  <2> QED
    BY <1>3, <1>4, <2>1 DEF Showing
<1>11. ClientOK(c)'
  BY <1>6, <1>7, <1>8, <1>9, <1>10 DEF ClientOK
<1> QED
  BY <1>1, <1>3, <1>4, <1>11, MovesAlone

\* A stream that follows everything shows a message of the session, if it shows one.
LEMMA LooksOverOK ==
    ASSUME SessionInv, NEW c \in Clients, LooksOver(c)
    PROVE  ClientsOK'
<1> DEFINE over == Terminal(Subject(clients[c]))
           pc   == IF over THEN "tail" ELSE "page"
<1>1. /\ Quiet /\ Step(c, pc) /\ clients[c].pc \in Streaming
      /\ pc \in Streaming \cup {"closed"} /\ pc # "closed" /\ (pc = "tail" => over)
  BY DEF LooksOver, Streaming
<1>2. ASSUME over
      PROVE  \A r \in RunsOf(Session) : clients[c].run \notin {None, r} \/ Terminal(r)
  <2>1. CASE clients[c].run # None
    BY <1>2, <2>1 DEF Subject
  <2>2. CASE clients[c].run = None
    <3>1. RunsOf(Session) # {}
      BY <2>2 DEF LooksOver
    <3> QED
      BY <1>2, <2>2, <3>1, LatestIs DEF Subject
  <2> QED
    BY <2>1, <2>2
<1> HIDE DEF over, pc
<1> QED
  BY <1>1, <1>2, StreamStepOK

\* Only a session without messages ends its stream at once.
LEMMA LooksEmptyOK ==
    ASSUME SessionInv, NEW c \in Clients, LooksEmpty(c)
    PROVE  ClientsOK'
<1>1. /\ Quiet /\ Step(c, "closed") /\ clients[c].pc \in Streaming
      /\ "closed" \in Streaming \cup {"closed"}
  BY DEF LooksEmpty, Streaming
<1>2. clients[c].shown = None
  <2>1. ASSUME clients[c].shown # None
        PROVE  FALSE
    <3>1. Known(clients[c].shown)
      BY <2>1, ClientIs DEF ClientOK, Showing
    <3> QED
      BY <3>1, MessageIsLogged DEF LooksEmpty, Known
  <2> QED
    BY <2>1
<1> QED
  BY <1>1, <1>2, StreamStepOK

\* A stream that ends was handed the run.finished of every message it follows: they were
\* over when it looked, and it has caught up with the log since.
LEMMA ComparesOK ==
    ASSUME SessionInv, NEW c \in Clients, Compares(c)
    PROVE  ClientsOK'
<1> DEFINE pc == IF CaughtUp(clients[c]) THEN "closed" ELSE "page"
<1>1. /\ Quiet /\ Step(c, pc) /\ clients[c].pc \in Streaming
      /\ pc \in Streaming \cup {"closed"} /\ pc # "tail"
      /\ (pc = "closed" => CaughtUp(clients[c]))
  BY DEF Compares, Streaming
<1>2. ASSUME CaughtUp(clients[c]), clients[c].shown # None
      PROVE  \E i \in FinishOf(clients[c].shown) : i <= clients[c].cursor
  <2>1. /\ Known(clients[c].shown) /\ clients[c].run = None
        /\ AtTail(c) /\ clients[c].pc = "tail" /\ clients[c].cursor \in Nat
    BY <1>2, ClientIs DEF ClientOK, Showing, Compares, ClientRow
  <2>2. PICK r \in Runs : r = clients[c].shown /\ Known(r)
    BY <2>1 DEF Known
  <2>3. /\ r \in RunsOf(Session)
        /\ \E i \in EventsOf(r) : i \in 1 .. Cursor
        /\ Terminal(r) => \E i \in FinishOf(r) : i \in 1 .. Cursor
    BY <2>2, MessageIsLogged
  <2>4. clients[c].cursor >= Cursor /\ Cursor \in Nat
    BY <1>1, <1>2, QuietMoves DEF CaughtUp, SessionMoves, LogExtends
  <2>5. Terminal(r)
    BY <2>1, <2>3, <2>4 DEF AtTail
  <2>6. PICK i \in FinishOf(r) : i \in 1 .. Cursor
    BY <2>3, <2>5
  <2>7. i <= clients[c].cursor
    BY <2>1, <2>4, <2>6
  <2> QED
    BY <2>2, <2>6, <2>7
<1> HIDE DEF pc
<1> QED
  BY <1>1, <1>2, StreamStepOK

\* A page of the client's stream: where it ends, and what it carries.
LEMMA PageCarries ==
    ASSUME SessionInv, NEW c \in Clients, clients[c].pc = "page"
    PROVE  LET row  == clients[c]
               mine == OfMessage(Page(row.cursor), row.run)
               more == Ascending(Numbers(mine))
           IN  /\ row.cursor \in Nat /\ PageEnd(row.cursor) \in Nat
               /\ row.cursor <= PageEnd(row.cursor) /\ PageEnd(row.cursor) <= Cursor
               /\ NextAfter(Page(row.cursor), row.cursor) = PageEnd(row.cursor)
               /\ Numbers(mine) = mine
               /\ \A i : i \in mine <=> /\ i \in row.cursor + 1 .. PageEnd(row.cursor)
                                        /\ row.run \in {None, Log[i].run}
               /\ more \in Seq(Nat)
               /\ \A i \in mine : \E k \in DOMAIN more : more[k] = i
<1> DEFINE row  == clients[c]
           page == Page(row.cursor)
           mine == OfMessage(page, row.run)
<1>1. row \in ClientRow /\ row.cursor \in Nat /\ row.cursor <= Cursor
  BY ClientIs DEF ClientRow, ClientOK, InLog, Attached, Streaming
<1>2. /\ StoreInv /\ LogInv
  BY DEF SessionInv, ReplyInv
<1>3. /\ Cursor \in Nat /\ PageEnd(row.cursor) \in Nat
      /\ row.cursor <= PageEnd(row.cursor) /\ PageEnd(row.cursor) <= Cursor
      /\ page = row.cursor + 1 .. PageEnd(row.cursor)
      /\ NextAfter(page, row.cursor) = PageEnd(row.cursor)
      /\ \A set \in SUBSET (1 .. Cursor) : Numbers(set) = set
  BY <1>1, <1>2, PageIs
<1>4. \A i : i \in mine <=> /\ i \in row.cursor + 1 .. PageEnd(row.cursor)
                            /\ row.run \in {None, Log[i].run}
  BY <1>3 DEF OfMessage
<1>5. mine \subseteq 1 .. Cursor
  BY <1>1, <1>3, <1>4
<1>6. Numbers(mine) = mine
  BY <1>3, <1>5
<1>7. Ascending(mine) \in Seq(Nat) /\ \A i \in mine : \E k \in DOMAIN Ascending(mine) :
                                                          Ascending(mine)[k] = i
  <2> HIDE DEF mine
  <2> QED
    BY <1>3, <1>5, AscendingLists
<1> QED
  BY <1>1, <1>3, <1>4, <1>6, <1>7

\* One list of events behind another.
LEMMA BehindList ==
    ASSUME NEW a \in Seq(Nat), NEW b \in Seq(Nat)
    PROVE  /\ a \o b \in Seq(Nat)
           /\ \A n \in DOMAIN a : n \in DOMAIN (a \o b) /\ (a \o b)[n] = a[n]
           /\ \A k \in DOMAIN b : /\ Len(a) + k \in DOMAIN (a \o b)
                                  /\ (a \o b)[Len(a) + k] = b[k]
OBVIOUS

\* _stream reads a page and writes it to the connection.
LEMMA ReadPageOK ==
    ASSUME SessionInv, NEW c \in Clients, ReadPage(c)
    PROVE  ClientsOK'
<1> DEFINE old  == clients[c]
           end  == PageEnd(old.cursor)
           mine == OfMessage(Page(old.cursor), old.run)
           more == Ascending(Numbers(mine))
           row  == [old EXCEPT !.pc = "look", !.cursor = end, !.got = @ \o more]
<1>1. /\ SessionMoves /\ Log' = Log /\ Cursor' = Cursor
      /\ RunsOf(Session)' = RunsOf(Session)
      /\ \A r \in Runs : Known(r) => Known(r)'
      /\ \A r \in Runs : FinishOf(r)' = FinishOf(r)
  <2>1. Quiet
    BY DEF ReadPage
  <2>2. /\ SessionMoves /\ Log' = Log /\ Cursor' = Cursor
        /\ RunsOf(Session)' = RunsOf(Session)
    BY <2>1, QuietMoves
  <2>3. \A r \in Runs : Known(r) => Known(r)'
    BY <2>2 DEF SessionMoves
  <2>4. \A r \in Runs : FinishOf(r)' = FinishOf(r)
    BY <2>2 DEF FinishOf
  <2> QED
    BY <2>2, <2>3, <2>4
<1>2. /\ old \in ClientRow /\ ClientOK(c) /\ old.pc = "page"
      /\ old.start \in Nat /\ old.got \in Seq(Nat)
      /\ old.run # None => Known(old.run)
  BY ClientIs DEF ReadPage, ClientRow
<1>3. /\ old.cursor \in Nat /\ end \in Nat /\ old.cursor <= end /\ end <= Cursor
      /\ NextAfter(Page(old.cursor), old.cursor) = end
      /\ Numbers(mine) = mine
      /\ \A i : i \in mine <=> i \in old.cursor + 1 .. end /\ old.run \in {None, Log[i].run}
      /\ more \in Seq(Nat)
      /\ \A i \in mine : \E k \in DOMAIN more : more[k] = i
  BY <1>2, PageCarries
<1> HIDE DEF end, mine, more
<1>4. Moves(c, row) /\ clients'[c] = row
  <2>1. Moves(c, row)
    BY <1>3 DEF ReadPage, mine, more
  <2> QED
    BY <2>1, MovesTo
<1>5. /\ row \in ClientRow
      /\ row.pc = "look" /\ row.run = old.run
      /\ row.start = old.start /\ row.cursor = end
      /\ row.got = old.got \o more /\ row.shown = old.shown
      /\ row.mark = old.mark
  <2>1. /\ row \in ClientRow
        /\ row = [pc |-> "look", run |-> old.run, pending |-> old.pending,
                  version |-> old.version, start |-> old.start, cursor |-> end,
                  got |-> old.got \o more, shown |-> old.shown, mark |-> old.mark]
    <3>1. row = [old EXCEPT !.pc = "look", !.cursor = end, !.got = @ \o more]
      OBVIOUS
    <3>2. old \in ClientRow /\ end \in Nat /\ more \in Seq(Nat)
      BY <1>2, <1>3
    <3> HIDE DEF row, old
    <3> QED
      BY <3>1, <3>2, PageRowIs
  <2> HIDE DEF row
  <2> QED
    BY <2>1
<1> HIDE DEF row
<1>6. /\ Attached(c) /\ Attached(c)'
      /\ old.start <= old.cursor /\ Given(c) /\ Showing(c)
  BY <1>2, <1>4, <1>5 DEF Attached, Streaming, ClientOK, InLog
<1>7. NothingYet(c)' /\ Answering(c)' /\ InLog(c)' /\ AtTail(c)'
  <2>1. old.start <= end /\ old.start <= Cursor
    BY <1>2, <1>3, <1>6, <1>1 DEF SessionMoves, LogExtends
  <2> QED
    BY <1>1, <1>3, <1>4, <1>5, <1>6, <2>1 DEF NothingYet, Answering, InLog, AtTail
<1>8. Given(c)'
  <2>1. ASSUME NEW i \in old.start + 1 .. end, old.run \in {None, Log[i].run}
        PROVE  \E n \in DOMAIN (old.got \o more) : (old.got \o more)[n] = i
    <3>1. CASE i <= old.cursor
      <4>1. i \in old.start + 1 .. old.cursor
        BY <1>2, <1>3, <2>1, <3>1
      <4>2. PICK n \in DOMAIN old.got : old.got[n] = i
        BY <1>6, <2>1, <4>1 DEF Given
      <4> QED
        BY <1>2, <1>3, <4>2, BehindList
    <3>2. CASE i > old.cursor
      <4>1. i \in old.cursor + 1 .. end
        BY <1>2, <1>3, <2>1, <3>2
      <4>2. PICK k \in DOMAIN more : more[k] = i
        BY <1>3, <2>1, <4>1
      <4> QED
        BY <1>2, <1>3, <4>2, BehindList
    <3> QED
      BY <1>2, <1>3, <2>1, <3>1, <3>2
  <2> QED
    BY <1>1, <1>4, <1>5, <2>1 DEF Given
<1>9. Following(c)'
  <2>1. ASSUME NEW r \in Runs, r = old.run, Known(r)
        PROVE  Following(c)'
    BY <1>1, <1>4, <1>5, <2>1 DEF Following, Known
  <2> QED
    BY <1>2, <1>4, <1>5, <2>1 DEF Following, Known
<1>10. Showing(c)'
  <2>1. CASE old.shown # None
    <3>1. PICK r \in Runs : r = old.shown /\ Known(r)
      BY <1>6, <2>1 DEF Showing, Known
    <3>2. /\ Known(r)' /\ FinishOf(r)' = FinishOf(r)
          /\ old.run = None /\ old.mark <= Cursor
          /\ \A i \in FinishOf(r) : i > old.mark
      BY <1>1, <1>6, <2>1, <3>1 DEF Showing
    <3> QED
      BY <1>1, <1>4, <1>5, <3>1, <3>2 DEF Showing, Known, FinishOf, Streaming
  <2> QED
    BY <1>4, <1>5, <2>1 DEF Showing
<1>11. ClientOK(c)'
  BY <1>7, <1>8, <1>9, <1>10 DEF ClientOK
<1> QED
  BY <1>1, <1>4, <1>5, <1>11, MovesAlone

\* _get_session_state reads the message; as that is not over, its run.finished is still
\* to come.
LEMMA ReadCurrentOK ==
    ASSUME SessionInv, NEW c \in Clients, ReadCurrent(c)
    PROVE  ClientsOK'
<1>1. /\ Quiet /\ SessionMoves /\ Cursor' = Cursor /\ Cursor \in Nat
      /\ \A r \in Runs : Known(r) => Known(r)'
      /\ \A r \in Runs : FinishOf(r)' = FinishOf(r)
  <2>1. Quiet
    BY DEF ReadCurrent
  <2>2. SessionMoves /\ Log' = Log /\ Cursor' = Cursor
    BY <2>1, QuietMoves
  <2>3. Cursor \in Nat /\ \A r \in Runs : Known(r) => Known(r)'
    BY <2>2 DEF SessionMoves, LogExtends
  <2>4. \A r \in Runs : FinishOf(r)' = FinishOf(r)
    BY <2>2 DEF FinishOf
  <2> QED
    BY <2>1, <2>2, <2>3, <2>4
<1>2. PICK r \in Runs : r = Latest /\ Known(r) /\ ~Terminal(r)
  <2>1. Latest \in RunsOf(Session)
    BY LatestIs DEF ReadCurrent
  <2> QED
    BY <2>1 DEF RunsOf, Known, ReadCurrent
<1>3. FinishOf(r)' = {} /\ Known(r)'
  BY <1>1, <1>2, MessageIsLogged
<1> DEFINE row == [Gone("snapshot") EXCEPT !.shown = r, !.mark = Cursor]
<1>4. ASSUME NEW new, new = row
      PROVE  /\ new \in ClientRow /\ new.pc = "snapshot" /\ new.run = None
             /\ new.got = <<>> /\ new.shown = r /\ new.mark = Cursor /\ new.start = 0
  <2>1. "snapshot" \in ClientPCs
    BY DEF ClientPCs
  <2>2. new = [pc |-> "snapshot", run |-> None, pending |-> None, version |-> 0,
               start |-> 0, cursor |-> 0, got |-> <<>>, shown |-> r, mark |-> Cursor]
    BY <1>4 DEF Gone
  <2> QED
    BY <1>1, <2>1, <2>2 DEF ClientRow
<1>5. Moves(c, row) /\ clients'[c] = row
  BY <1>2, MovesTo DEF ReadCurrent
<1>6. /\ row \in ClientRow /\ row.pc = "snapshot" /\ row.run = None
      /\ row.got = <<>> /\ row.shown = r /\ row.mark = Cursor /\ row.start = 0
  BY <1>4
<1> HIDE DEF row
<1>7. Showing(c)'
  BY <1>1, <1>3, <1>5, <1>6 DEF Showing, Known, FinishOf
<1>8. ~Attached(c)' /\ 0 <= Cursor'
  BY <1>1, <1>5, <1>6 DEF Attached, Streaming
<1>9. ClientOK(c)'
  BY <1>5, <1>6, <1>7, <1>8
  DEF ClientOK, NothingYet, InLog, Given, Following, Answering, AtTail
<1> QED
  BY <1>1, <1>5, <1>6, <1>9, MovesAlone

\* ... and then the cursor, from which the page follows the whole session.
LEMMA ReconnectsOK ==
    ASSUME SessionInv, NEW c \in Clients, Reconnects(c)
    PROVE  ClientsOK'
<1>1. /\ Quiet /\ SessionMoves /\ Cursor' = Cursor /\ Cursor \in Nat
      /\ \A r \in Runs : Known(r) => Known(r)'
      /\ \A r \in Runs : FinishOf(r)' = FinishOf(r)
  <2>1. Quiet
    BY DEF Reconnects
  <2>2. SessionMoves /\ Log' = Log /\ Cursor' = Cursor
    BY <2>1, QuietMoves
  <2>3. Cursor \in Nat /\ \A r \in Runs : Known(r) => Known(r)'
    BY <2>2 DEF SessionMoves, LogExtends
  <2>4. \A r \in Runs : FinishOf(r)' = FinishOf(r)
    BY <2>2 DEF FinishOf
  <2> QED
    BY <2>1, <2>2, <2>3, <2>4
<1>2. clients[c] \in ClientRow /\ Showing(c) /\ None \in Runs \cup {None}
  BY ClientIs DEF ClientOK
<1> DEFINE row == From(clients[c], None, Cursor)
<1>3. /\ row \in ClientRow /\ row.pc = "page" /\ row.run = None
      /\ row.shown = clients[c].shown /\ row.mark = clients[c].mark
      /\ row.start = Cursor /\ row.cursor = Cursor
  <2>1. /\ row \in ClientRow
        /\ row = [pc |-> "page", run |-> None, pending |-> clients[c].pending, version |-> 0,
                  start |-> Cursor, cursor |-> Cursor, got |-> clients[c].got,
                  shown |-> clients[c].shown, mark |-> clients[c].mark]
    BY <1>1, <1>2, FromIs
  <2> HIDE DEF row
  <2> QED
    BY <2>1
<1>4. Moves(c, row) /\ clients'[c] = row
  BY MovesTo DEF Reconnects, EventCursor
<1>5. ASSUME clients[c].shown # None
      PROVE  /\ clients[c].mark <= Cursor
             /\ \E r \in Runs : /\ r = clients[c].shown /\ Known(r)'
                                /\ \A i \in FinishOf(r)' : i > clients[c].mark
  <2>1. PICK r \in Runs : r = clients[c].shown /\ Known(r)
    BY <1>2, <1>5 DEF Showing, Known
  <2>2. Known(r)' /\ FinishOf(r)' = FinishOf(r)
    BY <1>1, <2>1
  <2>3. clients[c].mark <= Cursor /\ \A i \in FinishOf(r) : i > clients[c].mark
    BY <1>2, <1>5, <2>1 DEF Showing
  <2> QED
    BY <2>1, <2>2, <2>3
<1> HIDE DEF row
<1>6. Cursor <= Cursor'
  BY <1>1
<1>7. ClientOK(c)'
  BY <1>1, <1>3, <1>4, <1>5, <1>6, OpensOK
<1> QED
  BY <1>1, <1>3, <1>4, <1>7, MovesAlone

\* The process dies: whoever was connected is not any more.
LEMMA ServerDiesOK ==
    ASSUME SessionInv, SessionMoves, ServerDies
    PROVE  ClientsOK'
<1>1. \A c \in Clients : clients[c] \in ClientRow
  BY DEF SessionInv
<1>2. clients' = [c \in Clients |-> Broken(clients[c])]
  BY DEF ServerDies
<1>3. ASSUME NEW c \in Clients
      PROVE  clients'[c] \in ClientRow /\ ClientOK(c)'
  <2>1. CASE clients'[c] = clients[c]
    BY <1>1, <2>1, ClientStays
  <2>2. CASE clients'[c] = Gone("lost")
    BY <2>2, GoneIs, GoneOK DEF ClientPCs
  <2> QED
    BY <1>2, <2>1, <2>2 DEF Broken
<1> QED
  BY <1>2, <1>3 DEF ClientsOK

-----------------------------------------------------------------------------
(***************************************************************************)
(* The inductive invariant holds.                                          *)
(***************************************************************************)
\* Whoever moves, each client has what its stream owes it.
LEMMA NextClients ==
    ASSUME SessionInv, SessionMoves, [SessionNext]_sessionVars
    PROVE  ClientsOK'
<1>1. ASSUME clients' = clients
      PROVE  ClientsOK'
  BY <1>1, ClientStays DEF ClientsOK, SessionInv
<1>2. ASSUME NEW c \in Clients, Disconnect(c) \/ SendBusy(c)
      PROVE  ClientsOK'
  BY <1>2, GivesUpOK DEF Disconnect, SendBusy
<1>3. CASE ClientStep
  BY <1>3, <1>2, SubscribesOK, SendReadsOK, SendSubmitsOK, ReplyReadsOK, ReplyReadsCursorOK,
     RespondsOK, ReadPageOK, LooksOverOK, LooksEmptyOK, ComparesOK, ReadCurrentOK, ReconnectsOK
  DEF ClientStep
<1>4. CASE StoreStep \/ Asks \/ UNCHANGED sessionVars
  BY <1>4, <1>1 DEF StoreStep, Asks, sessionVars
<1>5. CASE ServerDies
  BY <1>5, ServerDiesOK
<1> QED
  BY <1>3, <1>4, <1>5 DEF SessionNext

\* Every step keeps the invariant of the session.
LEMMA NextSession ==
    ASSUME SessionInv, [SessionNext]_sessionVars
    PROVE  SessionInv'
<1>1. SessionMoves /\ [AnyCall]_vars /\ AnswerStep
  BY StepMoves
<1>2. /\ ReplyInv /\ SessionOrder /\ \A c \in Clients : Answering(c)
  BY DEF SessionInv, ClientOK
<1>3. ReplyInv'
  BY <1>1, <1>2, StepKeepsReplies
<1>4. SessionOrder'
  BY <1>1, <1>2, KeepsSessionOrder
<1>5. ClientsOK'
  BY <1>1, NextClients
<1> QED
  BY <1>3, <1>4, <1>5 DEF SessionInv, ClientsOK

\* No messages, no questions, and clients that have not connected.
LEMMA InitSession == SessionInit => SessionInv
<1> SUFFICES ASSUME SessionInit
             PROVE  SessionInv
  OBVIOUS
<1>1. ReplyInv
  BY InitReplies DEF SessionInit
<1>2. Init /\ Session \in Sessions
  BY SessionAssumption DEF SessionInit, ReplyInit
<1>3. \A r \in Runs : ~Exists(r)
  BY <1>2 DEF Init, Exists, NoRun
<1>4. Log = <<>> /\ Cursor = 0
  BY <1>2 DEF Init, Log, Cursor
<1>5. SessionOrder
  <2>1. Numbered
    BY <1>3 DEF Numbered
  <2>2. FinishIsFinal
    BY <1>4 DEF FinishIsFinal
  <2> QED
    BY <1>3, <2>1, <2>2 DEF SessionOrder, UnfinishedIsLast, FreshIsQueued, RunsOf
<1>6. "idle" \in ClientPCs
  BY DEF ClientPCs
<1>7. Gone("idle") \in ClientRow
  BY <1>6, GoneIs
<1>8. ASSUME NEW c \in Clients
      PROVE  clients[c] \in ClientRow /\ ClientOK(c)
  <2>1. clients[c] = Gone("idle")
    BY DEF SessionInit
  <2>2. /\ clients[c].pc = "idle" /\ clients[c].run = None
        /\ clients[c].got = <<>> /\ clients[c].shown = None /\ clients[c].start = 0
    BY <2>1 DEF Gone
  <2> QED
    BY <1>4, <1>7, <2>1, <2>2
    DEF ClientOK, NothingYet, InLog, Given, Following, Answering, AtTail, Showing, Attached,
        Streaming
<1>9. clients \in [Clients -> ClientRow]
  BY <1>8 DEF SessionInit
<1> QED
  BY <1>1, <1>5, <1>8, <1>9 DEF SessionInv

\* The tables, the questions and every client are what the invariant says, whatever the
\* requests of server.py, the workers and the connections do.
THEOREM SessionInvTheorem == SessionSpec => []SessionInv
<1>1. SessionInit => SessionInv
  BY InitSession
<1>2. SessionInv /\ [SessionNext]_sessionVars => SessionInv'
  BY NextSession
<1> QED
  BY <1>1, <1>2, PTL DEF SessionSpec

\* Rows, questions, files and clients stay well formed.
THEOREM SessionTypesTheorem == SessionSpec => []SessionTypeOK
<1>1. SessionInv => SessionTypeOK
  BY DEF SessionInv, ReplyInv, StoreInv, ReplyTypes, SessionTypeOK
<1> QED
  BY <1>1, SessionInvTheorem, PTL

\* Also with clients that answer: who executes, in four columns that four methods write
\* (claim_next_run, transition_run, cancel_run, respond_to_run).
THEOREM SessionOwnershipTheorem == SessionSpec => []OwnershipAgrees
<1>1. SessionInv => OwnershipAgrees
  BY DEF SessionInv, ReplyInv, StoreInv
<1> QED
  BY <1>1, SessionInvTheorem, PTL

\* Also with clients that answer: the numbers that _insert_event_locked gives to events
\* and the counters and statuses of the rows tell the same story.
THEOREM SessionLogTheorem == SessionSpec => []EventLogReplays
<1>1. SessionInv => EventLogReplays
  BY DEF SessionInv, ReplyInv, LogInv
<1> QED
  BY <1>1, SessionInvTheorem, PTL

\* respond_to_run: the accepted answer's text is in its file, unless an earlier answer
\* was written there and not committed.
THEOREM AnswerIsStoredTheorem == SessionSpec => []AnswerIsStored
<1>1. SessionInv => AnswerIsStored
  BY DEF SessionInv, ReplyInv
<1> QED
  BY <1>1, SessionInvTheorem, PTL

\* respond_to_run: every accepted answer has resumed its run once more.
THEOREM AnswersResumeTheorem == SessionSpec => []AnswersResume
<1>1. SessionInv => AnswersResume
  BY DEF SessionInv, ReplyInv, ResumesCount, AnswersResume
<1> QED
  BY <1>1, SessionInvTheorem, PTL

\* respond_to_run puts the run back into the queue and leaves the session and the
\* workspace with its old attempt.
THEOREM AnsweredKeepsHoldTheorem == SessionSpec => []AnsweredKeepsHold
<1>1. SessionInv => AnsweredKeepsHold
  BY ReplyInvHolds DEF SessionInv
<1> QED
  BY <1>1, SessionInvTheorem, PTL

\* _get_session_state and _stream: whoever reconnects to an unfinished message and whose
\* stream ends was told that it finished, unless it finished within the snapshot.
THEOREM ResumedClientTheorem == SessionSpec => []ResumedClientSeesFinish
<1>1. ASSUME SessionInv, NEW c \in Clients, clients[c].pc = "closed", clients[c].shown # None
      PROVE  \E i \in FinishOf(clients[c].shown) :
                \/ \E n \in DOMAIN clients[c].got : clients[c].got[n] = i
                \/ clients[c].mark < i /\ i <= clients[c].start
  <2>1. /\ clients[c] \in ClientRow /\ ClientOK(c) /\ Attached(c)
        /\ clients[c].start \in Nat /\ clients[c].cursor \in Nat /\ clients[c].mark \in Nat
    BY <1>1, ClientIs DEF Attached, ClientRow
  <2>2. /\ clients[c].run = None
        /\ \A i \in FinishOf(clients[c].shown) : i > clients[c].mark
    BY <1>1, <2>1 DEF ClientOK, Showing
  <2>3. PICK i \in FinishOf(clients[c].shown) : i <= clients[c].cursor
    BY <1>1, <2>1 DEF ClientOK, Showing
  <2>4. i \in Nat
    <3>1. Log \in Seq(EventRow)
      BY <1>1, SessionAssumption DEF SessionInv, ReplyInv, StoreInv, TypeOK, Log
    <3> QED
      BY <2>3, <3>1 DEF FinishOf
  <2>5. CASE i <= clients[c].start
    BY <2>1, <2>2, <2>3, <2>4, <2>5
  <2>6. CASE ~(i <= clients[c].start)
    <3>1. i \in clients[c].start + 1 .. clients[c].cursor
      BY <2>1, <2>3, <2>4, <2>6
    <3>2. \E n \in DOMAIN clients[c].got : clients[c].got[n] = i
      BY <2>1, <2>2, <3>1 DEF ClientOK, Given
    <3> QED
      BY <2>3, <3>2
  <2> QED
    BY <2>5, <2>6
<1>2. SessionInv => ResumedClientSeesFinish
  BY <1>1 DEF ResumedClientSeesFinish
<1> QED
  BY <1>2, SessionInvTheorem, PTL

-----------------------------------------------------------------------------
(***************************************************************************)
(* The streams implement the event feed.                                   *)
(***************************************************************************)
FeedLog == [i \in DOMAIN Log |-> [run |-> Log[i].run, says |-> Saying(Log[i].type)]]
FeedNow == [c \in Clients |-> FeedOf(clients[c])]
Silent  == FeedLog' = FeedLog /\ FeedNow' = FeedNow

\* Clients that have not connected have been handed nothing.
LEMMA InitFeeds == SessionInit => Feed!FeedInit
<1> SUFFICES ASSUME SessionInit
             PROVE  Feed!FeedInit
  OBVIOUS
<1>1. Log = <<>>
  BY SessionAssumption DEF SessionInit, ReplyInit, Init, Log
<1>2. FeedLog = <<>>
  BY <1>1 DEF FeedLog
<1>3. ASSUME NEW c \in Clients
      PROVE  FeedOf(clients[c]) = Feed!NoFeed
  <2>1. clients[c].pc = "idle"
    BY DEF SessionInit, Gone
  <2> QED
    BY <2>1 DEF FeedOf, Streaming, Feed!NoFeed
<1> QED
  BY <1>2, <1>3 DEF Feed!FeedInit, FeedLog

\* A sequence and one more.
LEMMA OneMore ==
    ASSUME NEW S, NEW q \in Seq(S), NEW e \in S
    PROVE  Append(q, e) = [i \in 1 .. Len(q) + 1 |-> IF i \in 1 .. Len(q) THEN q[i] ELSE e]
<1>1. /\ Append(q, e) \in Seq(S) /\ Len(q) \in Nat /\ Len(Append(q, e)) = Len(q) + 1
      /\ \A i \in 1 .. Len(q) : Append(q, e)[i] = q[i]
      /\ Append(q, e)[Len(q) + 1] = e
  OBVIOUS
<1>2. Append(q, e) = [i \in 1 .. Len(q) + 1 |-> Append(q, e)[i]]
  <2>1. Append(q, e) \in [1 .. Len(q) + 1 -> S]
    BY <1>1, LenProperties
  <2> QED
    BY <2>1
<1>3. \A i \in 1 .. Len(q) + 1 :
         Append(q, e)[i] = IF i \in 1 .. Len(q) THEN q[i] ELSE e
  <2>1. \A i \in 1 .. Len(q) + 1 : i \in 1 .. Len(q) \/ i = Len(q) + 1
    BY <1>1
  <2>2. Len(q) + 1 \notin 1 .. Len(q)
    BY <1>1
  <2> QED
    BY <1>1, <2>1, <2>2
<1> QED
  BY <1>2, <1>3

\* One event more in the log.
LEMMA FeedLogAppends ==
    ASSUME SessionInv, NEW r \in Runs, NEW n, NEW type, LogEvent(r, n, Session, type)
    PROVE  /\ FeedLog' = Append(FeedLog, [run |-> r, says |-> Saying(type)])
           /\ [run |-> r, says |-> Saying(type)] \in Feed!Event
<1>1. TypeOK /\ Session \in Sessions
  BY SessionAssumption DEF SessionInv, ReplyInv, StoreInv
<1>2. /\ Cursor \in Nat /\ DOMAIN Log = 1 .. Cursor /\ DOMAIN Log' = 1 .. Cursor + 1
      /\ Log'[Cursor + 1].run = r /\ Log'[Cursor + 1].type = type
      /\ \A i \in DOMAIN Log : Log'[i] = Log[i]
  BY <1>1, LogGrows DEF Log, Cursor, TypeOK
<1> DEFINE S == {FeedLog[i] : i \in 1 .. Cursor} \cup {[run |-> r, says |-> Saying(type)]}
<1>3. FeedLog \in Seq(S) /\ Len(FeedLog) = Cursor
  <2>1. FeedLog \in [1 .. Cursor -> S]
    BY <1>2 DEF FeedLog
  <2> HIDE DEF S
  <2> QED
    BY <1>2, <2>1
<1>4. FeedLog' = [i \in 1 .. Cursor + 1 |->
                      IF i \in 1 .. Cursor THEN FeedLog[i]
                      ELSE [run |-> r, says |-> Saying(type)]]
  <2>1. FeedLog' = [i \in 1 .. Cursor + 1 |->
                        [run |-> Log'[i].run, says |-> Saying(Log'[i].type)]]
    BY <1>2 DEF FeedLog
  <2>2. ASSUME NEW i \in 1 .. Cursor + 1
        PROVE  [run |-> Log'[i].run, says |-> Saying(Log'[i].type)] =
                   IF i \in 1 .. Cursor THEN FeedLog[i]
                   ELSE [run |-> r, says |-> Saying(type)]
    <3>1. CASE i \in 1 .. Cursor
      BY <1>2, <3>1 DEF FeedLog
    <3>2. CASE i \notin 1 .. Cursor
      <4>1. i = Cursor + 1
        BY <1>2, <3>2
      <4> QED
        BY <1>2, <3>2, <4>1
    <3> QED
      BY <3>1, <3>2
  <2> QED
    BY <2>1, <2>2
<1>5. FeedLog' = Append(FeedLog, [run |-> r, says |-> Saying(type)])
  <2> DEFINE e == [run |-> r, says |-> Saying(type)]
  <2>1. Append(FeedLog, e) = [i \in 1 .. Cursor + 1 |-> IF i \in 1 .. Cursor THEN FeedLog[i]
                                                       ELSE e]
    <3>1. e \in S
      OBVIOUS
    <3> HIDE DEF e, S
    <3> QED
      BY <1>2, <1>3, <3>1, OneMore
  <2> QED
    BY <1>4, <2>1
<1>6. Saying(type) \in {"accepted", "finished", "other"}
  BY DEF Saying
<1> QED
  BY <1>5, <1>6 DEF Feed!Event

\* What a client that moves does to the feed.
LEMMA FeedMoves ==
    ASSUME SessionInv, NEW c \in Clients, NEW row, Moves(c, row)
    PROVE  /\ FeedNow' = [FeedNow EXCEPT ![c] = FeedOf(row)]
           /\ FeedOf(row) = FeedOf(clients[c]) => FeedNow' = FeedNow
<1>1. clients \in [Clients -> ClientRow] /\ clients' = [clients EXCEPT ![c] = row]
  BY DEF SessionInv, Moves
<1>2. \A x \in Clients : FeedOf(clients'[x]) = IF x = c THEN FeedOf(row) ELSE FeedOf(clients[x])
  BY <1>1
<1>3. FeedNow' = [x \in Clients |-> IF x = c THEN FeedOf(row) ELSE FeedOf(clients[x])]
  BY <1>2 DEF FeedNow
<1> QED
  BY <1>3 DEF FeedNow

\* A client that has no stream before or after.
LEMMA NoStreamNoFeed ==
    ASSUME SessionInv, NEW c \in Clients, NEW row, Moves(c, row),
           clients[c].pc \notin Streaming \cup {"closed"}, row.pc \notin Streaming \cup {"closed"}
    PROVE  FeedNow' = FeedNow
<1>1. FeedOf(row) = FeedOf(clients[c])
  BY DEF FeedOf
<1> QED
  BY <1>1, FeedMoves

\* A stream that begins.
LEMMA OpensFeed ==
    ASSUME SessionInv, NEW c \in Clients, NEW run \in Runs \cup {None}, NEW n \in 0 .. Cursor,
           NEW row \in ClientRow, row.got = <<>>,
           clients[c].pc \notin Streaming \cup {"closed"}, Moves(c, From(row, run, n))
    PROVE  /\ FeedNow[c].phase = "none"
           /\ FeedNow' = [FeedNow EXCEPT ![c] = [phase |-> "open", run |-> run,
                                                 from |-> n, to |-> n, got |-> <<>>]]
           /\ n \in 0 .. Len(FeedLog)
<1> DEFINE new == From(row, run, n)
<1>1. n \in Nat
  OBVIOUS
<1>2. new = [pc |-> "page", run |-> run, pending |-> row.pending, version |-> 0,
             start |-> n, cursor |-> n, got |-> row.got, shown |-> row.shown,
             mark |-> row.mark]
  BY <1>1, FromIs
<1>3. new.pc = "page" /\ new.run = run /\ new.start = n /\ new.cursor = n /\ new.got = <<>>
  <2> HIDE DEF new
  <2> QED
    BY <1>2
<1>4. FeedOf(new) = [phase |-> "open", run |-> run, from |-> n, to |-> n, got |-> <<>>]
  <2> HIDE DEF new
  <2> QED
    BY <1>3 DEF FeedOf, Streaming
<1>5. FeedNow[c] = [phase |-> "none", run |-> None, from |-> 0, to |-> 0, got |-> <<>>]
  BY DEF FeedNow, FeedOf
<1>6. Len(FeedLog) = Cursor
  <2>1. Cursor \in Nat /\ DOMAIN FeedLog = 1 .. Cursor
    BY SessionAssumption DEF SessionInv, ReplyInv, StoreInv, TypeOK, Log, Cursor, FeedLog
  <2> QED
    BY <2>1
<1>7. FeedNow' = [FeedNow EXCEPT ![c] = FeedOf(new)]
  BY FeedMoves
<1> HIDE DEF new
<1> QED
  BY <1>4, <1>5, <1>6, <1>7

\* A step of the client that leaves everything else alone leaves the log alone.
LEMMA QuietFeedLog ==
    ASSUME SessionInv, Quiet
    PROVE  FeedLog' = FeedLog /\ Cursor' = Cursor
BY QuietMoves DEF FeedLog

\* Where a client's stream is, as the feed sees it.
LEMMA StreamFeed ==
    ASSUME SessionInv, NEW c \in Clients, clients[c].pc \in Streaming
    PROVE  /\ FeedNow[c] = [phase |-> "open", run |-> clients[c].run, from |-> clients[c].start,
                            to |-> clients[c].cursor, got |-> clients[c].got]
           /\ clients[c].cursor \in Nat /\ clients[c].cursor <= Cursor
           /\ Cursor \in Nat /\ DOMAIN Log = 1 .. Cursor
           /\ Len(FeedLog) = Cursor /\ DOMAIN FeedLog = 1 .. Cursor
<1>1. clients[c] \in ClientRow /\ ClientOK(c)
  BY ClientIs
<1>2. Cursor \in Nat /\ DOMAIN Log = 1 .. Cursor
  BY SessionAssumption DEF SessionInv, ReplyInv, StoreInv, TypeOK, Log, Cursor
<1>3. DOMAIN FeedLog = 1 .. Cursor /\ Len(FeedLog) = Cursor
  <2>1. DOMAIN FeedLog = 1 .. Cursor
    BY <1>2 DEF FeedLog
  <2> QED
    BY <1>2, <2>1
<1>4. clients[c].cursor \in Nat /\ clients[c].cursor <= Cursor
  BY <1>1 DEF ClientRow, ClientOK, InLog, Attached
<1>5. clients[c].pc # "closed"
  BY DEF Streaming
<1> QED
  BY <1>2, <1>3, <1>4, <1>5 DEF FeedNow, FeedOf

\* The stream writes numbers in the order that the feed wants.
LEMMA SameAscending == ASSUME NEW S PROVE Feed!Ascending(S) = Ascending(S)
<1>1. \A T : Feed!Cardinality(T) = Cardinality(T)
  BY DEF Feed!Cardinality, Cardinality
<1>2. ASSUME NEW k
      PROVE  Feed!Nth(S, k) = Nth(S, k)
  <2>1. (CHOOSE i \in S : Feed!Cardinality({j \in S : j <= i}) = k) =
        (CHOOSE i \in S : Cardinality({j \in S : j <= i}) = k)
    BY <1>1, Zenon
  <2> QED
    BY <2>1, Zenon DEF Feed!Nth, Nth, UpTo
<1> QED
  BY <1>1, <1>2 DEF Feed!Ascending, Ascending

\* ReadPage hands the page.
LEMMA ReadPageHands ==
    ASSUME SessionInv, NEW c \in Clients, ReadPage(c)
    PROVE  Feed!Hands(c)
<1> DEFINE old  == clients[c]
           n    == PageEnd(old.cursor)
           mine == OfMessage(Page(old.cursor), old.run)
           more == Ascending(Numbers(mine))
           due  == Feed!Due(old.run, old.cursor, n)
           row  == [old EXCEPT !.pc = "look", !.cursor = n, !.got = @ \o more]
<1>1. Quiet /\ old.pc = "page" /\ old.pc \in Streaming /\ old \in ClientRow
  BY ClientIs DEF ReadPage, Streaming
<1>2. /\ old.cursor \in Nat /\ n \in Nat /\ old.cursor <= n /\ n <= Cursor
      /\ NextAfter(Page(old.cursor), old.cursor) = n
      /\ Numbers(mine) = mine
      /\ \A i : i \in mine <=> i \in old.cursor + 1 .. n /\ old.run \in {None, Log[i].run}
      /\ more \in Seq(Nat)
  BY <1>1, PageCarries
<1>3. /\ FeedNow[c] = [phase |-> "open", run |-> old.run, from |-> old.start,
                       to |-> old.cursor, got |-> old.got]
      /\ Cursor \in Nat /\ DOMAIN Log = 1 .. Cursor /\ Len(FeedLog) = Cursor
  BY <1>1, StreamFeed
<1>4. \A i \in 1 .. Cursor : FeedLog[i].run = Log[i].run
  BY <1>3 DEF FeedLog
<1>5. due = mine
  <2>1. \A i \in old.cursor + 1 .. n : i \in 1 .. Cursor
    BY <1>2, <1>3
  <2>2. \A i : i \in due <=> i \in old.cursor + 1 .. n /\ old.run \in {None, FeedLog[i].run}
    BY DEF Feed!Due, Feed!Follows, FeedLog
  <2> HIDE DEF due, mine, n
  <2>3. \A i : i \in due <=> i \in mine
    BY <1>2, <1>4, <2>1, <2>2
  <2> QED
    BY <2>3
<1>6. Feed!Ascending(due) = more
  <2> HIDE DEF due
  <2>1. Feed!Ascending(due) = Ascending(due)
    BY SameAscending
  <2> QED
    BY <1>2, <1>5, <2>1
<1>7. Moves(c, row)
  BY <1>2 DEF ReadPage
<1>8. FeedOf(row) = [phase |-> "open", run |-> old.run, from |-> old.start,
                     to |-> n, got |-> old.got \o more]
  <2>1. row = [pc |-> "look", run |-> old.run, pending |-> old.pending,
               version |-> old.version, start |-> old.start, cursor |-> n,
               got |-> old.got \o more, shown |-> old.shown, mark |-> old.mark]
    <3> HIDE DEF more, n
    <3>1. row = [old EXCEPT !.pc = "look", !.cursor = n, !.got = @ \o more]
      OBVIOUS
    <3>2. old \in ClientRow /\ n \in Nat /\ more \in Seq(Nat)
      BY <1>1, <1>2
    <3> HIDE DEF row, old
    <3> QED
      BY <3>1, <3>2, PageRowIs
  <2> HIDE DEF row, more, n
  <2> QED
    BY <2>1 DEF FeedOf, Streaming
<1>9. FeedNow' = [FeedNow EXCEPT ![c] = FeedOf(row)] /\ FeedLog' = FeedLog
  BY <1>1, <1>7, FeedMoves, QuietFeedLog
<1> HIDE DEF row, n, more, mine, due
<1>10. n \in old.cursor .. Cursor
  BY <1>2, <1>3
<1>11. FeedNow' = [FeedNow EXCEPT ![c].to = n, ![c].got = @ \o more]
  <2> DEFINE handed == [phase |-> "open", run |-> old.run, from |-> old.start,
                        to |-> n, got |-> old.got \o more]
  <2>1. ASSUME NEW mid, mid = [FeedNow[c] EXCEPT !.to = n]
        PROVE  mid = [phase |-> "open", run |-> old.run, from |-> old.start,
                      to |-> n, got |-> old.got]
    BY <1>3, <2>1
  <2>2. ASSUME NEW mid, mid = [FeedNow[c] EXCEPT !.to = n],
               NEW new, new = [mid EXCEPT !.got = FeedNow[c].got \o more]
        PROVE  new = handed
    <3>1. mid = [phase |-> "open", run |-> old.run, from |-> old.start,
                 to |-> n, got |-> old.got] /\ FeedNow[c].got = old.got
      BY <1>3, <2>1, <2>2
    <3>2. new = [mid EXCEPT !.got = old.got \o more]
      BY <2>2, <3>1
    <3> QED
      BY <3>1, <3>2
  <2>3. [FeedNow EXCEPT ![c].to = n, ![c].got = @ \o more] =
        [FeedNow EXCEPT ![c] = [[FeedNow[c] EXCEPT !.to = n] EXCEPT
                                    !.got = FeedNow[c].got \o more]]
    OBVIOUS
  <2>4. FeedNow' = [FeedNow EXCEPT ![c] = handed]
    BY <1>8, <1>9
  <2> HIDE DEF handed
  <2> QED
    BY <2>2, <2>3, <2>4
<1>12. FeedNow[c].phase = "open" /\ FeedNow[c].to = old.cursor /\ FeedNow[c].run = old.run
  BY <1>3
<1>13. /\ FeedNow[c].phase = "open"
       /\ \E m \in FeedNow[c].to .. Len(FeedLog) :
             FeedNow' = [FeedNow EXCEPT ![c].to = m,
                ![c].got = @ \o Feed!Ascending(Feed!Due(FeedNow[c].run, FeedNow[c].to, m))]
       /\ FeedLog' = FeedLog
  BY <1>3, <1>6, <1>9, <1>10, <1>11, <1>12 DEF due
<1> QED
  BY <1>13 DEF Feed!Hands, FeedNow, FeedLog

\* A stream that ends has handed everything, and the messages it follows are over.
LEMMA ClosesFeed ==
    ASSUME SessionInv, Quiet, NEW c \in Clients, clients[c].pc \in Streaming,
           Step(c, "closed"), clients[c].cursor = Cursor,
           \A r \in RunsOf(Session) : clients[c].run \notin {None, r} \/ Terminal(r)
    PROVE  Feed!Closes(c)
<1> DEFINE row == [clients[c] EXCEPT !.pc = "closed"]
<1>1. /\ FeedNow[c] = [phase |-> "open", run |-> clients[c].run, from |-> clients[c].start,
                       to |-> clients[c].cursor, got |-> clients[c].got]
      /\ Cursor \in Nat /\ DOMAIN Log = 1 .. Cursor
      /\ Len(FeedLog) = Cursor /\ DOMAIN FeedLog = 1 .. Cursor
  BY StreamFeed
<1>2. clients[c] \in ClientRow /\ "closed" \in ClientPCs
  BY ClientIs DEF ClientPCs
<1>3. FeedOf(row) = [phase |-> "closed", run |-> clients[c].run, from |-> clients[c].start,
                     to |-> clients[c].cursor, got |-> clients[c].got]
  <2>1. row = [pc |-> "closed", run |-> clients[c].run, pending |-> clients[c].pending,
               version |-> clients[c].version, start |-> clients[c].start,
               cursor |-> clients[c].cursor, got |-> clients[c].got,
               shown |-> clients[c].shown, mark |-> clients[c].mark]
    BY <1>2, StepIs
  <2> HIDE DEF row
  <2> QED
    BY <2>1 DEF FeedOf
<1>4. FeedNow' = [FeedNow EXCEPT ![c] = FeedOf(row)] /\ FeedLog' = FeedLog
  BY FeedMoves, QuietFeedLog DEF Step
<1> HIDE DEF row
<1>5. FeedNow' = [FeedNow EXCEPT ![c].phase = "closed"]
  <2>1. ASSUME NEW new, new = [FeedNow[c] EXCEPT !.phase = "closed"]
        PROVE  new = FeedOf(row)
    BY <1>1, <1>3, <2>1
  <2>2. [FeedNow EXCEPT ![c].phase = "closed"] =
        [FeedNow EXCEPT ![c] = [FeedNow[c] EXCEPT !.phase = "closed"]]
    OBVIOUS
  <2> QED
    BY <1>4, <2>1, <2>2
<1>6. ASSUME NEW r \in Runs, clients[c].run \in {None, r},
             NEW i \in DOMAIN FeedLog, FeedLog[i] = [run |-> r, says |-> "accepted"]
      PROVE  \E j \in DOMAIN FeedLog : FeedLog[j] = [run |-> r, says |-> "finished"]
  <2>1. Log[i].run = r
    BY <1>1, <1>6 DEF FeedLog
  <2>2. r \in RunsOf(Session) /\ Known(r)
    BY <1>1, <1>6, <2>1, LogIsOfSession
  <2>3. Terminal(r)
    BY <1>6, <2>2
  <2>4. PICK j \in FinishOf(r) : j \in 1 .. Cursor
    BY <2>2, <2>3, MessageIsLogged
  <2>5. FeedLog[j] = [run |-> Log[j].run, says |-> Saying(Log[j].type)]
    BY <1>1, <2>4 DEF FeedLog
  <2>6. Log[j].run = r /\ Saying(Log[j].type) = "finished"
    BY <2>4 DEF FinishOf, Saying
  <2> QED
    BY <1>1, <2>4, <2>5, <2>6
<1>7. FeedNow[c].phase = "open" /\ FeedNow[c].to = Len(FeedLog) /\ FeedNow[c].run = clients[c].run
  BY <1>1
<1>8. \A r \in Runs : (\E i \in DOMAIN FeedLog : FeedLog[i] = [run |-> r, says |-> "accepted"])
                      /\ FeedNow[c].run \in {None, r} =>
                        \E j \in DOMAIN FeedLog : FeedLog[j] = [run |-> r, says |-> "finished"]
  BY <1>6, <1>7
<1> QED
  BY <1>4, <1>5, <1>7, <1>8
  DEF Feed!Closes, Feed!Begun, Feed!Finished, FeedNow, FeedLog

\* One event more, and no stream moves.
LEMMA AppendsFeed ==
    ASSUME SessionInv, NEW r \in Runs, NEW n, NEW type, LogEvent(r, n, Session, type),
           FeedNow' = FeedNow
    PROVE  Feed!Append1
<1>1. /\ FeedLog' = Append(FeedLog, [run |-> r, says |-> Saying(type)])
      /\ [run |-> r, says |-> Saying(type)] \in Feed!Event
  BY FeedLogAppends
<1>2. \E e \in Feed!Event : FeedLog' = Append(FeedLog, e)
  BY <1>1
<1> QED
  BY <1>2 DEF Feed!Append1, FeedLog, FeedNow

\* A request that begins a stream where the log is, ...
LEMMA QuietOpens ==
    ASSUME SessionInv, NEW c \in Clients, NEW run \in Runs \cup {None}, NEW n \in 0 .. Cursor,
           NEW row \in ClientRow, row.got = <<>>,
           clients[c].pc \notin Streaming \cup {"closed"}, Moves(c, From(row, run, n)),
           FeedLog' = FeedLog
    PROVE  Feed!Opens(c)
<1>1. /\ FeedNow[c].phase = "none"
      /\ FeedNow' = [FeedNow EXCEPT ![c] = [phase |-> "open", run |-> run,
                                            from |-> n, to |-> n, got |-> <<>>]]
      /\ n \in 0 .. Len(FeedLog)
  BY OpensFeed
<1>2. \E x \in Runs \cup {None}, m \in 0 .. Len(FeedLog) :
         FeedNow' = [FeedNow EXCEPT ![c] = [phase |-> "open", run |-> x,
                                            from |-> m, to |-> m, got |-> <<>>]]
  BY <1>1
<1> QED
  BY <1>1, <1>2 DEF Feed!Opens, FeedLog, FeedNow

\* ... and one that moves its message on, from before that event.
LEMMA LogsAndOpens ==
    ASSUME SessionInv, NEW c \in Clients, NEW run \in Runs, NEW n \in 0 .. Cursor,
           NEW row \in ClientRow, row.got = <<>>,
           clients[c].pc \notin Streaming \cup {"closed"}, Moves(c, From(row, run, n)),
           NEW seq, NEW type, LogEvent(run, seq, Session, type)
    PROVE  Feed!OpensWith(c)
<1> DEFINE e == [run |-> run, says |-> Saying(type)]
<1>1. FeedLog' = Append(FeedLog, e) /\ e \in Feed!Event /\ e.run = run
  BY FeedLogAppends
<1>2. /\ FeedNow[c].phase = "none"
      /\ FeedNow' = [FeedNow EXCEPT ![c] = [phase |-> "open", run |-> run,
                                            from |-> n, to |-> n, got |-> <<>>]]
      /\ n \in 0 .. Len(FeedLog)
  BY OpensFeed
<1> HIDE DEF e
<1>3. \E x \in Feed!Event, m \in 0 .. Len(FeedLog) :
         /\ FeedLog' = Append(FeedLog, x)
         /\ FeedNow' = [FeedNow EXCEPT ![c] = [phase |-> "open", run |-> x.run,
                                               from |-> m, to |-> m, got |-> <<>>]]
  BY <1>1, <1>2
<1> QED
  BY <1>2, <1>3 DEF Feed!OpensWith, FeedLog, FeedNow

\* Connections that break.
LEMMA BreaksFeed ==
    ASSUME SessionInv, NEW cs \in SUBSET Clients, FeedLog' = FeedLog,
           \A c \in Clients : FeedOf(clients'[c]) =
               IF c \in cs THEN [phase |-> "none", run |-> None, from |-> 0, to |-> 0,
                                 got |-> <<>>]
               ELSE FeedOf(clients[c])
    PROVE  Feed!Breaks
<1>1. FeedNow' = [c \in Clients |-> IF c \in cs THEN Feed!NoFeed ELSE FeedNow[c]]
  BY DEF FeedNow, Feed!NoFeed
<1> QED
  BY <1>1 DEF Feed!Breaks, FeedNow, FeedLog

FeedStep == [Feed!FeedNext]_(Feed!feedVars)

\* A step that neither appends nor hands out is none of the feed.
LEMMA SilentFeeds == ASSUME Silent PROVE FeedStep
BY DEF Silent, FeedStep, Feed!feedVars, FeedLog, FeedNow

\* _stream_session_events, and the page that reconnects.
LEMMA SubscribesFeeds ==
    ASSUME SessionInv, NEW c \in Clients, Subscribes(c) \/ Reconnects(c)
    PROVE  FeedStep
<1>1. /\ clients[c] \in ClientRow /\ clients[c].got = <<>>
      /\ clients[c].pc \notin Streaming \cup {"closed"}
      /\ Quiet /\ None \in Runs \cup {None}
  BY ClientIs DEF ClientOK, NothingYet, Attached, Subscribes, Reconnects, Streaming
<1>2. PICK n \in 0 .. Cursor : Moves(c, From(clients[c], None, n))
  <2>1. Cursor \in Nat
    BY <1>1, QuietMoves DEF SessionMoves, LogExtends
  <2>2. 0 \in 0 .. Cursor /\ Cursor \in 0 .. Cursor
    BY <2>1
  <2> QED
    BY <2>2 DEF Subscribes, Reconnects, EventCursor
<1>3. FeedLog' = FeedLog
  BY <1>1, QuietFeedLog
<1>4. Feed!Opens(c)
  BY <1>1, <1>2, <1>3, QuietOpens
<1> QED
  BY <1>4 DEF FeedStep, Feed!FeedNext

\* _send_message follows the message it has submitted.
LEMMA SendSubmitsFeeds ==
    ASSUME SessionInv, NEW c \in Clients, NEW r \in Runs, NEW k \in Keys, SendSubmits(c, r, k)
    PROVE  FeedStep
<1>1. /\ clients[c] \in ClientRow /\ clients[c].got = <<>>
      /\ clients[c].pc \notin Streaming \cup {"closed"}
      /\ clients[c].start \in Nat /\ clients[c].start <= Cursor
  BY ClientIs DEF SendSubmits, Streaming
<1>2. LogEvent(r, 1, Session, "run.accepted")
  BY DEF SendSubmits, AcceptOnce
<1>3. clients[c].start \in 0 .. Cursor
  <2>1. Cursor \in Nat
    BY SessionAssumption DEF SessionInv, ReplyInv, StoreInv, TypeOK, Log, Cursor
  <2> QED
    BY <1>1, <2>1
<1>4. Feed!OpensWith(c)
  BY <1>1, <1>2, <1>3, LogsAndOpens DEF SendSubmits
<1> QED
  BY <1>4 DEF FeedStep, Feed!FeedNext

\* _reply follows the message it has answered, or whose answer it has repeated.
LEMMA RespondsFeeds ==
    ASSUME SessionInv, NEW c \in Clients, NEW text \in Texts, Responds(c, text)
    PROVE  FeedStep
<1> DEFINE row   == clients[c]
           asked == [row EXCEPT !.pending = None]
<1>1. /\ row \in ClientRow /\ row.got = <<>> /\ row.pc = "respond"
      /\ row.pc \notin Streaming \cup {"closed"}
      /\ row.start \in Nat /\ row.start <= Cursor
      /\ row.run \in Runs \cup {None} /\ row.pending \in Pendings
      /\ row.run # None /\ Known(row.run) /\ row.run = pendings[row.pending].run
  BY ClientIs DEF Responds, Streaming, ClientOK, Answering
<1>2. ASSUME NEW new, new = asked
      PROVE  new \in ClientRow /\ new.got = <<>>
  BY <1>1, <1>2 DEF ClientRow
<1>3. asked \in ClientRow /\ asked.got = <<>>
  BY <1>2
<1>4. row.run \in Runs /\ row.start \in 0 .. Cursor
  <2>1. Cursor \in Nat
    BY SessionAssumption DEF SessionInv, ReplyInv, StoreInv, TypeOK, Log, Cursor
  <2> QED
    BY <1>1, <2>1
<1> HIDE DEF asked
<1>5. CASE Accepted(row.pending, row.version, text) /\ Moves(c, From(asked, row.run, row.start))
  <2>1. PICK n, type : LogEvent(row.run, n, Session, type)
    BY <1>1, <1>5 DEF Accepted, Transition, Known
  <2>2. Feed!OpensWith(c)
    BY <1>1, <1>3, <1>4, <1>5, <2>1, LogsAndOpens
  <2> QED
    BY <2>2 DEF FeedStep, Feed!FeedNext
<1>6. CASE Repeated(row.pending, text) /\ Moves(c, From(asked, row.run, row.start))
  <2>1. FeedLog' = FeedLog
    BY <1>6, QuietFeedLog DEF Repeated, Quiet
  <2>2. Feed!Opens(c)
    BY <1>1, <1>3, <1>4, <1>6, <2>1, QuietOpens
  <2> QED
    BY <2>2 DEF FeedStep, Feed!FeedNext
<1>7. CASE /\ \/ Refused(row.pending, row.version, text) \/ Fails(row.pending, text)
              \/ Contradicts(row.pending, text)
           /\ Moves(c, Gone("idle"))
  <2>1. vars' = vars
    BY <1>7 DEF Refused, Fails, Contradicts
  <2>2. FeedLog' = FeedLog
    BY <2>1 DEF vars, FeedLog, Log
  <2>3. Gone("idle").pc = "idle"
    BY DEF Gone
  <2>4. FeedNow' = FeedNow
    BY <1>1, <1>7, <2>3, NoStreamNoFeed DEF Streaming
  <2> QED
    BY <2>2, <2>4, SilentFeeds DEF Silent
<1> QED
  BY <1>5, <1>6, <1>7 DEF Responds, asked

\* What clients do before their stream is nothing to the feed.
LEMMA PreparesFeeds ==
    ASSUME SessionInv, NEW c \in Clients,
           \/ SendReads(c) \/ SendBusy(c) \/ ReplyReadsCursor(c) \/ ReadCurrent(c)
           \/ \E p \in Pendings : ReplyReads(c, p)
    PROVE  FeedStep
<1>1. /\ Quiet /\ clients[c] \in ClientRow
      /\ clients[c].pc \notin Streaming \cup {"closed"}
  BY ClientIs
  DEF SendReads, SendBusy, ReplyReadsCursor, ReadCurrent, ReplyReads, Streaming
<1>2. \E row : Moves(c, row) /\ row.pc \in {"send", "idle", "respond", "snapshot", "version"}
  <2>1. ASSUME NEW n, NEW new, new = [Gone("send") EXCEPT !.start = n]
        PROVE  new.pc = "send"
    BY <2>1 DEF Gone
  <2>2. Gone("idle").pc = "idle"
    BY DEF Gone
  <2>3. ASSUME NEW n, NEW new, new = [clients[c] EXCEPT !.pc = "respond", !.start = n]
        PROVE  new.pc = "respond"
    BY <1>1, <2>3 DEF ClientRow
  <2>4. ASSUME NEW r, NEW n, NEW new, new = [Gone("snapshot") EXCEPT !.shown = r, !.mark = n]
        PROVE  new.pc = "snapshot"
    BY <2>4 DEF Gone
  <2>6. CASE SendReads(c)
    BY <2>1, <2>6 DEF SendReads
  <2>7. CASE SendBusy(c)
    BY <2>2, <2>7 DEF SendBusy
  <2>8. CASE ReplyReadsCursor(c)
    BY <2>3, <2>8 DEF ReplyReadsCursor
  <2>9. CASE ReadCurrent(c)
    BY <2>4, <2>9 DEF ReadCurrent
  <2>10. ASSUME NEW p \in Pendings, ReplyReads(c, p)
         PROVE  \E row : /\ Moves(c, row)
                         /\ row.pc \in {"send", "idle", "respond", "snapshot", "version"}
    <3> DEFINE r   == pendings[p].run
               new == [Gone("version") EXCEPT !.run = r, !.pending = p,
                                              !.version = runs[r].version]
    <3>1. Moves(c, new)
      BY <2>10 DEF ReplyReads
    <3>2. new.pc = "version"
      <4> HIDE DEF r
      <4>1. ASSUME NEW row, row = new
            PROVE  row.pc = "version"
        BY <4>1 DEF Gone
      <4> QED
        BY <4>1
    <3> HIDE DEF new
    <3> QED
      BY <3>1, <3>2
  <2> QED
    BY <2>6, <2>7, <2>8, <2>9, <2>10
<1>3. PICK row : /\ Moves(c, row)
                 /\ row.pc \in {"send", "idle", "respond", "snapshot", "version"}
  BY <1>2
<1>4. row.pc \notin Streaming \cup {"closed"}
  BY <1>3 DEF Streaming
<1>5. FeedNow' = FeedNow /\ FeedLog' = FeedLog
  BY <1>1, <1>3, <1>4, NoStreamNoFeed, QuietFeedLog
<1> QED
  BY <1>5, SilentFeeds DEF Silent

\* A stream that goes on.
LEMMA GoesOnFeeds ==
    ASSUME SessionInv, Quiet, NEW c \in Clients, NEW pc \in Streaming,
           clients[c].pc \in Streaming, Step(c, pc)
    PROVE  FeedStep
<1> DEFINE row == [clients[c] EXCEPT !.pc = pc]
<1>1. clients[c] \in ClientRow /\ pc \in ClientPCs /\ pc # "closed" /\ clients[c].pc # "closed"
  BY ClientIs DEF ClientPCs, Streaming
<1>2. FeedOf(row) = FeedOf(clients[c])
  <2>1. row = [pc |-> pc, run |-> clients[c].run, pending |-> clients[c].pending,
               version |-> clients[c].version, start |-> clients[c].start,
               cursor |-> clients[c].cursor, got |-> clients[c].got,
               shown |-> clients[c].shown, mark |-> clients[c].mark]
    BY <1>1, StepIs
  <2>2. /\ row.pc = pc /\ row.run = clients[c].run /\ row.start = clients[c].start
        /\ row.cursor = clients[c].cursor /\ row.got = clients[c].got
    <3> HIDE DEF row
    <3> QED
      BY <2>1
  <2> HIDE DEF row
  <2> QED
    BY <1>1, <2>2 DEF FeedOf
<1>3. Moves(c, row)
  BY DEF Step
<1>4. FeedNow' = FeedNow /\ FeedLog' = FeedLog
  BY <1>2, <1>3, FeedMoves, QuietFeedLog
<1> QED
  BY <1>4, SilentFeeds DEF Silent

\* A stream over a session without messages has nothing to hand.
LEMMA LooksEmptyFeeds ==
    ASSUME SessionInv, NEW c \in Clients, LooksEmpty(c)
    PROVE  FeedStep
<1>1. Quiet /\ clients[c].pc \in Streaming /\ Step(c, "closed") /\ RunsOf(Session) = {}
  BY DEF LooksEmpty, Streaming
<1>2. /\ clients[c].cursor \in Nat /\ clients[c].cursor <= Cursor
      /\ Cursor \in Nat /\ DOMAIN Log = 1 .. Cursor
  BY <1>1, StreamFeed
<1>3. Cursor = 0
  <2>1. 1 \notin DOMAIN Log
    BY <1>1, LogIsOfSession
  <2>2. Cursor # 0 => 1 \in 1 .. Cursor
    BY <1>2
  <2> QED
    BY <1>2, <2>1, <2>2
<1>4. clients[c].cursor = Cursor
  BY <1>2, <1>3
<1>5. Feed!Closes(c)
  BY <1>1, <1>4, ClosesFeed
<1> QED
  BY <1>5 DEF FeedStep, Feed!FeedNext

\* A stream that has caught up ends: whatever it follows was over when it looked.
LEMMA ComparesFeeds ==
    ASSUME SessionInv, NEW c \in Clients, Compares(c)
    PROVE  FeedStep
<1>1. /\ Quiet /\ clients[c].pc = "tail" /\ clients[c].pc \in Streaming
      /\ Step(c, IF CaughtUp(clients[c]) THEN "closed" ELSE "page")
  BY DEF Compares, Streaming
<1>2. CASE ~CaughtUp(clients[c])
  BY <1>1, <1>2, GoesOnFeeds DEF Streaming
<1>3. CASE CaughtUp(clients[c])
  <2>1. /\ clients[c].cursor \in Nat /\ clients[c].cursor <= Cursor /\ Cursor \in Nat
    BY <1>1, StreamFeed
  <2>2. clients[c].cursor = Cursor
    BY <1>3, <2>1 DEF CaughtUp
  <2>3. ASSUME NEW r \in RunsOf(Session)
        PROVE  clients[c].run \notin {None, r} \/ Terminal(r)
    <3>1. r \in Runs /\ Known(r) /\ AtTail(c)
      BY ClientIs DEF RunsOf, Known, ClientOK
    <3>2. PICK i \in EventsOf(r) : i \in 1 .. Cursor
      BY <3>1, MessageIsLogged
    <3>3. ~(i > clients[c].cursor)
      BY <2>1, <2>2, <3>2
    <3> QED
      BY <1>1, <3>1, <3>2, <3>3 DEF AtTail
  <2>4. Step(c, "closed")
    BY <1>1, <1>3
  <2>5. Feed!Closes(c)
    BY <1>1, <2>2, <2>3, <2>4, ClosesFeed
  <2> QED
    BY <2>5 DEF FeedStep, Feed!FeedNext
<1> QED
  BY <1>2, <1>3

\* A connection that breaks, and the death of the process, which breaks all of them.
LEMMA BreaksFeeds ==
    ASSUME SessionInv, ServerDies \/ \E c \in Clients : Disconnect(c)
    PROVE  FeedStep
<1>1. clients \in [Clients -> ClientRow]
  BY DEF SessionInv
<1>2. FeedOf(Gone("lost")) = [phase |-> "none", run |-> None, from |-> 0, to |-> 0, got |-> <<>>]
  <2>1. Gone("lost").pc = "lost"
    BY DEF Gone
  <2> QED
    BY <2>1 DEF FeedOf, Streaming
<1>3. CASE ServerDies
  <2> DEFINE cs == {c \in Clients : clients[c].pc \notin {"idle", "closed", "lost"}}
  <2>1. FeedLog' = FeedLog
    BY <1>3 DEF ServerDies, tables, FeedLog, Log
  <2>2. ASSUME NEW c \in Clients
        PROVE  FeedOf(clients'[c]) = IF c \in cs THEN FeedOf(Gone("lost"))
                                     ELSE FeedOf(clients[c])
    BY <1>3 DEF ServerDies, Broken
  <2>3. cs \in SUBSET Clients
    OBVIOUS
  <2> HIDE DEF cs
  <2>4. Feed!Breaks
    BY <1>2, <2>1, <2>2, <2>3, BreaksFeed
  <2> QED
    BY <2>4 DEF FeedStep, Feed!FeedNext
<1>4. ASSUME NEW c \in Clients, Disconnect(c)
      PROVE  FeedStep
  <2>1. FeedLog' = FeedLog
    BY <1>4, QuietFeedLog DEF Disconnect
  <2>2. \A x \in Clients : FeedOf(clients'[x]) = IF x \in {c} THEN FeedOf(Gone("lost"))
                                                 ELSE FeedOf(clients[x])
    BY <1>1, <1>4 DEF Disconnect, Moves
  <2>3. Feed!Breaks
    BY <1>2, <2>1, <2>2, BreaksFeed
  <2> QED
    BY <2>3 DEF FeedStep, Feed!FeedNext
<1> QED
  BY <1>3, <1>4

\* Other requests and the workers write at most one event at a time.
LEMMA OthersFeed ==
    ASSUME SessionInv, [SessionNext]_sessionVars, UNCHANGED clients
    PROVE  FeedStep
<1>1. [AnyCall]_vars /\ StoreInv
  BY StepMoves DEF SessionInv, ReplyInv
<1>2. FeedNow' = FeedNow
  BY DEF FeedNow
<1>3. CASE Log' = Log
  BY <1>2, <1>3, SilentFeeds DEF Silent, FeedLog
<1>4. ASSUME NEW r \in Runs, NEW type \in EventTypes, RunLogs(r, Session, type)
      PROVE  FeedStep
  <2>1. PICK n : LogEvent(r, n, Session, type)
    BY <1>4 DEF RunLogs
  <2>2. Feed!Append1
    BY <1>2, <2>1, AppendsFeed
  <2> QED
    BY <2>2 DEF FeedStep, Feed!FeedNext
<1> QED
  BY <1>1, <1>3, <1>4, LogOnlyGrows

\* Every step of server, clients and store is a step of the feed or none.
LEMMA NextFeeds ==
    ASSUME SessionInv, [SessionNext]_sessionVars
    PROVE  FeedStep
<1>1. CASE StoreStep \/ Asks \/ UNCHANGED sessionVars
  BY <1>1, OthersFeed DEF StoreStep, Asks, sessionVars
<1>2. CASE ServerDies
  BY <1>2, BreaksFeeds
<1>3. ASSUME NEW c \in Clients, ReadPage(c)
      PROVE  FeedStep
  BY <1>3, ReadPageHands DEF FeedStep, Feed!FeedNext
<1>4. ASSUME NEW c \in Clients, LooksOver(c)
      PROVE  FeedStep
  <2>1. PICK pc \in {"tail", "page"} : Step(c, pc)
    BY <1>4 DEF LooksOver
  <2> QED
    BY <1>4, <2>1, GoesOnFeeds DEF LooksOver, Streaming
<1>5. CASE ClientStep
  BY <1>5, <1>3, <1>4, SubscribesFeeds, SendSubmitsFeeds, RespondsFeeds, PreparesFeeds,
     LooksEmptyFeeds, ComparesFeeds, BreaksFeeds
  DEF ClientStep
<1> QED
  BY <1>1, <1>2, <1>5 DEF SessionNext

\* _stream and list_session_events implement the feed: nothing skipped, repeated or
\* reordered across pages, and no stream ends before its reader has everything.
THEOREM FeedTheorem == SessionSpec => ImplementsFeed
<1>1. SessionInit => Feed!FeedInit
  BY InitFeeds
<1>2. SessionInv /\ [SessionNext]_sessionVars => [Feed!FeedNext]_(Feed!feedVars)
  BY NextFeeds DEF FeedStep
<1> QED
  BY <1>1, <1>2, SessionInvTheorem, PTL DEF SessionSpec, ImplementsFeed, Feed!FeedSpec

-----------------------------------------------------------------------------
\* Answers put runs back into the queue that still hold what they held, and still the
\* tables keep every promise of the store (respond_to_run is a transition_run).
THEOREM SessionTablesTheorem == SessionSpec => []TablesSafe
<1>1. SessionInit => TablesInv
  BY InitTables DEF SessionInit, ReplyInit
<1>2. SessionInv /\ TablesInv /\ [SessionNext]_sessionVars => TablesInv'
  BY StepMoves, AnyCallKeepsTables
<1> QED
  BY <1>1, <1>2, SessionInvTheorem, TablesAreSafe, PTL DEF SessionSpec

\* Also with answers the store is an exclusive, fenced lease: a run that goes back into
\* the queue keeps its grant, and is never granted its workspace a second time.
THEOREM SessionLeaseTheorem == SessionSpec => ImplementsLease
<1>1. SessionInit => Lease!Init
  BY InitRefines DEF SessionInit, ReplyInit
<1>2. SessionInv /\ [SessionNext]_sessionVars => [Lease!Next]_(Lease!leaseVars)
  <2> SUFFICES ASSUME SessionInv, [SessionNext]_sessionVars
               PROVE  [Lease!Next]_(Lease!leaseVars)
    OBVIOUS
  <2>1. TypeOK /\ ForeignKeys /\ Ownership /\ [AnyCall]_vars
    BY StepMoves DEF SessionInv, ReplyInv, StoreInv, Ownership
  <2> QED
    BY <2>1, NextRefines
<1> QED
  BY <1>1, <1>2, SessionInvTheorem, PTL DEF SessionSpec, ImplementsLease, Lease!Spec
=============================================================================
