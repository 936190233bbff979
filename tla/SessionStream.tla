--------------------------- MODULE SessionStream ---------------------------
(***************************************************************************)
(* The HTTP clients of one session: a request that sends or answers a      *)
(* message and then streams that message's events, and a reconnect that    *)
(* takes a snapshot of the session and streams everything after it.        *)
(*                                                                         *)
(* A request thread makes one store call at a time and holds no lock       *)
(* between two of them, so each call is an action; workers and other       *)
(* clients move the tables in between.  Writing a page to the connection   *)
(* is part of reading it: a connection that breaks meanwhile is Disconnect.*)
(* Other requests are the actions of RunStore, at any time.                *)
(***************************************************************************)
EXTENDS PendingReply

CONSTANTS Clients,
          Session,     \* the session they look at
          PageSize     \* limit of list_session_events (200 in _stream)

ASSUME SessionAssumption  == Session \in Sessions
ASSUME PageSizeAssumption == PageSize \in Nat \ {0}

VARIABLE clients

sessionVars == <<vars, replyVars, clients>>

\* What a client's request is about to do:
\*   idle       nothing, no request has been made
\*   send       _send_message has read the cursor, about to submit
\*   version    _reply has read the message, about to read the cursor
\*   respond    _reply has read the cursor, about to respond
\*   page       about to read the next page of events
\*   look       the page is delivered, about to read the message
\*   tail       the message was over, about to read the session's cursor
\*   closed     the stream has ended by itself
\*   lost       the connection broke while a message was being followed
\*   snapshot   _get_session_state has read the current message, not yet the cursor
Streaming == {"page", "look", "tail"}
ClientPCs == Streaming \cup {"idle", "send", "version", "respond", "closed", "lost", "snapshot"}

\* run: the message followed, None for the whole session; start, cursor: where the stream
\* began and has got to; got: the numbers of the events delivered; shown, mark: the
\* unfinished message of the snapshot and how long the log was when it was read.
ClientRow == [pc : ClientPCs, run : Runs \cup {None}, pending : Pendings \cup {None},
              version : Nat, start : Nat, cursor : Nat, got : Seq(Nat),
              shown : Runs \cup {None}, mark : Nat]
Gone(pc)  == [pc |-> pc, run |-> None, pending |-> None, version |-> 0, start |-> 0,
              cursor |-> 0, got |-> <<>>, shown |-> None, mark |-> 0]

Log    == events[Session]
Cursor == Len(Log)                            \* session_event_cursor: MAX(session_seq)

SessionInit == ReplyInit /\ clients = [c \in Clients |-> Gone("idle")]

Moves(c, row) == clients' = [clients EXCEPT ![c] = row]
Step(c, pc)   == Moves(c, [clients[c] EXCEPT !.pc = pc])
Quiet         == UNCHANGED <<vars, replyVars>>

\* A stream over `run' that starts behind event n.
From(row, run, n) ==
    [row EXCEPT !.pc = "page", !.run = run, !.version = 0, !.start = n, !.cursor = n]

-----------------------------------------------------------------------------
\* _stream_session_events: the whole session from its first event.
Subscribes(c) ==
    /\ clients[c].pc = "idle"
    /\ Moves(c, From(clients[c], None, 0))
    /\ Quiet

\* _send_message: the cursor first, then the submission, then the stream.
SendReads(c) ==
    /\ clients[c].pc = "idle"
    /\ Moves(c, [Gone("send") EXCEPT !.start = Cursor])
    /\ Quiet
SendSubmits(c, r, k) ==
    /\ clients[c].pc = "send"
    /\ AcceptOnce(r, Session, k, TRUE)
    /\ Moves(c, From(clients[c], r, clients[c].start))
    /\ UNCHANGED replyVars
SendBusy(c) ==
    /\ clients[c].pc = "send"
    /\ Busy(Session)
    /\ Moves(c, Gone("idle"))
    /\ Quiet

\* _reply: the message's version, then the cursor, then the answer, then the stream.
ReplyReads(c, p) ==
    /\ clients[c].pc = "idle"
    /\ Asked(p) /\ SessionOf(pendings[p].run) = Session
    /\ LET r == pendings[p].run
       IN  Moves(c, [Gone("version") EXCEPT !.run = r, !.pending = p,
                                            !.version = runs[r].version])
    /\ Quiet
ReplyReadsCursor(c) ==
    /\ clients[c].pc = "version"
    /\ Moves(c, [clients[c] EXCEPT !.pc = "respond", !.start = Cursor])
    /\ Quiet
Responds(c, text) ==
    LET row    == clients[c]
        stream == From([row EXCEPT !.pending = None], row.run, row.start)
    IN  /\ row.pc = "respond"
        /\ \/ Accepted(row.pending, row.version, text) /\ Moves(c, stream)
           \/ Repeated(row.pending, text) /\ Moves(c, stream)
           \/ Refused(row.pending, row.version, text) /\ Moves(c, Gone("idle"))
           \/ Fails(row.pending, text) /\ Moves(c, Gone("idle"))
           \/ Contradicts(row.pending, text) /\ Moves(c, Gone("idle"))

-----------------------------------------------------------------------------
\* _stream.  list_session_events: the events numbered above the cursor, in order and at
\* most PageSize of them, and the number of the last one.  Events are positions in Log.
Later(cursor) == {i \in DOMAIN Log : Log[i].sessionSeq > cursor}
Before(set, i) == {j \in set : Log[j].sessionSeq <= Log[i].sessionSeq}
Page(cursor) == {i \in Later(cursor) : Cardinality(Before(Later(cursor), i)) <= PageSize}
Numbers(page) == {Log[i].sessionSeq : i \in page}
SkipsToEnd(page, cursor) == Cursor            \* fault: the cursor of the session
NextAfter(page, cursor) ==
    IF page = {} THEN cursor
    ELSE CHOOSE n \in Numbers(page) : \A m \in Numbers(page) : m <= n
OfMessage(page, run) == {i \in page : run \in {None, Log[i].run}}

\* What the connection carries: the numbers of a page, the least first.
Nth(numbers, k)    == CHOOSE i \in numbers : Cardinality(UpTo(numbers, i)) = k
Ascending(numbers) == [k \in 1 .. Cardinality(numbers) |-> Nth(numbers, k)]

ReadPage(c) ==
    LET row  == clients[c]
        page == Page(row.cursor)
    IN  /\ row.pc = "page"
        /\ Moves(c, [row EXCEPT !.pc = "look", !.cursor = NextAfter(page, row.cursor),
                                !.got = @ \o Ascending(Numbers(OfMessage(page, row.run)))])
        /\ Quiet

\* The message of the stream, or the session's latest, is over, ...
Latest  == CHOOSE r \in RunsOf(Session) : \A p \in RunsOf(Session) : runs[p].seq <= runs[r].seq
Subject(row) == IF row.run # None THEN row.run ELSE Latest
LooksOver(c) ==
    LET row == clients[c]
    IN  /\ row.pc = "look"
        /\ row.run # None \/ RunsOf(Session) # {}
        /\ Step(c, IF Terminal(Subject(row)) THEN "tail" ELSE "page")
        /\ Quiet

\* ... a session without messages ends its stream at once, ...
LooksEmpty(c) ==
    /\ clients[c].pc = "look"
    /\ clients[c].run = None /\ RunsOf(Session) = {}
    /\ Step(c, "closed")
    /\ Quiet

\* ... any other stream ends when it has caught up with the log as it is now.
AnyPosition(row) == TRUE                      \* fault: ends as soon as the message is over
CaughtUp(row)    == row.cursor >= Cursor
Compares(c) ==
    /\ clients[c].pc = "tail"
    /\ Step(c, IF CaughtUp(clients[c]) THEN "closed" ELSE "page")
    /\ Quiet

-----------------------------------------------------------------------------
\* The connection breaks; the page takes a snapshot of the session, and reconnects if
\* that shows a message in progress.
Disconnect(c) ==
    /\ clients[c].pc \in Streaming
    /\ clients[c].run # None
    /\ Moves(c, Gone("lost"))
    /\ Quiet
ReadCurrent(c) ==
    /\ clients[c].pc = "lost"
    /\ RunsOf(Session) # {} /\ ~Terminal(Latest)
    /\ Moves(c, [Gone("snapshot") EXCEPT !.shown = Latest, !.mark = Cursor])
    /\ Quiet
EventCursor == Cursor
Reconnects(c) ==
    /\ clients[c].pc = "snapshot"
    /\ Moves(c, From(clients[c], None, EventCursor))
    /\ Quiet

ClientStep ==
    \E c \in Clients :
        \/ Subscribes(c) \/ SendReads(c) \/ SendBusy(c)
        \/ \E r \in Runs, k \in Keys : SendSubmits(c, r, k)
        \/ \E p \in Pendings : ReplyReads(c, p)
        \/ ReplyReadsCursor(c)
        \/ \E text \in Texts : Responds(c, text)
        \/ ReadPage(c) \/ LooksOver(c) \/ LooksEmpty(c) \/ Compares(c)
        \/ Disconnect(c) \/ ReadCurrent(c) \/ Reconnects(c)

\* Everybody else.  Leases and revisions touch no run and no event and are left out.
StoreAction ==
    \/ \E r \in Runs, k \in Keys : AcceptOnce(r, Session, k, TRUE)
    \/ \E r \in Runs, a \in Attempts : ClaimNextRun(r, a)
    \/ \E r \in Runs, t \in Targets, o \in Outcomes \cup {None} : TransitionRun(r, t, o)
    \/ \E q \in Requests, r \in Runs : CancelRead(q, r)
    \/ \E q \in Requests : CancelRequest(q) \/ CancelFinish(q) \/ CancelConflict(q)
    \/ \E r \in Runs : AppendEvent(r)
StoreStep == StoreAction /\ UNCHANGED <<replyVars, clients>>
Asks == \E p \in Pendings, r \in Runs : InsertPending(p, r) /\ UNCHANGED clients

\* The process dies: requests and connections are gone, rows and files are not.  A
\* transaction that had written its answer and not committed leaves the file.
Broken(row) == IF row.pc \in {"idle", "closed", "lost"} THEN row ELSE Gone("lost")
ServerDies ==
    /\ cancels' = [q \in Requests |-> Idle]
    /\ clients' = [c \in Clients |-> Broken(clients[c])]
    /\ UNCHANGED <<tables, pendings>>
    /\ \/ UNCHANGED <<answers, orphans>>
       \/ \E c \in Clients, text \in Texts :
            clients[c].pc = "respond" /\ LeavesFile(clients[c].pending, text)

SessionNext == ClientStep \/ StoreStep \/ Asks \/ ServerDies
SessionSpec == SessionInit /\ [][SessionNext]_sessionVars

-----------------------------------------------------------------------------
(***************************************************************************)
(* Properties.                                                             *)
(***************************************************************************)

\* Tables, questions and clients are well formed.
SessionTypeOK ==
    /\ TypeOK
    /\ pendings \in [Pendings -> PendingRow]
    /\ answers \in [Pendings -> Texts \cup {None}]
    /\ orphans \subseteq Pendings \X Texts
    /\ clients \in [Clients -> ClientRow]

\* A client that reconnected with a snapshot of an unfinished message, and whose stream
\* has ended, was told that the message finished, unless it finished between the two
\* reads of the snapshot (_get_session_state reads the message before the cursor): such
\* a client goes on showing a message in progress.
FinishOf(r) == {i \in DOMAIN Log : Log[i].run = r /\ Log[i].type = "run.finished"}
ResumedClientSeesFinish ==
    \A c \in Clients :
        LET row == clients[c]
        IN  row.pc = "closed" /\ row.shown # None =>
              \E i \in FinishOf(row.shown) :
                  \/ \E n \in DOMAIN row.got : row.got[n] = i
                  \/ row.mark < i /\ i <= row.start

\* The streams implement the feed: nothing skipped, repeated or reordered across pages,
\* and no stream ends before its reader has everything.
Saying(type) == CASE type = "run.accepted" -> "accepted"
                  [] type = "run.finished" -> "finished"
                  [] OTHER                 -> "other"
FeedOf(row) ==
    IF row.pc \notin Streaming \cup {"closed"}
    THEN [phase |-> "none", run |-> None, from |-> 0, to |-> 0, got |-> <<>>]
    ELSE [phase |-> IF row.pc = "closed" THEN "closed" ELSE "open", run |-> row.run,
          from |-> row.start, to |-> row.cursor, got |-> row.got]
Feed == INSTANCE EventFeed WITH
            Readers  <- Clients,
            Messages <- Runs,
            log      <- [i \in DOMAIN Log |-> [run |-> Log[i].run, says |-> Saying(Log[i].type)]],
            feed     <- [c \in Clients |-> FeedOf(clients[c])]
ImplementsFeed == Feed!FeedSpec
=============================================================================
