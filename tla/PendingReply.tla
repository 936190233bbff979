---------------------------- MODULE PendingReply ----------------------------
(***************************************************************************)
(* A message that waits for its user: the table pending_responses, the     *)
(* response files beside it, and respond_to_run, over the run tables.      *)
(*                                                                         *)
(* respond_to_run writes the response file, updates the row and puts the   *)
(* run back into the queue within one transaction.  The file is not part   *)
(* of it: when the transaction is refused, fails or dies with its process, *)
(* the rows roll back and the file stays.  Nothing under src/ inserts a    *)
(* pending row yet, so InsertPending stands for the callers of the store.  *)
(* The transport derives the response key from the pending id: two answers *)
(* to one question always carry the same key.                              *)
(***************************************************************************)
EXTENDS RunStore

CONSTANTS Pendings,   \* ids of pending_responses rows
          Texts       \* what a user may answer

ASSUME TextsAssumption == None \notin Texts

VARIABLES pendings,   \* table pending_responses
          answers,    \* the files pending/<id>-response.json
          orphans     \* history: answers that were written and not committed

replyVars == <<pendings, answers, orphans>>

PendingRow == [run : Runs \cup {None}, answer : Texts \cup {None}]
NoPending  == [run |-> None, answer |-> None]

Asked(p)    == pendings[p].run # None
Resolved(p) == pendings[p].answer # None

ReplyInit ==
    /\ Init
    /\ pendings = [p \in Pendings |-> NoPending]
    /\ answers  = [p \in Pendings |-> None]
    /\ orphans  = {}

\* A question about a run that executes; moving the run to WAITING_USER is a
\* transition_run of its own.
InsertPending(p, r) ==
    /\ ~Asked(p)
    /\ runs[r].attempt # None
    /\ pendings' = [pendings EXCEPT ![p].run = r]
    /\ UNCHANGED <<vars, answers, orphans>>

\* ContentStore.write_object is idempotent by path: a file that exists is kept.
LeftInMemory(p, text)  == answers             \* fault: the row refers to a file never written
WrittenAnswer(p, text) ==
    [answers EXCEPT ![p] = IF @ = None THEN text ELSE @]

\* respond_to_run with the version its caller read.  The first answer resolves the
\* question and resumes the run ...
AnsweredRow(row, text) == [row EXCEPT !.answer = text]
Open(p) == Asked(p) /\ ~Resolved(p)
Accepted(p, version, text) ==
    /\ Open(p)
    /\ Transition(pendings[p].run, version, "QUEUED", None)
    /\ pendings' = [pendings EXCEPT ![p] = AnsweredRow(@, text)]
    /\ answers'  = WrittenAnswer(p, text)
    /\ UNCHANGED <<cancels, orphans>>

\* A file is left by a transaction that does not commit.
LeavesFile(p, text) ==
    /\ Open(p)
    /\ answers' = WrittenAnswer(p, text)
    /\ orphans' = orphans \cup {<<p, text>>}

\* ... unless the run has moved on or cannot be resumed: then only the file remains ...
CommittedRow(row, text)  == AnsweredRow(row, text)   \* fault: the row is not rolled back
RolledBackRow(row, text) == row
Resumable(r, version) == VersionMatches(r, version) /\ "QUEUED" \in AllowedTransitions(runs[r].status)
Refused(p, version, text) ==
    /\ ~Resumable(pendings[p].run, version)
    /\ pendings' = [pendings EXCEPT ![p] = RolledBackRow(@, text)]
    /\ LeavesFile(p, text)
    /\ UNCHANGED vars

\* ... or a write behind the file's raises (the rows, the event's content, the COMMIT) ...
Fails(p, text) == LeavesFile(p, text) /\ UNCHANGED <<vars, pendings>>

\* ... and the same answer again succeeds without doing anything, another one fails.
Repeated(p, text)    == Resolved(p) /\ pendings[p].answer = text /\ UNCHANGED <<vars, replyVars>>
Contradicts(p, text) == Resolved(p) /\ pendings[p].answer # text /\ UNCHANGED <<vars, replyVars>>

-----------------------------------------------------------------------------
(***************************************************************************)
(* Properties.                                                             *)
(***************************************************************************)

\* The file of a resolved question holds the accepted answer, unless an earlier answer to
\* it was written and not committed: then it may hold that answer, and the accepted text
\* is lost (respond_to_run writes the file first, and write_object keeps a file it finds).
AnswerIsStored ==
    \A p \in Pendings :
        Resolved(p) => answers[p] = pendings[p].answer \/ <<p, answers[p]>> \in orphans

\* Answering and resuming are one transaction: a run has one run.resumed event for each
\* of its questions that is resolved, however often answers are repeated, refused or
\* overtaken by a cancellation.
ResolvedOf(r) == {p \in Pendings : pendings[p].run = r /\ Resolved(p)}
Resumed(r)    == {i \in RunLog(r) : events[SessionOf(r)][i].type = "run.resumed"}
AnswersResume ==
    \A r \in Runs : Exists(r) => Cardinality(ResolvedOf(r)) <= Cardinality(Resumed(r))

\* An answered message still holds what it held when it asked: the session and the
\* workspace stay with its old attempt, so nothing else runs there until somebody ends
\* it (and claim_next_run, which wants both free, does not take it up again).
AnsweredKeepsHold ==
    \A r \in Runs :
        ResolvedOf(r) # {} /\ ~Terminal(r) =>
            /\ sessions[SessionOf(r)].activeRun = r
            /\ runs[r].attempt # None
            /\ workspaces[HomeOf(r)].attempt = runs[r].attempt
=============================================================================
