----------------------------- MODULE Submission -----------------------------
(***************************************************************************)
(* How a message comes into a session and into its transcript: the request *)
(* threads in AgentRuntime.submit_run (find the key, snapshot the Skill,   *)
(* accept, append to the transcript), the worker that loads the snapshot,  *)
(* reads what was said before and appends the answer, and a process that   *)
(* dies and, when it starts again, goes once through the messages to       *)
(* append what the transcript lacks.                                       *)
(*                                                                         *)
(* accept_once is one transaction; everything else a request does is a     *)
(* step of its own on files that other requests use at the same time.      *)
(* What a worker does with a run between claim and end is module Runtime;  *)
(* here it executes and ends.  A session whose worker died stays taken.    *)
(***************************************************************************)
EXTENDS SkillBundles, TranscriptFiles

CONSTANTS Threads,       \* request threads
          Keys,          \* idempotency keys of the clients
          Inputs,        \* what is sent
          MaxRequests,   \* bound on requests, retries among them
          MaxFaults      \* bound on deaths of the process and rebindings together

ASSUME SubmissionAssumption ==
    /\ None \notin Runs \cup Keys \cup Inputs \cup Roots
    /\ MaxRequests \in Nat /\ MaxFaults \in Nat

VARIABLES rows,          \* table runs
          root,          \* workspaces.user_path of the session's workspace
          threads,
          worker,
          requests,      \* how many requests so far, and how many faults: deaths,
          faults         \* rebindings, edits and failed copies of the Skill

subVars  == <<rows, root, threads, worker, transcript, requests, faults,
             bundleVars>>

\* root: where the run's input and snapshot objects were written; answer: where its output
\* was, None without one.
Row   == [status : {"ABSENT", "QUEUED", "RUNNING", "ENDED"}, seq : Nat,
          key : Keys \cup {None}, input : Inputs \cup {None},
          skill : Versions \cup {None}, root : Roots \cup {None},
          answer : Roots \cup {None}]
NoRow == [status |-> "ABSENT", seq |-> 0, key |-> None, input |-> None, skill |-> None,
          root |-> None, answer |-> None]

\* Where a request is: idle; find (find_request), digest, look, remove, recheck, make,
\* copy (_store_bundle), accept (accept_once), read (get_run), note (append_transcript).
ThreadPCs == {"idle", "find", "digest", "look", "remove", "recheck", "make", "copy",
              "accept", "read", "note"}
Thread == [pc : ThreadPCs, key : Keys \cup {None}, input : Inputs \cup {None},
           root : Roots \cup {None}, skill : Versions \cup {None},
           todo : SUBSET Files, run : Runs \cup {None}]
Free   == [pc |-> "idle", key |-> None, input |-> None, root |-> None, skill |-> None,
           todo |-> {}, run |-> None]

\* The worker: claimed (claim_next_run has committed, its get_run has not answered),
\* session (get_session_unscoped), load (load_skill_body), history (conversation_history),
\* execute, end (transition_run), ended (its get_run), result (append_transcript), dead
\* (an exception left the loop), down, project (materialize_user_storage, before the
\* worker starts).  root: the binding it appends with; todo: records still to project.
WorkerPCs == {"idle", "claimed", "session", "load", "history", "execute", "end", "ended",
              "result", "dead", "down", "project"}
Worker == [pc : WorkerPCs, run : Runs \cup {None}, root : Roots \cup {None},
           todo : SUBSET Record]
Off(pc) == [pc |-> pc, run |-> None, root |-> None, todo |-> {}]

Present(r) == rows[r].status # "ABSENT"
Accepted   == {r \in Runs : Present(r)}
WithKey(k) == {r \in Accepted : rows[r].key = k}

NoFaults == [died |-> 0, moved |-> 0, copied |-> 0]

SubInit ==
    /\ BundleInit
    /\ rows = [r \in Runs |-> NoRow]
    /\ root \in Roots
    /\ threads = [t \in Threads |-> Free]
    /\ worker = Off("idle")
    /\ TranscriptInit
    /\ requests = 0
    /\ faults = NoFaults

Moves(t, thread) == threads' = [threads EXCEPT ![t] = thread]
Goes(t, pc)      == Moves(t, [threads[t] EXCEPT !.pc = pc])
Tables           == <<rows, root, requests, faults>>
Rest             == <<Tables, worker, transcript>>

\* Bounds: MaxFaults deaths, of which one may be a rebinding instead; or nothing but one
\* edit of the Skill or one copy that raises.
Happens(fault) ==
    /\ faults.copied = 0 /\ faults.died + faults.moved < MaxFaults
    /\ fault = "moved" => faults.moved = 0
    /\ fault = "copied" => faults = NoFaults
    /\ faults' = [faults EXCEPT ![fault] = @ + 1]

-----------------------------------------------------------------------------
\* A request: a new one or a retry, with the binding the client knows.
Requests(t, k, i) ==
    /\ threads[t].pc = "idle"
    /\ worker.pc \notin {"down", "project"}
    /\ requests < MaxRequests
    /\ requests' = requests + 1
    /\ Moves(t, [Free EXCEPT !.pc = "find", !.key = k, !.input = i, !.root = root])
    /\ UNCHANGED <<rows, root, faults, worker, transcript, bundleVars>>

\* The key is known: the run with the same fingerprint, of input and binding, is the
\* answer, another one a conflict.  Both find_request and accept_once say so.
SameKeyIsEnough(r, thread) == TRUE            \* fault: the fingerprint is not compared
SameRequest(r, thread)     == rows[r].input = thread.input /\ rows[r].root = thread.root
Answered(thread, r) ==
    [Free EXCEPT !.pc = "read", !.key = thread.key, !.input = thread.input,
                 !.root = thread.root, !.run = r]
Answers(t, r) ==
    /\ r \in WithKey(threads[t].key)
    /\ IF SameRequest(r, threads[t])
       THEN Moves(t, Answered(threads[t], r))
       ELSE Moves(t, Free)
    /\ UNCHANGED <<Rest, bundleVars>>
Finds(t) ==
    /\ threads[t].pc = "find"
    /\ \/ \E r \in Runs : Answers(t, r)
       \/ /\ WithKey(threads[t].key) = {}
          /\ Goes(t, "digest")
          /\ UNCHANGED <<Rest, bundleVars>>

\* _read_skill: the digest of the source as it is now.
Digests(t) ==
    /\ threads[t].pc = "digest"
    /\ Moves(t, [threads[t] EXCEPT !.pc = "look", !.skill = source])
    /\ UNCHANGED <<Rest, bundleVars>>

\* _store_bundle.  A directory with anything in it is taken for the bundle.
Looks(t) ==
    LET d == threads[t].skill
    IN  /\ threads[t].pc = "look"
        /\ Goes(t, IF Made(d) /\ Empty(d) THEN "remove" ELSE "recheck")
        /\ UNCHANGED <<Rest, bundleVars>>
Removes(t) ==
    /\ threads[t].pc = "remove"
    /\ RemovesBundle(threads[t].skill)
    /\ Goes(t, "recheck")
    /\ UNCHANGED Rest
RemoveRaises(t) ==
    /\ threads[t].pc = "remove"
    /\ ~Made(threads[t].skill) \/ ~Empty(threads[t].skill)
    /\ Moves(t, Free)
    /\ UNCHANGED <<Rest, bundleVars>>
Rechecks(t) ==
    /\ threads[t].pc = "recheck"
    /\ Goes(t, IF Made(threads[t].skill) THEN "accept" ELSE "make")
    /\ UNCHANGED <<Rest, bundleVars>>
Makes(t) ==
    /\ threads[t].pc = "make"
    /\ MakesBundle(threads[t].skill)
    /\ Moves(t, [threads[t] EXCEPT !.pc = "copy", !.todo = Files])
    /\ UNCHANGED Rest
LastLeftOut(todo) == {}                       \* fault: the copy stops after one file
StillToCopy(todo) == todo
Copies(t, f) ==
    LET todo == StillToCopy(threads[t].todo \ {f})
    IN  /\ threads[t].pc = "copy"
        /\ f \in threads[t].todo
        /\ CopiesFile(threads[t].skill, f)
        /\ Moves(t, [threads[t] EXCEPT !.pc = IF todo = {} THEN "accept" ELSE "copy",
                                       !.todo = todo])
        /\ UNCHANGED Rest

\* copy2 raises, and the request with it, between two files or within one.
CopyRaises(t, f) ==
    /\ threads[t].pc = "copy"
    /\ f \in threads[t].todo \cup {None}
    /\ LeavesPartial({<<threads[t].skill, f>>})
    /\ Moves(t, Free)
    /\ Happens("copied")
    /\ UNCHANGED <<rows, root, requests, worker, transcript>>

\* accept_once: the key again, the binding, then the bodies and the row.
SkipsANumber == Cardinality(Accepted) + 2     \* fault: off by one
NextSeq      == Cardinality(Accepted) + 1     \* sessions.next_run_seq
NewRow(thread) ==
    [status |-> "QUEUED", seq |-> NextSeq, key |-> thread.key,
     input |-> thread.input, skill |-> thread.skill, root |-> root, answer |-> None]
Inserts(t, r) ==
    LET thread == threads[t]
    IN  /\ WithKey(thread.key) = {}
        /\ thread.root = root
        /\ ~Present(r)
        /\ rows' = [rows EXCEPT ![r] = NewRow(thread)]
        /\ Moves(t, Answered(thread, r))
        /\ UNCHANGED <<root, requests, faults, worker, transcript, bundleVars>>
WrongBinding(t) ==
    /\ WithKey(threads[t].key) = {}
    /\ threads[t].root # root
    /\ Moves(t, Free)
    /\ UNCHANGED <<Rest, bundleVars>>
Accepts(t) ==
    /\ threads[t].pc = "accept"
    /\ \/ \E r \in Runs : Answers(t, r) \/ Inserts(t, r)
       \/ WrongBinding(t)

-----------------------------------------------------------------------------
\* A message is decoded with all its bodies, under the root as it is now: _decode_run.
Readable(r) == rows[r].root = root /\ rows[r].answer \in {None, root}

\* submit_run reads the run back and appends its input to the transcript below the root
\* it came with; when either raises, the client gets an error for an accepted message.
ReadsBack(t) ==
    /\ threads[t].pc = "read"
    /\ IF Readable(threads[t].run) THEN Goes(t, "note") ELSE Moves(t, Free)
    /\ UNCHANGED <<Rest, bundleVars>>
Notes(t) ==
    LET place  == threads[t].root
        record == User(threads[t].run)
    IN  /\ threads[t].pc = "note"
        /\ \/ Appends(place, record)
           \/ Raises(place, record) /\ UNCHANGED transcript
        /\ Moves(t, Free)
        /\ UNCHANGED <<Tables, worker, bundleVars>>

\* The worker.
Turns(row)   == worker' = row
GoesOn(pc)   == Turns([worker EXCEPT !.pc = pc])
Reads(r, pc) == IF Readable(r) THEN GoesOn(pc) ELSE Turns(Off("dead"))
Fixed        == <<root, requests, faults, threads, bundleVars>>
Claims(r) ==
    /\ worker.pc = "idle"
    /\ rows[r].status = "QUEUED"
    /\ \A p \in Runs : rows[p].status # "RUNNING"
    /\ \A p \in Runs : rows[p].status = "QUEUED" => rows[r].seq <= rows[p].seq
    /\ rows' = [rows EXCEPT ![r].status = "RUNNING"]
    /\ Turns([Off("claimed") EXCEPT !.run = r])
    /\ UNCHANGED <<Fixed, transcript>>
ReadsClaimed ==
    /\ worker.pc = "claimed"
    /\ Reads(worker.run, "session")
    /\ UNCHANGED <<Fixed, rows, transcript>>
ReadsSession ==
    /\ worker.pc = "session"
    /\ Turns([worker EXCEPT !.pc = "load", !.root = root])
    /\ UNCHANGED <<Fixed, rows, transcript>>

\* The LangGraph harness reads the whole conversation before the message, outside its
\* try; the local harness reads none of it.
LoadsSkill ==
    LET body == bundles[rows[worker.run].skill].files["SKILL.md"]
    IN  /\ worker.pc = "load"
        /\ \/ body # None /\ \E pc \in {"history", "execute"} : GoesOn(pc)
           \/ body \in {None, Partial} /\ Turns(Off("dead"))
        /\ UNCHANGED <<Fixed, rows, transcript>>
Earlier(r) == {p \in Accepted : rows[p].seq < rows[r].seq}
ReadsHistory ==
    /\ worker.pc = "history"
    /\ IF \A p \in Earlier(worker.run) : Readable(p)
       THEN GoesOn("execute") ELSE Turns(Off("dead"))
    /\ UNCHANGED <<Fixed, rows, transcript>>

\* Both harnesses read the message again before they end it, and transition_run once it is
\* ended; a failure ends it without an output.
ReadsToEnd ==
    /\ worker.pc = "execute"
    /\ Reads(worker.run, "end")
    /\ UNCHANGED <<Fixed, rows, transcript>>
Finishes(output) ==
    /\ worker.pc = "end"
    /\ rows' = [rows EXCEPT ![worker.run].status = "ENDED", ![worker.run].answer = output]
    /\ GoesOn("ended")
    /\ UNCHANGED <<Fixed, transcript>>
ReadsEnded ==
    /\ worker.pc = "ended"
    /\ IF rows[worker.run].answer = None /\ Readable(worker.run)
       THEN Turns(Off("idle")) ELSE Reads(worker.run, "result")
    /\ UNCHANGED <<Fixed, rows, transcript>>
WritesAnswer ==
    LET record == Answer(worker.run)
    IN  /\ worker.pc = "result"
        /\ \/ Appends(worker.root, record) /\ Turns(Off("idle"))
           \/ Raises(worker.root, record) /\ UNCHANGED transcript /\ Turns(Off("dead"))
        /\ UNCHANGED <<Fixed, rows>>

-----------------------------------------------------------------------------
\* What should be in the transcript, and in which order the projection goes through it.
RecordsOf(r) == {User(r)} \cup (IF rows[r].answer # None THEN {Answer(r)} ELSE {})
Expected     == UNION {RecordsOf(r) : r \in Accepted}
Before(a, b) ==
    \/ rows[a.run].seq < rows[b.run].seq
    \/ a.run = b.run /\ a.role = "user"
Next1(todo)  == {record \in todo : \A other \in todo \ {record} : Before(record, other)}

\* Who is about to append which record where.
Appending ==
    {<<threads[t].root, User(threads[t].run)>> : t \in {u \in Threads : threads[u].pc = "note"}}
    \cup (IF worker.pc = "result" THEN {<<worker.root, Answer(worker.run)>>} ELSE {})
    \cup (IF worker.pc = "project" THEN {root} \X Next1(worker.todo) ELSE {})

\* The process dies.  The append in progress may be cut short, and so may be, per request,
\* the file that it copies.
Copiers == {t \in Threads : threads[t].pc = "copy"}
Copying == {threads[t].skill : t \in Copiers}
Dies ==
    /\ worker.pc # "down"
    /\ Happens("died")
    /\ Turns(Off("down"))
    /\ threads' = [t \in Threads |-> Free]
    /\ \/ UNCHANGED transcript
       \/ \E append \in Appending : CutShort(append[1], append[2])
    /\ \E cut \in [Copiers -> Files \cup {None}] :
          /\ \A t \in Copiers : cut[t] \in threads[t].todo \cup {None}
          /\ LeavesPartial({<<threads[t].skill, cut[t]>> : t \in Copiers})
    /\ UNCHANGED <<rows, root, requests>>

\* create_server: materialize_user_storage, then start_worker.  It goes once through the
\* messages, with one append per record; one message that cannot be read makes it skip
\* the session, and an append that raises ends the start.
AnswersOnly(records) == {record \in records : record.role = "assistant"}   \* fault: no inputs
ToProject(records)   == records
Starts ==
    /\ worker.pc = "down"
    /\ Turns([Off("project") EXCEPT
                !.todo = IF \A r \in Accepted : Readable(r) THEN ToProject(Expected) ELSE {}])
    /\ UNCHANGED <<Fixed, rows, transcript>>
Projects(record) ==
    /\ worker.pc = "project"
    /\ record \in Next1(worker.todo)
    /\ \/ Appends(root, record) /\ Turns([worker EXCEPT !.todo = @ \ {record}])
       \/ Raises(root, record) /\ UNCHANGED transcript /\ Turns(Off("down"))
    /\ UNCHANGED <<Fixed, rows>>
Serves ==
    /\ worker.pc = "project"
    /\ worker.todo = {}
    /\ Turns(Off("idle"))
    /\ UNCHANGED <<Fixed, rows, transcript>>

\* create_session for the same project with another storage root rebinds the workspace.
Rebinds(place) ==
    /\ worker.pc \notin {"down", "project"}
    /\ place # root
    /\ root' = place
    /\ Happens("moved")
    /\ UNCHANGED <<rows, requests, threads, worker, transcript, bundleVars>>

AuthorEdits ==
    /\ Happens("copied")
    /\ Edits
    /\ UNCHANGED <<rows, root, requests, worker, transcript, threads>>

RequestStep(t) ==
    \/ \E k \in Keys, i \in Inputs : Requests(t, k, i)
    \/ Finds(t) \/ Digests(t) \/ Looks(t) \/ Removes(t) \/ RemoveRaises(t)
    \/ Rechecks(t) \/ Makes(t)
    \/ \E f \in Files : Copies(t, f)
    \/ \E f \in Files \cup {None} : CopyRaises(t, f)
    \/ Accepts(t) \/ ReadsBack(t) \/ Notes(t)
WorkerStep ==
    \/ \E r \in Runs : Claims(r)
    \/ ReadsClaimed \/ ReadsSession \/ LoadsSkill \/ ReadsHistory
    \/ ReadsToEnd \/ (\E output \in {None, root} : Finishes(output)) \/ ReadsEnded
    \/ WritesAnswer
    \/ Starts \/ (\E record \in Record : Projects(record)) \/ Serves

SubNext ==
    \/ \E t \in Threads : RequestStep(t)
    \/ WorkerStep
    \/ Dies
    \/ \E place \in Roots : Rebinds(place)
    \/ AuthorEdits
SubSpec == SubInit /\ [][SubNext]_subVars

-----------------------------------------------------------------------------
(***************************************************************************)
(* Properties.                                                             *)
(***************************************************************************)

\* Rows, threads, worker, bundles and lines are well formed; messages are numbered without
\* a gap from 1.
SubTypeOK ==
    /\ rows \in [Runs -> Row]
    /\ {rows[r].seq : r \in Accepted} = 1..Cardinality(Accepted)
    /\ root \in Roots
    /\ threads \in [Threads -> Thread]
    /\ worker \in Worker
    /\ transcript \in [Roots -> File]
    /\ source \in Versions
    /\ bundles \in [Versions -> BundleType]
    /\ spoiled \subseteq Versions

\* Whatever requests race and are retried, a request is answered with a run that was made
\* of its own input and is the only one with its key (RunService.submit looks the key up,
\* and accept_once again).
ToldOwnRun ==
    \A t \in Threads :
        LET thread == threads[t]
        IN  thread.run # None => /\ WithKey(thread.key) = {thread.run}
                                 /\ rows[thread.run].input = thread.input

\* The snapshot of an accepted message has every file of the Skill as its digest names it,
\* as soon as nobody copies it any more: unless the process died while copying, the
\* author edited the Skill between the digest and the copy, or a request that had seen the
\* directory empty removed what another had copied meanwhile.  Nothing repairs such a
\* directory: "Same digest means the same bytes" (_store_bundle) is then not so.
BundleIntact ==
    \A r \in Accepted :
        LET d == rows[r].skill
        IN  d \in spoiled \/ d \in Copying \/ Complete(d)

\* No transcript has a record twice, however requests, the worker and the projection of a
\* restart meet.
TranscriptOnce ==
    \A place \in Roots :
        LET lines == transcript[place].lines
        IN  \A n, m \in DOMAIN lines : lines[n] = lines[m] /\ lines[n] \in Record => n = m

\* While the process serves a project that was never bound elsewhere, the transcript has
\* the input of every accepted message and every output, but for those that somebody is
\* about to append, and for two records at most: when a death has cut an append just
\* before its newline, the next record spoils that line, and both are missing until the
\* next start.  However often the process dies, no more are missing, and none unless a
\* line shows it; and a process that finds its transcript cut inside a character does not
\* come to serve.
AboutToAppend(record) ==
    \/ \E t \in Threads : threads[t].pc \in {"read", "note"} /\ record = User(threads[t].run)
    \/ worker.pc \in {"ended", "result"} /\ record = Answer(worker.run)
Lost == {record \in Expected : ~Contains(root, record) /\ ~AboutToAppend(record)}
TranscriptComplete ==
    worker.pc \notin {"down", "project"} /\ faults.moved = 0
        => /\ Cardinality(Lost) <= 2
           /\ Lost # {} => Unreadable \in Lines(root)
           /\ Ends(root) # "broken"

\* The worker thread is lost to no exception but these: the Skill of its message is still
\* being copied by another request or was spoiled; or, once the project was bound to
\* another root, the message or an earlier one cannot be read there, or a transcript below
\* a root was left cut inside a character.  claim_next_run has made the message RUNNING,
\* and it stays so unless it had ended.
WorkerLostOnlyTo ==
    [][worker'.pc = "dead" /\ worker.pc # "dead" =>
           \/ rows[worker.run].skill \in spoiled \cup Copying
           \/ /\ faults.moved > 0
              /\ \/ \E r \in Earlier(worker.run) \cup {worker.run} : ~Readable(r)
                 \/ Ends(worker.root) = "broken"]_subVars
=============================================================================
