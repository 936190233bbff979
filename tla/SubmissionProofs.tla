-------------------------- MODULE SubmissionProofs ---------------------------
(***************************************************************************)
(* For any number of request threads, runs, keys, storage roots and files  *)
(* of a Skill: requests are answered with their own run, a transcript      *)
(* repeats no record and lacks two at most, a snapshot is whole unless     *)
(* something has spoiled it, and the worker is lost to few messages only.  *)
(***************************************************************************)
EXTENDS Submission, FiniteSetTheorems, TLAPS

\* When the worker has a run, and when a binding too.
Busy  == {"claimed", "session", "load", "history", "execute", "end", "ended", "result"}
Bound == Busy \ {"claimed", "session"}

\* Types, as far as the argument needs them.
SubTypes ==
    /\ rows \in [Runs -> Row]
    /\ IsFiniteSet(Accepted)
    /\ root \in Roots
    /\ threads \in [Threads -> Thread]
    /\ worker \in Worker
    /\ worker.pc \in Busy => worker.run \in Accepted
    /\ worker.pc \in Bound => worker.root \in Roots
    /\ source \in Versions
    /\ bundles \in [Versions -> BundleType]

KeysUnique == \A r, p \in Accepted : rows[r].key = rows[p].key => r = p
Told(thread) ==
    /\ thread.pc # "idle" => thread.root \in Roots
    /\ thread.pc \in {"read", "note"} => thread.run # None
    /\ thread.run # None => /\ thread.run \in Accepted
                            /\ rows[thread.run].key = thread.key
                            /\ rows[thread.run].input = thread.input
                            /\ rows[thread.run].root = thread.root

\* A line without a newline is a line.
Transcripts ==
    /\ transcript \in [Roots -> File]
    /\ TranscriptOnce
    /\ \A place \in Roots : Ends(place) = "open" => transcript[place].lines # <<>>

\* A digest that somebody relies on, or will take for complete, is complete, unless
\* somebody still copies it or something has spoiled it.
Settled(d) == d \in spoiled \/ d \in Copying \/ Complete(d)
Relying == {"look", "remove", "recheck", "make", "copy", "accept"}
Relies(thread, d) ==
    /\ thread.pc = "accept" => Settled(d)
    /\ thread.pc = "copy" /\ d \notin spoiled =>
         \A f \in Files \ thread.todo : bundles[d].files[f] = d
Sound ==
    /\ \A d \in Versions : Made(d) => Settled(d)
    /\ \A r \in Accepted : rows[r].skill \in Versions
    /\ \A r \in Accepted, d \in Versions : rows[r].skill = d => Settled(d)
    /\ \A t \in Threads : threads[t].pc \in Relying => threads[t].skill \in Versions
    /\ \A t \in Threads, d \in Versions : threads[t].skill = d => Relies(threads[t], d)

SubInv ==
    /\ SubTypes
    /\ KeysUnique
    /\ \A t \in Threads : Told(threads[t])
    /\ Transcripts
    /\ Sound

-----------------------------------------------------------------------------
\* A thread moves on; the others stay.
LEMMA ThreadMoves ==
    ASSUME threads \in [Threads -> Thread], NEW t \in Threads, NEW thread \in Thread,
           Moves(t, thread)
    PROVE  /\ threads' \in [Threads -> Thread] /\ threads'[t] = thread
           /\ \A u \in Threads \ {t} : threads'[u] = threads[u]
  BY DEF Moves

\* The row of a request that goes on to another call.
LEMMA ThreadGoes ==
    ASSUME threads \in [Threads -> Thread], NEW t \in Threads, NEW pc \in ThreadPCs, Goes(t, pc)
    PROVE  \E thread \in Thread :
             /\ Moves(t, thread) /\ thread.pc = pc
             /\ thread.key = threads[t].key /\ thread.input = threads[t].input
             /\ thread.root = threads[t].root /\ thread.skill = threads[t].skill
             /\ thread.todo = threads[t].todo /\ thread.run = threads[t].run
<1>1. threads[t] \in Thread
  OBVIOUS
<1>2. PICK thread : thread = [threads[t] EXCEPT !.pc = pc]
  OBVIOUS
<1>3. /\ thread \in Thread /\ thread.pc = pc
      /\ thread.key = threads[t].key /\ thread.input = threads[t].input
      /\ thread.root = threads[t].root /\ thread.skill = threads[t].skill
      /\ thread.todo = threads[t].todo /\ thread.run = threads[t].run
  BY <1>1, <1>2 DEF Thread
<1>4. Moves(t, thread)
  BY <1>2 DEF Goes
<1> QED
  BY <1>3, <1>4

\* A thread that serves no request.
LEMMA FreeTyped == Free \in Thread /\ Free.pc = "idle" /\ Free.run = None
  BY DEF Free, Thread, ThreadPCs
LEMMA FreeTold == Told(Free)
  BY FreeTyped DEF Told

-----------------------------------------------------------------------------
\* A line that is written behind a newline is one more line; one that is written behind an
\* open line makes that line unreadable.
NoneTwice(lines) == \A n, m \in DOMAIN lines : lines[n] = lines[m] /\ lines[n] \in Record => n = m
Held(lines)      == {lines[n] : n \in DOMAIN lines}
LEMMA LineAdded ==
    ASSUME NEW l \in Seq(Record \cup {Unreadable}), NEW line \in Record \cup {Unreadable},
           NoneTwice(l), line \in Record => line \notin Held(l), NEW m, m = Append(l, line)
    PROVE  /\ m \in Seq(Record \cup {Unreadable}) /\ NoneTwice(m) /\ m # <<>>
           /\ Held(l) \subseteq Held(m) /\ line \in Held(m) /\ Held(m) \subseteq Held(l) \cup {line}
<1>1. Len(l) \in Nat /\ DOMAIN l = 1..Len(l)
  OBVIOUS
<1>2. /\ m \in Seq(Record \cup {Unreadable}) /\ DOMAIN m = 1..Len(l) + 1
      /\ m[Len(l) + 1] = line /\ \A n \in 1..Len(l) : m[n] = l[n]
  BY <1>1
<1>3. \A n \in 1..Len(l) + 1 : n \in 1..Len(l) \/ n = Len(l) + 1
  BY <1>1
<1>4. Len(l) + 1 \in DOMAIN m /\ \A n \in DOMAIN l : n \in DOMAIN m
  BY <1>1, <1>2
<1>5. Held(l) \subseteq Held(m) /\ line \in Held(m) /\ Held(m) \subseteq Held(l) \cup {line}
  BY <1>1, <1>2, <1>3, <1>4 DEF Held
<1>6. NoneTwice(m)
  <2> SUFFICES ASSUME NEW n \in DOMAIN m, NEW k \in DOMAIN m, m[n] = m[k], m[n] \in Record
               PROVE  n = k
    BY DEF NoneTwice
  <2>1. (n \in DOMAIN l \/ n = Len(l) + 1) /\ (k \in DOMAIN l \/ k = Len(l) + 1)
    BY <1>1, <1>2, <1>3
  <2>2. CASE n \in DOMAIN l /\ k \in DOMAIN l
    BY <1>1, <1>2, <2>2 DEF NoneTwice
  <2>3. CASE n = Len(l) + 1 /\ k \in DOMAIN l
    BY <1>1, <1>2, <2>3 DEF Held
  <2>4. CASE k = Len(l) + 1 /\ n \in DOMAIN l
    BY <1>1, <1>2, <2>4 DEF Held
  <2> QED
    BY <2>1, <2>2, <2>3, <2>4
<1>7. m # <<>>
  BY <1>4
<1> QED
  BY <1>2, <1>5, <1>6, <1>7
LEMMA LineSpoiled ==
    ASSUME NEW l \in Seq(Record \cup {Unreadable}), NoneTwice(l), l # <<>>, NEW m, m = Spoiled(l)
    PROVE  /\ m \in Seq(Record \cup {Unreadable}) /\ NoneTwice(m) /\ m # <<>>
           /\ Unreadable \in Held(m) /\ Held(m) \subseteq Held(l) \cup {Unreadable}
           /\ \E gone : Held(l) \subseteq Held(m) \cup {gone}
<1>1. Len(l) \in Nat \ {0} /\ DOMAIN l = 1..Len(l)
  OBVIOUS
<1>2. Len(l) \in DOMAIN l
  BY <1>1
<1>3. m = [l EXCEPT ![Len(l)] = Unreadable]
  BY DEF Spoiled
<1>4. DOMAIN m = DOMAIN l /\ m[Len(l)] = Unreadable /\ \A n \in DOMAIN l \ {Len(l)} : m[n] = l[n]
  BY <1>2, <1>3
<1>5. m \in Seq(Record \cup {Unreadable})
  <2>1. PICK S : S = Record \cup {Unreadable}
    OBVIOUS
  <2>2. l \in [1..Len(l) -> S] /\ Unreadable \in S
    BY <1>1, <2>1
  <2>3. m \in [1..Len(l) -> S]
    BY <1>3, <2>2
  <2> QED
    BY <1>1, <2>1, <2>3
<1>6. NoneTwice(m)
  BY <1>4, UnreadableAssumption DEF NoneTwice
<1>7. m # <<>>
  BY <1>2, <1>4
<1>8. Unreadable \in Held(m) /\ Held(m) \subseteq Held(l) \cup {Unreadable}
  BY <1>2, <1>4 DEF Held
<1>9. Held(l) \subseteq Held(m) \cup {l[Len(l)]}
  BY <1>2, <1>4 DEF Held
<1> QED
  BY <1>5, <1>6, <1>7, <1>8, <1>9

\* What a write makes of a file: nothing is twice in it, nothing is lost but behind an open
\* line, and that is to be seen.
LEMMA WritesOne ==
    ASSUME Transcripts, NEW place \in Roots, NEW line \in Record \cup {Unreadable},
           NEW tail \in Tails, line \in Record => ~Contains(place, line), Writes(place, line, tail)
    PROVE  /\ Transcripts' /\ Ends(place)' = tail
           /\ Lines(place)' \subseteq Lines(place) \cup {line, Unreadable}
           /\ Ends(place) # "open" => Lines(place) \cup {line} \subseteq Lines(place)'
           /\ Ends(place) = "open" =>
                /\ Unreadable \in Lines(place)'
                /\ \E gone : Lines(place) \subseteq Lines(place)' \cup {gone}
<1>1. PICK file : file = transcript[place]
  OBVIOUS
<1>2. /\ file \in File /\ file.lines \in Seq(Record \cup {Unreadable}) /\ file.tail = Ends(place)
      /\ Lines(place) = Held(file.lines)
  BY <1>1 DEF Transcripts, File, Ends, Lines, Held
<1>3. NoneTwice(file.lines) /\ (file.tail = "open" => file.lines # <<>>)
  BY <1>1 DEF Transcripts, TranscriptOnce, NoneTwice, Ends
<1>4. PICK lines : lines = IF file.tail = "open" THEN Spoiled(file.lines) ELSE Append(file.lines, line)
  OBVIOUS
<1>5. PICK new : new = [lines |-> lines, tail |-> tail]
  OBVIOUS
<1>6. transcript' = [transcript EXCEPT ![place] = new]
  BY <1>1, <1>4, <1>5 DEF Writes, Extended
<1>7. /\ lines \in Seq(Record \cup {Unreadable}) /\ NoneTwice(lines) /\ lines # <<>>
      /\ Held(lines) \subseteq Held(file.lines) \cup {line, Unreadable}
      /\ file.tail # "open" => Held(file.lines) \cup {line} \subseteq Held(lines)
      /\ file.tail = "open" => /\ Unreadable \in Held(lines)
                               /\ \E gone : Held(file.lines) \subseteq Held(lines) \cup {gone}
  <2>1. PICK l : l = file.lines
    OBVIOUS
  <2>2. l \in Seq(Record \cup {Unreadable}) /\ NoneTwice(l) /\ (file.tail = "open" => l # <<>>)
    BY <1>2, <1>3, <2>1
  <2>3. CASE file.tail = "open"
    <3>1. lines = Spoiled(l)
      BY <1>4, <2>1, <2>3
    <3>2. /\ lines \in Seq(Record \cup {Unreadable}) /\ NoneTwice(lines) /\ lines # <<>>
          /\ Unreadable \in Held(lines) /\ Held(lines) \subseteq Held(l) \cup {Unreadable}
          /\ \E gone : Held(l) \subseteq Held(lines) \cup {gone}
      BY <2>2, <2>3, <3>1, LineSpoiled
    <3> QED
      BY <2>1, <2>3, <3>2
  <2>4. CASE file.tail # "open"
    <3>1. line \in Record => line \notin Held(l)
      BY <1>2, <2>1 DEF Contains
    <3>2. lines = Append(l, line)
      BY <1>4, <2>1, <2>4
    <3>3. /\ lines \in Seq(Record \cup {Unreadable}) /\ NoneTwice(lines) /\ lines # <<>>
          /\ Held(l) \subseteq Held(lines) /\ line \in Held(lines)
          /\ Held(lines) \subseteq Held(l) \cup {line}
      BY <2>2, <3>1, <3>2, LineAdded
    <3> QED
      BY <2>1, <2>4, <3>3
  <2> QED
    BY <2>3, <2>4
<1>8. new \in File
  BY <1>5, <1>7 DEF File
<1>9. /\ transcript' \in [Roots -> File] /\ transcript'[place] = new
      /\ \A other \in Roots \ {place} : transcript'[other] = transcript[other]
  BY <1>6, <1>8 DEF Transcripts
<1>10. Lines(place)' = Held(lines) /\ Ends(place)' = tail
  BY <1>5, <1>9 DEF Lines, Held, Ends
<1>11. Transcripts'
  <2>1. \A other \in Roots : NoneTwice(transcript'[other].lines)
    <3>1. \A other \in Roots : NoneTwice(transcript[other].lines)
      BY DEF Transcripts, TranscriptOnce, NoneTwice
    <3> QED
      BY <1>5, <1>7, <1>9, <3>1
  <2>2. TranscriptOnce'
    BY <2>1 DEF TranscriptOnce, NoneTwice
  <2>3. \A other \in Roots : transcript'[other].tail = "open" => transcript'[other].lines # <<>>
    BY <1>5, <1>7, <1>9 DEF Transcripts, Ends
  <2> QED
    BY <1>9, <2>2, <2>3 DEF Transcripts, Ends
<1> QED
  BY <1>2, <1>7, <1>10, <1>11

\* Who appends nothing repeats nothing.
LEMMA SameTranscript ==
    ASSUME Transcripts, transcript' = transcript
    PROVE  Transcripts'
  BY DEF Transcripts, TranscriptOnce, Ends

\* append_transcript, whole or cut short.
LEMMA AppendsOnce ==
    ASSUME Transcripts, NEW place \in Roots, NEW record \in Record,
           Appends(place, record) \/ CutShort(place, record)
    PROVE  Transcripts'
<1>1. Tails = {"whole", "open", "broken"}
  BY DEF Tails
<1>2. CASE transcript' = transcript
  BY <1>2, SameTranscript
<1>3. ASSUME NEW line \in {record, Unreadable}, NEW tail \in Tails, Writes(place, line, tail),
             ~Contains(place, record)
      PROVE  Transcripts'
  BY <1>3, WritesOne, UnreadableAssumption
<1>4. CASE Appends(place, record)
  BY <1>1, <1>2, <1>3, <1>4 DEF Appends
<1>5. CASE CutShort(place, record)
  BY <1>1, <1>3, <1>5 DEF CutShort
<1> QED
  BY <1>4, <1>5

-----------------------------------------------------------------------------
\* No messages, and a process that serves.
LEMMA SubInitInv == SubInit => SubInv
<1> SUFFICES ASSUME SubInit PROVE SubInv
  OBVIOUS
<1>1. NoRow \in Row /\ NoRow.status = "ABSENT"
  BY DEF NoRow, Row
<1>2. Accepted = {}
  BY <1>1 DEF SubInit, Accepted, Present
<1>3. SubTypes
  <2>1. IsFiniteSet(Accepted)
    BY <1>2, FS_EmptySet
  <2>2. Off("idle") \in Worker /\ Off("idle").pc = "idle"
    BY DEF Off, Worker, WorkerPCs
  <2>3. NoBundle \in BundleType
    BY DEF NoBundle, BundleType
  <2> QED
    BY <1>1, <2>1, <2>2, <2>3, FreeTyped DEF SubTypes, SubInit, BundleInit, Busy, Bound
<1>4. \A t \in Threads : threads[t] = Free
  BY DEF SubInit
<1>5. Transcripts
  <2>1. NewFile \in File /\ NewFile.lines = <<>> /\ NewFile.tail = "whole"
    BY DEF NewFile, File, Tails
  <2>2. transcript = [place \in Roots |-> NewFile]
    BY DEF SubInit, TranscriptInit
  <2> QED
    BY <2>1, <2>2 DEF Transcripts, TranscriptOnce, Ends
<1>6. \A d \in Versions : ~Made(d)
  BY DEF SubInit, BundleInit, Made, NoBundle
<1> QED
  BY <1>2, <1>3, <1>4, <1>5, <1>6, FreeTyped, FreeTold DEF SubInv, KeysUnique, Sound, Relies, Relying

-----------------------------------------------------------------------------
\* What is being copied stays so, but for what the moving thread copied.
LEMMA CopyingStays ==
    ASSUME threads \in [Threads -> Thread], NEW t \in Threads, NEW thread \in Thread,
           Moves(t, thread), NEW d \in Copying,
           threads[t].pc = "copy" => threads[t].skill # d \/ (thread.pc = "copy" /\ thread.skill = d)
    PROVE  d \in Copying'
<1>1. PICK u \in Threads : threads[u].pc = "copy" /\ threads[u].skill = d
  BY DEF Copying, Copiers
<1>2. threads'[u].pc = "copy" /\ threads'[u].skill = d
  BY <1>1, ThreadMoves
<1> QED
  BY <1>2 DEF Copying, Copiers

\* A request moves on without touching rows, bundles or the source.
LEMMA RequestMoves ==
    ASSUME SubInv, NEW t \in Threads, NEW thread \in Thread, Moves(t, thread),
           UNCHANGED <<rows, root, worker, bundleVars>>, Transcripts',
           threads[t].pc # "copy", thread.pc # "copy", Told(thread),
           thread.pc \in Relying => thread.skill \in Versions,
           thread.pc = "accept" => Settled(thread.skill)
    PROVE  SubInv'
<1>1. SubTypes /\ KeysUnique /\ (\A u \in Threads : Told(threads[u])) /\ Sound
  BY DEF SubInv
<1>2. /\ threads \in [Threads -> Thread] /\ threads' \in [Threads -> Thread] /\ threads'[t] = thread
      /\ \A u \in Threads \ {t} : threads'[u] = threads[u]
  BY <1>1, ThreadMoves DEF SubTypes
<1>3. /\ rows' = rows /\ root' = root /\ worker' = worker /\ Accepted' = Accepted
      /\ source' = source /\ bundles' = bundles /\ spoiled' = spoiled
  BY DEF bundleVars, Accepted, Present
<1>4. SubTypes'
  BY <1>1, <1>2, <1>3 DEF SubTypes
<1>5. KeysUnique'
  BY <1>1, <1>3 DEF KeysUnique
<1>6. \A u \in Threads : Told(threads[u])'
  BY <1>1, <1>2, <1>3 DEF Told
<1>7. \A d : Settled(d) => Settled(d)'
  BY <1>2, <1>3, CopyingStays DEF Settled, Complete, Made
<1>8. Sound'
  BY <1>1, <1>2, <1>3, <1>7 DEF Sound, Made, Relies
<1> QED
  BY <1>4, <1>5, <1>6, <1>8 DEF SubInv

\* The steps of a request that touch nothing but itself.
LEMMA RequestsInv ==
    ASSUME SubInv, NEW t \in Threads, NEW k \in Keys, NEW i \in Inputs, Requests(t, k, i)
    PROVE  SubInv'
<1>1. PICK thread : thread = [Free EXCEPT !.pc = "find", !.key = k, !.input = i, !.root = root]
  OBVIOUS
<1>2. thread = [pc |-> "find", key |-> k, input |-> i, root |-> root, skill |-> None,
                todo |-> {}, run |-> None]
  BY <1>1 DEF Free
<1>3. thread \in Thread /\ Told(thread)
  BY <1>2 DEF Thread, ThreadPCs, SubInv, SubTypes, Told
<1>4. Moves(t, thread) /\ UNCHANGED <<rows, root, worker, transcript, bundleVars>>
  BY <1>1 DEF Requests
<1>5. threads[t].pc # "copy"
  BY DEF Requests
<1>6. Transcripts'
  BY <1>4, SameTranscript DEF SubInv
<1> QED
  BY <1>2, <1>3, <1>4, <1>5, <1>6, RequestMoves DEF Relying

\* A request ends without having changed anything.
LEMMA GoesFree ==
    ASSUME SubInv, NEW t \in Threads, Moves(t, Free), threads[t].pc # "copy",
           UNCHANGED <<Rest, bundleVars>>
    PROVE  SubInv'
<1>1. UNCHANGED <<rows, root, worker, transcript, bundleVars>>
  BY DEF Rest, Tables
<1>2. Transcripts'
  BY <1>1, SameTranscript DEF SubInv
<1> QED
  BY <1>1, <1>2, FreeTyped, FreeTold, RequestMoves DEF Relying

\* A repeated request is told the run it asked for the first time, or a conflict.
LEMMA AnswersInv ==
    ASSUME SubInv, NEW t \in Threads, NEW r \in Runs, Answers(t, r),
           threads[t].pc \in {"find", "accept"}
    PROVE  SubInv'
<1>1. CASE SameRequest(r, threads[t])
  <2>1. PICK thread : thread = Answered(threads[t], r)
    OBVIOUS
  <2>2. thread = [pc |-> "read", key |-> threads[t].key, input |-> threads[t].input,
                  root |-> threads[t].root, skill |-> None, todo |-> {}, run |-> r]
    BY <2>1 DEF Answered, Free
  <2>3. threads[t] \in Thread /\ Told(threads[t])
    BY DEF SubInv, SubTypes
  <2>4. thread \in Thread
    BY <2>2, <2>3 DEF Thread, ThreadPCs
  <2>5. Moves(t, thread) /\ UNCHANGED <<rows, root, worker, transcript, bundleVars>>
    BY <1>1, <2>1 DEF Answers, Rest, Tables
  <2>6. Transcripts'
    BY <2>5, SameTranscript DEF SubInv
  <2>7. /\ r # None /\ r \in Accepted /\ rows[r].key = threads[t].key
        /\ rows[r].input = threads[t].input /\ rows[r].root = threads[t].root
    BY <1>1, SubmissionAssumption DEF Answers, WithKey, SameRequest
  <2>8. Told(thread)
    BY <2>2, <2>3, <2>7 DEF Told
  <2> QED
    BY <2>2, <2>4, <2>5, <2>6, <2>8, RequestMoves DEF Relying
<1>2. CASE ~SameRequest(r, threads[t])
  BY <1>2, GoesFree DEF Answers
<1> QED
  BY <1>1, <1>2

\* A request goes on to where nothing is asked of its snapshot but a version.
LEMMA GoesInv ==
    ASSUME SubInv, NEW t \in Threads,
           NEW pc \in {"digest", "remove", "recheck", "make", "accept", "note"},
           Goes(t, pc), threads[t].pc \in {"find", "look", "recheck", "read"},
           UNCHANGED <<Rest, bundleVars>>,
           pc \notin {"digest", "note"} => threads[t].pc \in Relying,
           pc = "note" => threads[t].pc = "read",
           pc = "accept" => Settled(threads[t].skill)
    PROVE  SubInv'
<1>1. threads \in [Threads -> Thread] /\ Told(threads[t]) /\ Sound
  BY DEF SubInv, SubTypes
<1>2. pc \in ThreadPCs
  BY DEF ThreadPCs
<1>3. PICK thread \in Thread :
             /\ Moves(t, thread) /\ thread.pc = pc
             /\ thread.key = threads[t].key /\ thread.input = threads[t].input
             /\ thread.root = threads[t].root /\ thread.skill = threads[t].skill
             /\ thread.todo = threads[t].todo /\ thread.run = threads[t].run
  BY <1>1, <1>2, ThreadGoes
<1>4. UNCHANGED <<rows, root, worker, transcript, bundleVars>>
  BY DEF Rest, Tables
<1>5. Transcripts'
  BY <1>4, SameTranscript DEF SubInv
<1>6. Told(thread)
  BY <1>1, <1>3 DEF Told
<1>7. thread.pc # "copy" /\ threads[t].pc # "copy"
  BY <1>3
<1>8. thread.pc \in Relying => thread.skill \in Versions
  BY <1>1, <1>3 DEF Sound, Relying
<1>9. thread.pc = "accept" => Settled(thread.skill)
  BY <1>3
<1> QED
  BY <1>3, <1>4, <1>5, <1>6, <1>7, <1>8, <1>9, RequestMoves

\* find_request.
LEMMA FindsInv ==
    ASSUME SubInv, NEW t \in Threads, Finds(t)
    PROVE  SubInv'
<1>1. CASE \E r \in Runs : Answers(t, r)
  BY <1>1, AnswersInv DEF Finds
<1>2. CASE Goes(t, "digest") /\ UNCHANGED <<Rest, bundleVars>>
  BY <1>2, GoesInv DEF Finds
<1> QED
  BY <1>1, <1>2 DEF Finds

\* _store_bundle takes the digest of the files as they are now.
LEMMA DigestsInv ==
    ASSUME SubInv, NEW t \in Threads, Digests(t)
    PROVE  SubInv'
<1>1. threads[t] \in Thread /\ threads[t].pc = "digest" /\ Told(threads[t]) /\ source \in Versions
  BY DEF SubInv, SubTypes, Digests
<1>2. PICK thread : thread = [threads[t] EXCEPT !.pc = "look", !.skill = source]
  OBVIOUS
<1>3. /\ thread \in Thread /\ thread.pc = "look" /\ thread.skill = source
      /\ thread.key = threads[t].key /\ thread.input = threads[t].input
      /\ thread.root = threads[t].root /\ thread.run = threads[t].run
  BY <1>1, <1>2 DEF Thread, ThreadPCs
<1>4. Moves(t, thread) /\ UNCHANGED <<rows, root, worker, transcript, bundleVars>>
  BY <1>2 DEF Digests, Rest, Tables
<1>5. Transcripts'
  BY <1>4, SameTranscript DEF SubInv
<1>6. Told(thread)
  BY <1>1, <1>3 DEF Told
<1>7. thread.pc # "copy" /\ threads[t].pc # "copy" /\ thread.pc # "accept"
  BY <1>1, <1>3
<1> QED
  BY <1>1, <1>3, <1>4, <1>5, <1>6, <1>7, RequestMoves

\* _store_bundle looks for the directory of that digest, twice.
LEMMA LooksInv ==
    ASSUME SubInv, NEW t \in Threads, Looks(t) \/ Rechecks(t)
    PROVE  SubInv'
<1>1. CASE Looks(t)
  <2>1. Goes(t, "remove") \/ Goes(t, "recheck")
    BY <1>1 DEF Looks
  <2> QED
    BY <1>1, <2>1, GoesInv DEF Looks, Relying
<1>2. CASE Rechecks(t)
  <2>1. Sound /\ threads[t].pc = "recheck"
    BY <1>2 DEF SubInv, Rechecks
  <2>2. threads[t].skill \in Versions
    BY <2>1 DEF Sound, Relying
  <2>3. CASE Made(threads[t].skill)
    <3>1. Settled(threads[t].skill)
      BY <2>1, <2>2, <2>3 DEF Sound
    <3> QED
      BY <1>2, <2>3, <3>1, GoesInv DEF Rechecks, Relying
  <2>4. CASE ~Made(threads[t].skill)
    BY <1>2, <2>4, GoesInv DEF Rechecks, Relying
  <2> QED
    BY <2>3, <2>4
<1> QED
  BY <1>1, <1>2

\* The answered message is read back.
LEMMA ReadsBackInv ==
    ASSUME SubInv, NEW t \in Threads, ReadsBack(t)
    PROVE  SubInv'
<1>1. CASE Readable(threads[t].run)
  BY <1>1, GoesInv DEF ReadsBack
<1>2. CASE ~Readable(threads[t].run)
  BY <1>2, GoesFree DEF ReadsBack
<1> QED
  BY <1>1, <1>2

\* The line of the accepted message is appended to the transcript.
LEMMA NotesInv ==
    ASSUME SubInv, NEW t \in Threads, Notes(t)
    PROVE  SubInv'
<1>1. Transcripts /\ Told(threads[t]) /\ threads[t] \in Thread /\ threads[t].pc = "note"
  BY DEF SubInv, SubTypes, Notes
<1>2. PICK record : record = User(threads[t].run)
  OBVIOUS
<1>3. threads[t].run \in Runs /\ threads[t].root \in Roots
  BY <1>1 DEF Told, Accepted
<1>4. record \in Record
  BY <1>2, <1>3 DEF User, Record
<1>5. Transcripts'
  <2>1. CASE transcript' = transcript
    BY <1>1, <2>1, SameTranscript
  <2>2. CASE Appends(threads[t].root, record)
    BY <1>1, <1>3, <1>4, <2>2, AppendsOnce
  <2> QED
    BY <1>2, <2>1, <2>2 DEF Notes
<1>6. Moves(t, Free) /\ UNCHANGED <<rows, root, worker, bundleVars>>
  BY DEF Notes, Tables
<1> QED
  BY <1>1, <1>5, <1>6, FreeTyped, FreeTold, RequestMoves DEF Relying

-----------------------------------------------------------------------------
\* A request that changes the snapshot it works on.
LEMMA BundleStep ==
    ASSUME SubInv, NEW t \in Threads, NEW thread \in Thread, Moves(t, thread),
           UNCHANGED <<rows, root, worker, transcript>>, source' = source,
           bundles' \in [Versions -> BundleType], Told(thread), Sound'
    PROVE  SubInv'
<1>1. SubTypes /\ KeysUnique /\ (\A u \in Threads : Told(threads[u])) /\ Transcripts
  BY DEF SubInv
<1>2. /\ threads \in [Threads -> Thread] /\ threads' \in [Threads -> Thread] /\ threads'[t] = thread
      /\ \A u \in Threads \ {t} : threads'[u] = threads[u]
  BY <1>1, ThreadMoves DEF SubTypes
<1>3. Accepted' = Accepted
  BY DEF Accepted, Present
<1>4. SubTypes'
  BY <1>1, <1>2, <1>3 DEF SubTypes
<1>5. KeysUnique' /\ Transcripts'
  BY <1>1, <1>3, SameTranscript DEF KeysUnique
<1>6. \A u \in Threads : Told(threads[u])'
  BY <1>1, <1>2, <1>3 DEF Told
<1> QED
  BY <1>4, <1>5, <1>6 DEF SubInv

\* One snapshot changes: only that one has to be looked at again.
LEMMA OneBundle ==
    ASSUME SubInv, NEW t \in Threads, NEW thread \in Thread, Moves(t, thread), rows' = rows,
           NEW d \in Versions, threads[t].skill = d, thread.skill = d \/ thread.pc = "idle",
           \A e \in Versions \ {d} : bundles'[e] = bundles[e] /\ (e \in spoiled <=> e \in spoiled'),
           d \in spoiled => d \in spoiled',
           Settled(d) => Settled(d)',
           Made(d)' => Settled(d)',
           thread.pc = "accept" => Settled(d)',
           \A u \in Threads :
             threads'[u].pc = "copy" /\ threads'[u].skill = d /\ d \notin spoiled' =>
               \A f \in Files \ threads'[u].todo : bundles'[d].files[f] = d
    PROVE  Sound'
<1>1. /\ threads \in [Threads -> Thread] /\ threads' \in [Threads -> Thread] /\ threads'[t] = thread
      /\ \A u \in Threads \ {t} : threads'[u] = threads[u]
  BY ThreadMoves DEF SubInv, SubTypes
<1>2. Accepted' = Accepted /\ Sound
  BY DEF SubInv, Accepted, Present
<1>3. \A e \in Versions \ {d} : Settled(e) => Settled(e)'
  <2> SUFFICES ASSUME NEW e \in Versions \ {d}, Settled(e) PROVE Settled(e)'
    OBVIOUS
  <2>1. CASE e \in spoiled
    BY <2>1 DEF Settled
  <2>2. CASE e \in Copying
    <3>1. PICK u \in Threads : threads[u].pc = "copy" /\ threads[u].skill = e
      BY <2>2 DEF Copying, Copiers
    <3>2. threads'[u] = threads[u]
      BY <1>1, <3>1
    <3>3. e \in Copying'
      BY <3>1, <3>2 DEF Copying, Copiers
    <3> QED
      BY <3>3 DEF Settled
  <2>3. CASE Complete(e)
    BY <2>3 DEF Settled, Complete, Made
  <2> QED
    BY <2>1, <2>2, <2>3 DEF Settled
<1>4. \A e \in Versions : Settled(e) => Settled(e)'
  BY <1>3
<1>5. \A e \in Versions : Made(e)' => Settled(e)'
  <2> SUFFICES ASSUME NEW e \in Versions, e # d, Made(e)' PROVE Settled(e)'
    OBVIOUS
  <2>1. Made(e)
    BY DEF Made
  <2> QED
    BY <1>2, <1>3, <2>1 DEF Sound
<1>6. \A r \in Accepted', e \in Versions : rows'[r].skill = e => Settled(e)'
  BY <1>2, <1>4 DEF Sound
<1>7. \A u \in Threads : threads'[u].pc \in Relying => threads'[u].skill \in Versions
  BY <1>1, <1>2 DEF Sound, Relying
<1>8. ASSUME NEW u \in Threads, NEW e \in Versions, threads'[u].skill = e
      PROVE  /\ threads'[u].pc = "accept" => Settled(e)'
             /\ threads'[u].pc = "copy" /\ e \notin spoiled' =>
                  \A f \in Files \ threads'[u].todo : bundles'[e].files[f] = e
  <2>1. CASE u = t
    BY <1>1, <1>8, <2>1
  <2>2. CASE u # t
    <3>1. threads'[u] = threads[u] /\ Relies(threads[u], e)
      BY <1>1, <1>2, <1>8, <2>2 DEF Sound
    <3>2. threads'[u].pc = "accept" => Settled(e)'
      BY <1>4, <3>1 DEF Relies
    <3>3. e # d => (threads'[u].pc = "copy" /\ e \notin spoiled' =>
                      \A f \in Files \ threads'[u].todo : bundles'[e].files[f] = e)
      BY <3>1 DEF Relies
    <3> QED
      BY <1>8, <3>2, <3>3
  <2> QED
    BY <2>1, <2>2
<1> QED
  BY <1>2, <1>5, <1>6, <1>7, <1>8 DEF Sound, Relies

\* An empty directory is removed.
LEMMA RemovesInv ==
    ASSUME SubInv, NEW t \in Threads, Removes(t)
    PROVE  SubInv'
<1>1. SubTypes /\ Sound /\ threads[t].pc = "remove" /\ threads[t] \in Thread
  BY DEF SubInv, SubTypes, Removes
<1>2. PICK d : d = threads[t].skill
  OBVIOUS
<1>3. d \in Versions
  BY <1>1, <1>2 DEF Sound, Relying
<1>4. PICK thread \in Thread :
             /\ Moves(t, thread) /\ thread.pc = "recheck"
             /\ thread.key = threads[t].key /\ thread.input = threads[t].input
             /\ thread.root = threads[t].root /\ thread.skill = threads[t].skill
             /\ thread.todo = threads[t].todo /\ thread.run = threads[t].run
  BY <1>1, ThreadGoes DEF Removes, SubTypes, ThreadPCs
<1>5. /\ bundles' = [bundles EXCEPT ![d] = NoBundle] /\ source' = source
      /\ spoiled' = IF Empty(d) THEN spoiled ELSE spoiled \cup {d}
      /\ UNCHANGED <<rows, root, worker, transcript>>
  BY <1>2 DEF Removes, RemovesBundle, Rest, Tables
<1>6. NoBundle \in BundleType /\ ~NoBundle.made
  BY DEF NoBundle, BundleType
<1>7. bundles' \in [Versions -> BundleType] /\ ~Made(d)'
  BY <1>1, <1>3, <1>5, <1>6 DEF SubTypes, Made
<1>8. Empty(d) => \A f \in Files : bundles[d].files[f] # d
  BY <1>3, BundleAssumption DEF Empty
<1>9. Settled(d) => Settled(d)'
  <2>1. CASE d \in spoiled \/ ~Empty(d)
    BY <1>5, <2>1 DEF Settled
  <2>2. CASE Empty(d)
    <3>1. ~Complete(d)
      BY <1>8, <2>2, BundleAssumption DEF Complete
    <3>2. d \in Copying => d \in Copying'
      BY <1>1, <1>4, CopyingStays DEF SubTypes
    <3> QED
      BY <1>5, <3>1, <3>2 DEF Settled
  <2> QED
    BY <2>1, <2>2
<1>10. \A u \in Threads :
         threads'[u].pc = "copy" /\ threads'[u].skill = d /\ d \notin spoiled' =>
           \A f \in Files \ threads'[u].todo : bundles'[d].files[f] = d
  <2> SUFFICES ASSUME NEW u \in Threads, threads'[u].pc = "copy", threads'[u].skill = d,
                      d \notin spoiled', NEW f \in Files \ threads'[u].todo
               PROVE  FALSE
    OBVIOUS
  <2>1. threads[u] = threads'[u]
    BY <1>1, <1>4, ThreadMoves DEF SubTypes
  <2>2. bundles[d].files[f] = d
    BY <1>1, <1>3, <1>5, <2>1 DEF Sound, Relies
  <2> QED
    BY <1>5, <1>8, <2>2
<1>11. \A e \in Versions \ {d} : bundles'[e] = bundles[e] /\ (e \in spoiled <=> e \in spoiled')
  BY <1>1, <1>5 DEF SubTypes
<1>12. d \in spoiled => d \in spoiled'
  BY <1>5
<1>13. Sound'
  BY <1>2, <1>3, <1>4, <1>5, <1>7, <1>9, <1>10, <1>11, <1>12, OneBundle
<1>14. Told(thread)
  BY <1>1, <1>4 DEF SubInv, Told
<1> QED
  BY <1>4, <1>5, <1>7, <1>13, <1>14, BundleStep

\* It is gone, or another request has filled it.
LEMMA RemoveRaisesInv ==
    ASSUME SubInv, NEW t \in Threads, RemoveRaises(t)
    PROVE  SubInv'
  BY GoesFree DEF RemoveRaises

\* The directory is made, by one request at most.
LEMMA MakesInv ==
    ASSUME SubInv, NEW t \in Threads, Makes(t)
    PROVE  SubInv'
<1>1. SubTypes /\ Sound /\ threads[t].pc = "make" /\ threads[t] \in Thread
  BY DEF SubInv, SubTypes, Makes
<1>2. PICK d : d = threads[t].skill
  OBVIOUS
<1>3. d \in Versions /\ bundles[d] \in BundleType
  BY <1>1, <1>2 DEF Sound, SubTypes, Relying
<1>4. PICK thread : thread = [threads[t] EXCEPT !.pc = "copy", !.todo = Files]
  OBVIOUS
<1>5. /\ thread \in Thread /\ thread.pc = "copy" /\ thread.todo = Files /\ thread.skill = d
      /\ thread.key = threads[t].key /\ thread.input = threads[t].input
      /\ thread.root = threads[t].root /\ thread.run = threads[t].run
  BY <1>1, <1>2, <1>4 DEF Thread, ThreadPCs
<1>6. /\ Moves(t, thread) /\ source' = source /\ spoiled' = spoiled
      /\ UNCHANGED <<rows, root, worker, transcript>>
  BY <1>4 DEF Makes, MakesBundle, Rest, Tables
<1>7. PICK bundle : bundle = [bundles[d] EXCEPT !.made = TRUE]
  OBVIOUS
<1>8. bundle \in BundleType /\ bundle.files = bundles[d].files
  BY <1>3, <1>7 DEF BundleType
<1>9. bundles' = [bundles EXCEPT ![d] = bundle]
  BY <1>2, <1>7 DEF Makes, MakesBundle
<1>10. /\ bundles' \in [Versions -> BundleType] /\ bundles'[d].files = bundles[d].files
       /\ \A e \in Versions \ {d} : bundles'[e] = bundles[e]
  BY <1>1, <1>3, <1>8, <1>9 DEF SubTypes
<1>11. threads'[t] = thread /\ \A u \in Threads \ {t} : threads'[u] = threads[u]
  BY <1>1, <1>5, <1>6, ThreadMoves DEF SubTypes
<1>12. d \in Copying'
  BY <1>5, <1>11 DEF Copying, Copiers
<1>13. Settled(d)'
  BY <1>12 DEF Settled
<1>14. \A u \in Threads :
         threads'[u].pc = "copy" /\ threads'[u].skill = d /\ d \notin spoiled' =>
           \A f \in Files \ threads'[u].todo : bundles'[d].files[f] = d
  <2> SUFFICES ASSUME NEW u \in Threads, threads'[u].pc = "copy", threads'[u].skill = d,
                      d \notin spoiled', NEW f \in Files \ threads'[u].todo
               PROVE  bundles'[d].files[f] = d
    OBVIOUS
  <2>1. threads'[u] = threads[u] /\ Relies(threads[u], d)
    BY <1>1, <1>3, <1>5, <1>11 DEF Sound
  <2> QED
    BY <1>6, <1>10, <2>1 DEF Relies
<1>15. Sound'
  BY <1>2, <1>3, <1>5, <1>6, <1>10, <1>13, <1>14, OneBundle
<1>16. Told(thread)
  BY <1>1, <1>5 DEF SubInv, Told
<1> QED
  BY <1>5, <1>6, <1>10, <1>15, <1>16, BundleStep

\* One file after another is copied into it.
LEMMA CopiesInv ==
    ASSUME SubInv, NEW t \in Threads, NEW f \in Files, Copies(t, f)
    PROVE  SubInv'
<1>1. SubTypes /\ Sound /\ threads[t].pc = "copy" /\ threads[t] \in Thread
  BY DEF SubInv, SubTypes, Copies
<1>2. PICK d : d = threads[t].skill
  OBVIOUS
<1>3. d \in Versions /\ bundles[d] \in BundleType /\ source \in Versions
  BY <1>1, <1>2 DEF Sound, SubTypes, Relying
<1>4. PICK todo : todo = threads[t].todo \ {f}
  OBVIOUS
<1>5. PICK thread : thread = [threads[t] EXCEPT !.pc = IF todo = {} THEN "accept" ELSE "copy",
                                                !.todo = todo]
  OBVIOUS
<1>6. /\ thread \in Thread /\ thread.pc = (IF todo = {} THEN "accept" ELSE "copy")
      /\ thread.todo = todo /\ thread.skill = d /\ thread.key = threads[t].key
      /\ thread.input = threads[t].input /\ thread.root = threads[t].root
      /\ thread.run = threads[t].run
  BY <1>1, <1>2, <1>4, <1>5 DEF Thread, ThreadPCs
<1>7. /\ Moves(t, thread) /\ source' = source
      /\ UNCHANGED <<rows, root, worker, transcript>>
  BY <1>4, <1>5 DEF Copies, CopiesFile, StillToCopy, Rest, Tables
<1>8. spoiled' = IF source = d THEN spoiled ELSE spoiled \cup {d}
  BY <1>2 DEF Copies, CopiesFile
<1>9. PICK files : files = [bundles[d].files EXCEPT ![f] = source]
  OBVIOUS
<1>10. /\ files \in [Files -> Versions \cup {Partial, None}] /\ files[f] = source
       /\ \A g \in Files \ {f} : files[g] = bundles[d].files[g]
  BY <1>3, <1>9 DEF BundleType
<1>11. bundles' = [bundles EXCEPT ![d] = [made |-> TRUE, files |-> files]]
  BY <1>2, <1>9 DEF Copies, CopiesFile
<1>12. /\ bundles' \in [Versions -> BundleType] /\ bundles'[d].made /\ bundles'[d].files = files
       /\ \A e \in Versions \ {d} : bundles'[e] = bundles[e]
  BY <1>1, <1>3, <1>10, <1>11 DEF SubTypes, BundleType
<1>13. threads'[t] = thread /\ \A u \in Threads \ {t} : threads'[u] = threads[u]
  BY <1>1, <1>6, <1>7, ThreadMoves DEF SubTypes
<1>14. \A u \in Threads :
         threads'[u].pc \in {"copy", "accept"} /\ threads'[u].skill = d /\ d \notin spoiled'
           /\ (u = t \/ threads[u].pc = "copy") => \A g \in Files \ threads'[u].todo : files[g] = d
  <2> SUFFICES ASSUME NEW u \in Threads, threads'[u].skill = d, d \notin spoiled',
                      u = t \/ threads[u].pc = "copy", NEW g \in Files \ threads'[u].todo
               PROVE  files[g] = d
    OBVIOUS
  <2>1. d \notin spoiled /\ source = d
    BY <1>8
  <2>2. threads[u].pc = "copy" /\ threads[u].skill = d
    BY <1>1, <1>2, <1>13
  <2>3. Relies(threads[u], d)
    BY <1>1, <1>3, <2>2 DEF Sound
  <2>4. g = f \/ g \notin threads[u].todo
    BY <1>4, <1>6, <1>13
  <2> QED
    BY <1>10, <2>1, <2>2, <2>3, <2>4 DEF Relies
<1>15. Settled(d)'
  <2>1. CASE d \in spoiled'
    BY <2>1 DEF Settled
  <2>2. CASE todo # {}
    <3>1. d \in Copying'
      BY <1>6, <1>13, <2>2 DEF Copying, Copiers
    <3> QED
      BY <3>1 DEF Settled
  <2>3. CASE d \notin spoiled' /\ todo = {}
    <3>1. \A g \in Files : files[g] = d
      BY <1>6, <1>13, <1>14, <2>3
    <3> QED
      BY <1>12, <3>1 DEF Settled, Complete, Made
  <2> QED
    BY <2>1, <2>2, <2>3
<1>16. \A u \in Threads :
         threads'[u].pc = "copy" /\ threads'[u].skill = d /\ d \notin spoiled' =>
           \A g \in Files \ threads'[u].todo : bundles'[d].files[g] = d
  BY <1>12, <1>13, <1>14
<1>17. /\ \A e \in Versions \ {d} : e \in spoiled <=> e \in spoiled'
       /\ d \in spoiled => d \in spoiled'
  BY <1>8
<1>18. Sound'
  BY <1>2, <1>3, <1>6, <1>7, <1>12, <1>15, <1>16, <1>17, OneBundle
<1>19. Told(thread)
  BY <1>1, <1>6 DEF SubInv, Told
<1> QED
  BY <1>6, <1>7, <1>12, <1>18, <1>19, BundleStep

\* Copying ends too early: only the directories of the cuts change, and they are spoiled.
LEMMA PartialTyped ==
    ASSUME SubTypes, NEW cuts, LeavesPartial(cuts)
    PROVE  /\ bundles' \in [Versions -> BundleType]
           /\ \A d \in Versions : (\A cut \in cuts : cut[1] # d) => bundles'[d] = bundles[d]
<1>1. bundles \in [Versions -> BundleType]
  BY DEF SubTypes
<1>2. ASSUME NEW d \in Versions PROVE bundles'[d] \in BundleType
  <2>1. bundles'[d] = [made  |-> Made(d) \/ \E f \in Files : <<d, f>> \in cuts,
                       files |-> [f \in Files |-> IF <<d, f>> \in cuts THEN Partial
                                                  ELSE bundles[d].files[f]]]
    BY DEF LeavesPartial
  <2>2. [f \in Files |-> IF <<d, f>> \in cuts THEN Partial ELSE bundles[d].files[f]]
          \in [Files -> Versions \cup {Partial, None}]
    BY <1>1 DEF BundleType
  <2>3. (Made(d) \/ \E f \in Files : <<d, f>> \in cuts) \in BOOLEAN
    BY <1>1 DEF Made, BundleType
  <2> QED
    BY <2>1, <2>2, <2>3 DEF BundleType
<1>3. bundles' \in [Versions -> BundleType]
  BY <1>2 DEF LeavesPartial
<1>4. ASSUME NEW d \in Versions, \A cut \in cuts : cut[1] # d PROVE bundles'[d] = bundles[d]
  <2>1. \A f : <<d, f>> \notin cuts
    BY <1>4
  <2>2. bundles'[d] = [made |-> Made(d), files |-> [f \in Files |-> bundles[d].files[f]]]
    <3>1. bundles'[d] = [made  |-> Made(d) \/ \E f \in Files : <<d, f>> \in cuts,
                         files |-> [f \in Files |-> IF <<d, f>> \in cuts THEN Partial
                                                    ELSE bundles[d].files[f]]]
      BY DEF LeavesPartial
    <3>2. Made(d) \in BOOLEAN /\ ~(\E f \in Files : <<d, f>> \in cuts)
      BY <1>1, <2>1 DEF Made, BundleType
    <3>3. (Made(d) \/ \E f \in Files : <<d, f>> \in cuts) = Made(d)
      BY <3>2
    <3>4. [f \in Files |-> IF <<d, f>> \in cuts THEN Partial ELSE bundles[d].files[f]]
            = [f \in Files |-> bundles[d].files[f]]
      BY <2>1
    <3> QED
      BY <3>1, <3>3, <3>4
  <2>3. PICK bundle \in BundleType : bundle = bundles[d]
    BY <1>1
  <2>4. bundle.made = Made(d) /\ [f \in Files |-> bundle.files[f]] = bundle.files
    BY <2>3 DEF Made, BundleType
  <2> QED
    BY <2>2, <2>3, <2>4 DEF BundleType
<1> QED
  BY <1>3, <1>4

\* copy2 raises: nobody can rely on that snapshot from then on.
LEMMA CopyRaisesInv ==
    ASSUME SubInv, NEW t \in Threads, NEW f, CopyRaises(t, f)
    PROVE  SubInv'
<1>1. SubTypes /\ Sound /\ threads[t].pc = "copy"
  BY DEF SubInv, CopyRaises
<1>2. PICK d : d = threads[t].skill
  OBVIOUS
<1>3. d \in Versions
  BY <1>1, <1>2 DEF Sound, Relying
<1>4. PICK cuts : cuts = {<<d, f>>}
  OBVIOUS
<1>5. /\ LeavesPartial(cuts) /\ Moves(t, Free) /\ UNCHANGED <<rows, root, worker, transcript>>
      /\ \A cut \in cuts : cut[1] = d
  BY <1>2, <1>4 DEF CopyRaises
<1>6. source' = source /\ spoiled' = spoiled \cup {d}
  BY <1>4, <1>5 DEF LeavesPartial
<1>7. /\ bundles' \in [Versions -> BundleType]
      /\ \A e \in Versions \ {d} : bundles'[e] = bundles[e]
  BY <1>1, <1>5, PartialTyped
<1>8. Settled(d)'
  BY <1>6 DEF Settled
<1>9. Sound'
  BY <1>2, <1>3, <1>5, <1>6, <1>7, <1>8, FreeTyped, OneBundle
<1> QED
  BY <1>5, <1>6, <1>7, <1>9, FreeTyped, FreeTold, BundleStep

\* accept_once numbers the new row; its key is new, its input the request's own, its
\* snapshot one that the request has just found settled.
LEMMA InsertsInv ==
    ASSUME SubInv, NEW t \in Threads, NEW r \in Runs, threads[t].pc = "accept", Inserts(t, r)
    PROVE  SubInv'
<1>1. SubTypes /\ KeysUnique /\ Told(threads[t]) /\ Sound /\ threads[t] \in Thread
  BY DEF SubInv, SubTypes
<1>2. PICK d : d = threads[t].skill
  OBVIOUS
<1>3. d \in Versions /\ Settled(d)
  BY <1>1, <1>2 DEF Sound, Relies, Relying
<1>4. PICK row : row = NewRow(threads[t])
  OBVIOUS
<1>5. NextSeq \in Nat
  BY <1>1, FS_CardinalityType DEF NextSeq, SubTypes
<1>6. /\ row \in Row /\ row.status = "QUEUED" /\ row.key = threads[t].key
      /\ row.input = threads[t].input /\ row.skill = d /\ row.root = root
  BY <1>1, <1>2, <1>3, <1>4, <1>5 DEF NewRow, Row, Thread, SubTypes
<1>7. /\ rows' = [rows EXCEPT ![r] = row] /\ WithKey(threads[t].key) = {} /\ ~Present(r)
      /\ threads[t].root = root
  BY <1>4 DEF Inserts
<1>8. /\ rows' \in [Runs -> Row] /\ rows'[r] = row
      /\ \A p \in Runs \ {r} : rows'[p] = rows[p]
  BY <1>1, <1>6, <1>7 DEF SubTypes
<1>9. Accepted' = Accepted \cup {r}
  BY <1>6, <1>8 DEF Accepted, Present
<1>10. PICK thread : thread = Answered(threads[t], r)
  OBVIOUS
<1>11. thread = [pc |-> "read", key |-> threads[t].key, input |-> threads[t].input,
                 root |-> threads[t].root, skill |-> None, todo |-> {}, run |-> r]
  BY <1>10 DEF Answered, Free
<1>12. thread \in Thread
  BY <1>1, <1>11 DEF Thread, ThreadPCs
<1>13. /\ Moves(t, thread) /\ root' = root /\ worker' = worker /\ transcript' = transcript
       /\ source' = source /\ bundles' = bundles /\ spoiled' = spoiled
  BY <1>10 DEF Inserts, bundleVars
<1>14. /\ threads' \in [Threads -> Thread] /\ threads'[t] = thread
       /\ \A u \in Threads \ {t} : threads'[u] = threads[u]
  BY <1>1, <1>12, <1>13, ThreadMoves DEF SubTypes
<1>15. SubTypes'
  <2>1. IsFiniteSet(Accepted')
    BY <1>1, <1>9, FS_AddElement DEF SubTypes
  <2>2. worker'.pc \in Busy => worker'.run \in Accepted'
    BY <1>1, <1>9, <1>13 DEF SubTypes
  <2> QED
    BY <1>1, <1>8, <1>13, <1>14, <2>1, <2>2 DEF SubTypes
<1>16. \A p \in Accepted : p # r /\ rows[p].key # threads[t].key
  BY <1>7 DEF WithKey, Accepted
<1>17. KeysUnique'
  BY <1>1, <1>6, <1>8, <1>9, <1>16 DEF KeysUnique, Accepted
<1>18. \A u \in Threads : Told(threads[u])'
  <2> SUFFICES ASSUME NEW u \in Threads PROVE Told(threads[u])'
    OBVIOUS
  <2>1. CASE u = t
    <3>1. threads'[u] = thread /\ root \in Roots
      BY <1>1, <1>14, <2>1 DEF SubTypes
    <3> QED
      BY <1>6, <1>7, <1>8, <1>9, <1>11, <3>1, SubmissionAssumption DEF Told
  <2>2. CASE u # t
    <3>1. Told(threads[u]) /\ threads'[u] = threads[u]
      BY <1>14, <2>2 DEF SubInv
    <3>2. threads[u].run # None => threads[u].run \in Accepted /\ rows'[threads[u].run] = rows[threads[u].run]
      BY <1>8, <1>16, <3>1 DEF Told, Accepted
    <3> QED
      BY <1>9, <3>1, <3>2 DEF Told
  <2> QED
    BY <2>1, <2>2
<1>19. \A e \in Versions : Settled(e) => Settled(e)'
  <2> SUFFICES ASSUME NEW e \in Versions, Settled(e) PROVE Settled(e)'
    OBVIOUS
  <2>1. e \in Copying => e \in Copying'
    <3> SUFFICES ASSUME e \in Copying PROVE e \in Copying'
      OBVIOUS
    <3>1. PICK u \in Threads : threads[u].pc = "copy" /\ threads[u].skill = e
      BY DEF Copying, Copiers
    <3>2. threads'[u] = threads[u]
      BY <1>14, <3>1
    <3> QED
      BY <3>1, <3>2 DEF Copying, Copiers
  <2> QED
    BY <1>13, <2>1 DEF Settled, Complete, Made
<1>20. Sound'
  <2>1. \A e \in Versions : Made(e)' => Settled(e)'
    BY <1>1, <1>13, <1>19 DEF Sound, Made
  <2>2. ASSUME NEW p \in Accepted'
        PROVE  rows'[p].skill \in Versions /\ \A e \in Versions : rows'[p].skill = e => Settled(e)'
    <3>1. CASE p = r
      BY <1>3, <1>6, <1>8, <1>19, <3>1
    <3>2. CASE p # r
      <4>1. p \in Accepted /\ rows'[p] = rows[p]
        BY <1>8, <1>9, <3>2 DEF Accepted
      <4> QED
        BY <1>1, <1>19, <4>1 DEF Sound
    <3> QED
      BY <3>1, <3>2
  <2>4. \A u \in Threads : threads'[u].pc \in Relying => threads'[u].skill \in Versions
    BY <1>1, <1>11, <1>14 DEF Sound, Relying
  <2>5. ASSUME NEW u \in Threads, NEW e \in Versions, threads'[u].skill = e
        PROVE  /\ threads'[u].pc = "accept" => Settled(e)'
               /\ threads'[u].pc = "copy" /\ e \notin spoiled' =>
                    \A f \in Files \ threads'[u].todo : bundles'[e].files[f] = e
    BY <1>1, <1>11, <1>13, <1>14, <1>19, <2>5 DEF Sound, Relies
  <2> QED
    BY <2>1, <2>2, <2>4, <2>5 DEF Sound, Relies
<1>21. Transcripts'
  BY <1>13, SameTranscript DEF SubInv
<1> QED
  BY <1>15, <1>17, <1>18, <1>20, <1>21 DEF SubInv

\* accept_once finds the key or inserts the row.
LEMMA AcceptsInv ==
    ASSUME SubInv, NEW t \in Threads, Accepts(t)
    PROVE  SubInv'
<1>1. threads[t].pc = "accept"
  BY DEF Accepts
<1>2. CASE \E r \in Runs : Answers(t, r)
  BY <1>1, <1>2, AnswersInv
<1>3. CASE \E r \in Runs : Inserts(t, r)
  BY <1>1, <1>3, InsertsInv
<1>4. CASE WrongBinding(t)
  BY <1>1, <1>4, GoesFree DEF WrongBinding
<1> QED
  BY <1>2, <1>3, <1>4 DEF Accepts

\* Every step of a request keeps the invariant.
LEMMA RequestStepInv ==
    ASSUME SubInv, NEW t \in Threads, RequestStep(t)
    PROVE  SubInv'
<1>1. CASE \E k \in Keys, i \in Inputs : Requests(t, k, i)
  BY <1>1, RequestsInv
<1>2. CASE \E f \in Files : Copies(t, f)
  BY <1>2, CopiesInv
<1>3. CASE \E f \in Files \cup {None} : CopyRaises(t, f)
  BY <1>3, CopyRaisesInv
<1>4. CASE Finds(t) \/ Digests(t) \/ Looks(t) \/ Removes(t) \/ RemoveRaises(t)
  BY <1>4, FindsInv, DigestsInv, LooksInv, RemovesInv, RemoveRaisesInv
<1>5. CASE Rechecks(t) \/ Makes(t) \/ Accepts(t) \/ ReadsBack(t) \/ Notes(t)
  BY <1>5, LooksInv, MakesInv, AcceptsInv, ReadsBackInv, NotesInv
<1> QED
  BY <1>1, <1>2, <1>3, <1>4, <1>5 DEF RequestStep

-----------------------------------------------------------------------------
\* The worker, a rebinding and an edit leave requests and snapshots alone, and of a row
\* only the status and the output change.
SameMessage(old, new) ==
    /\ new.status = "ABSENT" <=> old.status = "ABSENT"
    /\ new.seq = old.seq /\ new.key = old.key /\ new.input = old.input
    /\ new.skill = old.skill /\ new.root = old.root
LEMMA WorkerMoves ==
    ASSUME SubInv, threads' = threads, bundles' = bundles, spoiled' = spoiled,
           source' \in Versions, root' \in Roots, rows' \in [Runs -> Row],
           \A r \in Runs : SameMessage(rows[r], rows'[r]),
           worker' \in Worker, worker'.pc \in Busy => worker'.run \in Accepted,
           worker'.pc \in Bound => worker'.root \in Roots, Transcripts'
    PROVE  SubInv'
<1>1. SubTypes /\ KeysUnique /\ (\A t \in Threads : Told(threads[t])) /\ Sound
  BY DEF SubInv
<1>2. Accepted' = Accepted /\ Copying' = Copying /\ \A r \in Accepted : r \in Runs
  BY DEF Accepted, Present, Copying, Copiers, SameMessage
<1>3. SubTypes'
  BY <1>1, <1>2 DEF SubTypes
<1>4. KeysUnique'
  BY <1>1, <1>2 DEF KeysUnique, SameMessage
<1>5. \A t \in Threads : Told(threads[t])'
  BY <1>1, <1>2 DEF Told, SameMessage
<1>6. \A d \in Versions : (Settled(d) <=> Settled(d)') /\ (Made(d) <=> Made(d)')
  BY <1>2 DEF Settled, Complete, Made
<1>7. Sound'
  BY <1>1, <1>2, <1>6 DEF Sound, Relies, SameMessage
<1> QED
  BY <1>3, <1>4, <1>5, <1>7 DEF SubInv

\* A worker that has no message, and one that goes on with its own.
LEMMA OffTyped ==
    ASSUME NEW pc \in WorkerPCs
    PROVE  /\ Off(pc) \in Worker /\ Off(pc).pc = pc /\ Off(pc).run = None
           /\ Off(pc).root = None /\ Off(pc).todo = {}
  BY DEF Off, Worker
LEMMA WorkerOff ==
    ASSUME NEW pc \in WorkerPCs, pc \notin Busy, Turns(Off(pc))
    PROVE  /\ worker' \in Worker /\ worker'.pc = pc /\ worker'.todo = {}
           /\ worker'.pc \in Busy => worker'.run \in Accepted
           /\ worker'.pc \in Bound => worker'.root \in Roots
  BY OffTyped DEF Turns, Bound
LEMMA WorkerOn ==
    ASSUME SubTypes, worker.pc \in Busy, NEW pc \in Busy, GoesOn(pc),
           pc \in Bound => worker.pc \in Bound
    PROVE  /\ worker' \in Worker /\ worker'.pc = pc /\ worker'.run = worker.run
           /\ worker'.root = worker.root /\ worker'.todo = worker.todo
           /\ worker'.pc \in Busy => worker'.run \in Accepted
           /\ worker'.pc \in Bound => worker'.root \in Roots
<1>1. PICK row : row = [worker EXCEPT !.pc = pc]
  OBVIOUS
<1>2. pc \in WorkerPCs /\ worker \in Worker
  BY DEF SubTypes, Busy, WorkerPCs
<1>3. /\ row \in Worker /\ row.pc = pc /\ row.run = worker.run /\ row.root = worker.root
      /\ row.todo = worker.todo
  BY <1>1, <1>2 DEF Worker
<1>4. worker' = row
  BY <1>1 DEF GoesOn, Turns
<1> QED
  BY <1>3, <1>4 DEF SubTypes

\* A read that succeeds or raises.
LEMMA WorkerReads ==
    ASSUME SubTypes, worker.pc \in Busy, NEW r, NEW pc \in Busy, Reads(r, pc),
           pc \in Bound => worker.pc \in Bound
    PROVE  /\ worker' \in Worker
           /\ worker'.pc \in Busy => worker'.run \in Accepted
           /\ worker'.pc \in Bound => worker'.root \in Roots
<1>1. "dead" \in WorkerPCs /\ "dead" \notin Busy
  BY DEF WorkerPCs, Busy
<1> QED
  BY <1>1, WorkerOff, WorkerOn DEF Reads

\* One row changes, and stays the same message.
LEMMA RowChanges ==
    ASSUME rows \in [Runs -> Row], NEW r \in Runs, NEW status \in {"RUNNING", "ENDED"},
           NEW answer \in Roots \cup {None}, rows[r].status # "ABSENT",
           rows' = [rows EXCEPT ![r].status = status, ![r].answer = answer]
    PROVE  /\ rows' \in [Runs -> Row] /\ \A p \in Runs : SameMessage(rows[p], rows'[p])
           /\ rows'[r].answer = answer /\ \A p \in Runs \ {r} : rows'[p] = rows[p]
<1>1. PICK row : row = [rows[r] EXCEPT !.status = status, !.answer = answer]
  OBVIOUS
<1>2. rows[r] \in Row
  OBVIOUS
<1>3. /\ row \in Row /\ row.status = status /\ row.answer = answer /\ row.seq = rows[r].seq
      /\ row.key = rows[r].key /\ row.input = rows[r].input
      /\ row.skill = rows[r].skill /\ row.root = rows[r].root
  BY <1>1, <1>2 DEF Row
<1>4. rows' = [rows EXCEPT ![r] = row]
  BY <1>1
<1>5. rows' \in [Runs -> Row] /\ rows'[r] = row /\ \A p \in Runs \ {r} : rows'[p] = rows[p]
  BY <1>3, <1>4
<1> QED
  BY <1>3, <1>5 DEF SameMessage
LEMMA ClaimedRow ==
    ASSUME rows \in [Runs -> Row], NEW r \in Runs, Claims(r)
    PROVE  /\ rows' \in [Runs -> Row] /\ \A p \in Runs : SameMessage(rows[p], rows'[p])
           /\ rows'[r].answer = rows[r].answer /\ \A p \in Runs \ {r} : rows'[p] = rows[p]
<1>1. PICK row : row = [rows[r] EXCEPT !.status = "RUNNING"]
  OBVIOUS
<1>2. rows[r] \in Row /\ rows[r].status = "QUEUED"
  BY DEF Claims
<1>3. /\ row \in Row /\ row.status = "RUNNING" /\ row.answer = rows[r].answer
      /\ row.seq = rows[r].seq /\ row.key = rows[r].key /\ row.input = rows[r].input
      /\ row.skill = rows[r].skill /\ row.root = rows[r].root
  BY <1>1, <1>2 DEF Row
<1>4. rows' = [rows EXCEPT ![r] = row]
  BY <1>1 DEF Claims
<1>5. rows' \in [Runs -> Row] /\ rows'[r] = row /\ \A p \in Runs \ {r} : rows'[p] = rows[p]
  BY <1>3, <1>4
<1> QED
  BY <1>2, <1>3, <1>5 DEF SameMessage

\* What the worker does between claim and end, but for the rows and the transcript.
Reading == \/ ReadsClaimed \/ ReadsSession \/ LoadsSkill \/ ReadsHistory \/ ReadsToEnd
           \/ ReadsEnded
LEMMA ReadingInv ==
    ASSUME SubInv, Reading
    PROVE  SubInv'
<1>1. SubTypes
  BY DEF SubInv
<1>2. UNCHANGED <<rows, root, threads, bundleVars, transcript>>
  BY DEF Reading, ReadsClaimed, ReadsSession, LoadsSkill, ReadsHistory, ReadsToEnd, ReadsEnded, Fixed
<1>3. /\ "dead" \in WorkerPCs \ Busy /\ "idle" \in WorkerPCs \ Busy
      /\ {"session", "load", "history", "execute", "end", "result"} \subseteq Busy
  BY DEF WorkerPCs, Busy
<1>4. /\ worker' \in Worker /\ (worker'.pc \in Busy => worker'.run \in Accepted)
      /\ worker'.pc \in Bound => worker'.root \in Roots
  <2>1. CASE ReadsClaimed
    BY <1>1, <1>3, <2>1, WorkerReads DEF ReadsClaimed, Busy, Bound
  <2>2. CASE ReadsSession
    <3>1. worker.pc = "session" /\ worker \in Worker /\ worker.run \in Accepted /\ root \in Roots
      BY <1>1, <2>2 DEF ReadsSession, SubTypes, Busy
    <3>2. PICK row : row = [worker EXCEPT !.pc = "load", !.root = root]
      OBVIOUS
    <3>3. row \in Worker /\ row.run = worker.run /\ row.root = root
      BY <3>1, <3>2 DEF Worker, WorkerPCs
    <3>4. worker' = row
      BY <2>2, <3>2 DEF ReadsSession, Turns
    <3> QED
      BY <3>1, <3>3, <3>4
  <2>3. CASE LoadsSkill
    <3>1. worker.pc \in Busy /\ worker.pc \in Bound
      BY <2>3 DEF LoadsSkill, Busy, Bound
    <3>2. GoesOn("history") \/ GoesOn("execute") \/ Turns(Off("dead"))
      BY <2>3 DEF LoadsSkill
    <3> QED
      BY <1>1, <1>3, <3>1, <3>2, WorkerOn, WorkerOff
  <2>4. CASE ReadsHistory
    <3>1. worker.pc \in Busy /\ worker.pc \in Bound
      BY <2>4 DEF ReadsHistory, Busy, Bound
    <3>2. GoesOn("execute") \/ Turns(Off("dead"))
      BY <2>4 DEF ReadsHistory
    <3> QED
      BY <1>1, <1>3, <3>1, <3>2, WorkerOn, WorkerOff
  <2>5. CASE ReadsToEnd
    BY <1>1, <1>3, <2>5, WorkerReads DEF ReadsToEnd, Busy, Bound
  <2>6. CASE ReadsEnded
    <3>1. worker.pc \in Busy /\ worker.pc \in Bound
      BY <2>6 DEF ReadsEnded, Busy, Bound
    <3>2. Reads(worker.run, "result") \/ Turns(Off("idle"))
      BY <2>6 DEF ReadsEnded
    <3> QED
      BY <1>1, <1>3, <3>1, <3>2, WorkerReads, WorkerOff
  <2> QED
    BY <2>1, <2>2, <2>3, <2>4, <2>5, <2>6 DEF Reading
<1>5. \A r \in Runs : SameMessage(rows[r], rows'[r])
  BY <1>2 DEF SameMessage
<1>6. Transcripts'
  BY <1>2, SameTranscript DEF SubInv
<1> QED
  BY <1>1, <1>2, <1>4, <1>5, <1>6, WorkerMoves DEF SubTypes, bundleVars

\* Every step of the worker and of the projection at a start keeps the invariant.
LEMMA WorkerStepInv ==
    ASSUME SubInv, WorkerStep
    PROVE  SubInv'
<1>1. SubTypes /\ Transcripts
  BY DEF SubInv
<1>2. /\ rows \in [Runs -> Row] /\ root \in Roots /\ source \in Versions /\ worker \in Worker
      /\ \A r \in Accepted : r \in Runs /\ rows[r].status # "ABSENT"
  BY <1>1 DEF SubTypes, Accepted, Present
<1>3. {"idle", "dead", "down"} \subseteq WorkerPCs \ Busy /\ "project" \in WorkerPCs \ Busy
  BY DEF WorkerPCs, Busy
<1>4. rows' = rows => \A r \in Runs : SameMessage(rows[r], rows'[r])
  BY DEF SameMessage
<1>5. ASSUME NEW r \in Runs, Claims(r) PROVE SubInv'
  <2>1. /\ Turns([Off("claimed") EXCEPT !.run = r])
        /\ UNCHANGED <<root, threads, bundleVars, transcript>>
    BY <1>5 DEF Claims, Fixed
  <2>2. PICK row : row = [Off("claimed") EXCEPT !.run = r]
    OBVIOUS
  <2>3. row = [pc |-> "claimed", run |-> r, root |-> None, todo |-> {}]
    BY <2>2 DEF Off
  <2>4. worker' \in Worker /\ worker'.run = r /\ worker'.pc \notin Bound
    BY <2>1, <2>2, <2>3 DEF Turns, Worker, WorkerPCs, Bound
  <2>5. r \in Accepted
    BY <1>5 DEF Claims, Accepted, Present
  <2>6. Transcripts'
    BY <1>1, <2>1, SameTranscript
  <2> QED
    BY <1>2, <1>5, <2>1, <2>4, <2>5, <2>6, ClaimedRow, WorkerMoves DEF bundleVars
<1>6. ASSUME NEW output \in {None, root}, Finishes(output) PROVE SubInv'
  <2>1. worker.pc = "end" /\ worker.run \in Accepted
    BY <1>1, <1>6 DEF Finishes, SubTypes, Busy
  <2>2. PICK r \in Runs : r = worker.run /\ rows[r].status # "ABSENT"
    BY <1>2, <2>1
  <2>3. /\ rows' = [rows EXCEPT ![r].status = "ENDED", ![r].answer = output]
        /\ GoesOn("ended") /\ UNCHANGED <<root, threads, bundleVars, transcript>>
    BY <1>6, <2>2 DEF Finishes, Fixed
  <2>4. output \in Roots \cup {None}
    BY <1>2
  <2>5. rows' \in [Runs -> Row] /\ \A p \in Runs : SameMessage(rows[p], rows'[p])
    BY <1>2, <2>2, <2>3, <2>4, RowChanges
  <2>6. /\ worker' \in Worker /\ (worker'.pc \in Busy => worker'.run \in Accepted)
        /\ worker'.pc \in Bound => worker'.root \in Roots
    BY <1>1, <2>1, <2>3, WorkerOn DEF Busy, Bound
  <2>7. Transcripts'
    BY <1>1, <2>3, SameTranscript
  <2> QED
    BY <1>2, <2>3, <2>5, <2>6, <2>7, WorkerMoves DEF bundleVars
<1>7. CASE WritesAnswer
  <2>1. worker.run \in Runs /\ worker.root \in Roots
    BY <1>1, <1>2, <1>7 DEF WritesAnswer, SubTypes, Busy, Bound
  <2>2. PICK record : record = Answer(worker.run)
    OBVIOUS
  <2>3. record \in Record
    BY <2>1, <2>2 DEF Answer, Record
  <2>4. /\ Appends(worker.root, record) \/ transcript' = transcript
        /\ Turns(Off("idle")) \/ Turns(Off("dead"))
        /\ UNCHANGED <<rows, root, threads, bundleVars>>
    BY <1>7, <2>2 DEF WritesAnswer, Fixed
  <2>5. Transcripts'
    BY <1>1, <2>1, <2>3, <2>4, AppendsOnce, SameTranscript
  <2>6. /\ worker' \in Worker /\ (worker'.pc \in Busy => worker'.run \in Accepted)
        /\ worker'.pc \in Bound => worker'.root \in Roots
    BY <1>3, <2>4, WorkerOff
  <2> QED
    BY <1>2, <1>4, <2>4, <2>5, <2>6, WorkerMoves DEF bundleVars
<1>8. CASE Starts
  <2>1. UNCHANGED <<rows, root, threads, bundleVars, transcript>>
    BY <1>8 DEF Starts, Fixed
  <2>2. PICK todo \in SUBSET Record : worker' = [Off("project") EXCEPT !.todo = todo]
    <3>1. Expected \subseteq Record
      BY <1>2 DEF Expected, RecordsOf, User, Answer, Record
    <3> QED
      BY <1>8, <3>1 DEF Starts, Turns, ToProject
  <2>3. worker' = [pc |-> "project", run |-> None, root |-> None, todo |-> todo]
    BY <2>2 DEF Off
  <2>4. worker' \in Worker /\ worker'.pc \notin Busy /\ worker'.pc \notin Bound
    BY <2>3 DEF Worker, WorkerPCs, Busy, Bound
  <2>5. Transcripts'
    BY <1>1, <2>1, SameTranscript
  <2> QED
    BY <1>2, <1>4, <2>1, <2>4, <2>5, WorkerMoves DEF bundleVars
<1>9. ASSUME NEW record \in Record, Projects(record) PROVE SubInv'
  <2>1. worker.pc = "project" /\ UNCHANGED <<rows, root, threads, bundleVars>>
    BY <1>9 DEF Projects, Fixed
  <2>2. Transcripts'
    BY <1>1, <1>2, <1>9, AppendsOnce, SameTranscript DEF Projects
  <2>3. /\ worker' \in Worker /\ (worker'.pc \in Busy => worker'.run \in Accepted)
        /\ worker'.pc \in Bound => worker'.root \in Roots
    <3>1. CASE Turns([worker EXCEPT !.todo = @ \ {record}])
      <4>1. PICK row : row = [worker EXCEPT !.todo = @ \ {record}]
        OBVIOUS
      <4>2. row \in Worker /\ row.pc = "project"
        BY <1>2, <2>1, <4>1 DEF Worker
      <4>3. worker' = row
        BY <3>1, <4>1 DEF Turns
      <4> QED
        BY <4>2, <4>3 DEF Busy, Bound
    <3>2. CASE Turns(Off("down"))
      BY <1>3, <3>2, WorkerOff
    <3> QED
      BY <1>9, <3>1, <3>2 DEF Projects
  <2> QED
    BY <1>2, <1>4, <2>1, <2>2, <2>3, WorkerMoves DEF bundleVars
<1>10. CASE Serves
  <2>1. UNCHANGED <<rows, root, threads, bundleVars, transcript>> /\ Turns(Off("idle"))
    BY <1>10 DEF Serves, Fixed
  <2>2. /\ worker' \in Worker /\ (worker'.pc \in Busy => worker'.run \in Accepted)
        /\ worker'.pc \in Bound => worker'.root \in Roots
    BY <1>3, <2>1, WorkerOff
  <2>3. Transcripts'
    BY <1>1, <2>1, SameTranscript
  <2> QED
    BY <1>2, <1>4, <2>1, <2>2, <2>3, WorkerMoves DEF bundleVars
<1>11. CASE Reading
  BY <1>11, ReadingInv
<1> QED
  BY <1>5, <1>6, <1>7, <1>8, <1>9, <1>10, <1>11 DEF WorkerStep, Reading

\* What somebody is about to append, and where, is a record and a root.
LEMMA AppendingTyped ==
    ASSUME SubInv, NEW append \in Appending
    PROVE  append[1] \in Roots /\ append[2] \in Record
<1>1. SubTypes /\ \A t \in Threads : Told(threads[t])
  BY DEF SubInv
<1>2. CASE \E t \in Threads : threads[t].pc = "note" /\ append = <<threads[t].root, User(threads[t].run)>>
  BY <1>1, <1>2 DEF Told, Accepted, User, Record
<1>3. CASE worker.pc = "result" /\ append = <<worker.root, Answer(worker.run)>>
  BY <1>1, <1>3 DEF SubTypes, Busy, Bound, Accepted, Answer, Record
<1>4. CASE append \in {root} \X Next1(worker.todo)
  BY <1>1, <1>4 DEF SubTypes, Worker, Next1
<1> QED
  BY <1>2, <1>3, <1>4 DEF Appending

\* The process dies: snapshots may stay half copied, a line half written.
LEMMA DiesInv ==
    ASSUME SubInv, Dies
    PROVE  SubInv'
<1>1. SubTypes /\ KeysUnique /\ Sound /\ Transcripts
  BY DEF SubInv
<1>2. PICK cut \in [Copiers -> Files \cup {None}] :
             LeavesPartial({<<threads[t].skill, cut[t]>> : t \in Copiers})
  BY DEF Dies
<1>3. PICK cuts : cuts = {<<threads[t].skill, cut[t]>> : t \in Copiers}
  OBVIOUS
<1>4. LeavesPartial(cuts) /\ {c[1] : c \in cuts} = Copying
  <2>1. \A c \in cuts : c[1] \in Copying
    BY <1>3 DEF Copying
  <2>2. ASSUME NEW d \in Copying PROVE \E c \in cuts : c[1] = d
    <3>1. PICK t \in Copiers : threads[t].skill = d
      BY DEF Copying
    <3>2. <<threads[t].skill, cut[t]>> \in cuts /\ <<threads[t].skill, cut[t]>>[1] = d
      BY <1>3, <3>1
    <3> QED
      BY <3>2
  <2>3. LeavesPartial(cuts)
    BY <1>2, <1>3
  <2> QED
    BY <2>1, <2>2, <2>3
<1>5. /\ rows' = rows /\ root' = root /\ source' = source /\ spoiled' = spoiled \cup Copying
      /\ Accepted' = Accepted /\ threads' = [t \in Threads |-> Free] /\ Turns(Off("down"))
  BY <1>4 DEF Dies, LeavesPartial, Accepted, Present
<1>6. /\ bundles' \in [Versions -> BundleType]
      /\ \A d \in Versions : d \notin Copying => bundles'[d] = bundles[d]
  BY <1>1, <1>4, PartialTyped
<1>7. Transcripts'
  BY <1>1, AppendingTyped, AppendsOnce, SameTranscript DEF Dies
<1>8. worker' \in Worker /\ worker'.pc \notin Busy /\ worker'.pc \notin Bound
  BY <1>5, WorkerOff DEF Busy, Bound, WorkerPCs
<1>9. threads' \in [Threads -> Thread] /\ \A t \in Threads : threads'[t] = Free
  BY <1>5, FreeTyped
<1>10. SubTypes'
  BY <1>1, <1>5, <1>6, <1>8, <1>9 DEF SubTypes
<1>11. KeysUnique'
  BY <1>1, <1>5 DEF KeysUnique
<1>12. \A t \in Threads : Told(threads[t])'
  BY <1>9, FreeTyped DEF Told
<1>13. \A d \in Versions : (Settled(d) => Settled(d)') /\ (Made(d)' => Made(d) \/ Settled(d)')
  BY <1>5, <1>6 DEF Settled, Complete, Made
<1>14. Sound'
  BY <1>1, <1>5, <1>9, <1>13, FreeTyped DEF Sound, Relies, Relying
<1> QED
  BY <1>7, <1>10, <1>11, <1>12, <1>14 DEF SubInv

\* Every step keeps the invariant.
LEMMA SubStep == SubInv /\ [SubNext]_subVars => SubInv'
<1> SUFFICES ASSUME SubInv, [SubNext]_subVars PROVE SubInv'
  OBVIOUS
<1>1. /\ rows \in [Runs -> Row] /\ root \in Roots /\ source \in Versions /\ worker \in Worker
      /\ worker.pc \in Busy => worker.run \in Accepted
      /\ worker.pc \in Bound => worker.root \in Roots
      /\ \A r \in Runs : SameMessage(rows[r], rows[r])
      /\ transcript' = transcript => Transcripts'
  BY SameTranscript DEF SubInv, SubTypes, SameMessage
<1>2. CASE UNCHANGED subVars
  BY <1>1, <1>2, WorkerMoves DEF subVars, bundleVars
<1>3. CASE \E t \in Threads : RequestStep(t)
  BY <1>3, RequestStepInv
<1>4. ASSUME NEW place \in Roots, Rebinds(place) PROVE SubInv'
  <2>1. root' = place /\ UNCHANGED <<rows, threads, worker, transcript, bundleVars>>
    BY <1>4 DEF Rebinds
  <2> QED
    BY <1>1, <2>1, WorkerMoves DEF bundleVars
<1>5. CASE AuthorEdits
  <2>1. source' \in Versions /\ UNCHANGED <<bundles, spoiled, rows, root, worker, transcript, threads>>
    BY <1>5 DEF AuthorEdits, Edits
  <2> QED
    BY <1>1, <2>1, WorkerMoves
<1> QED
  BY <1>2, <1>3, <1>4, <1>5, WorkerStepInv, DiesInv DEF SubNext

-----------------------------------------------------------------------------
\* What a step of a request leaves alone.  Only accept_once writes a row, only the last
\* step of a request writes a line, and nobody asks while the process is down.
LEMMA RequestFrame ==
    ASSUME SubInv, NEW t \in Threads, RequestStep(t)
    PROVE  /\ \A u \in Threads \ {t} : threads'[u] = threads[u]
           /\ worker' = worker /\ root' = root /\ (faults' = faults \/ Happens("copied"))
           /\ Notes(t) \/ (threads[t].pc # "note" /\ transcript' = transcript)
           /\ threads[t].pc = "read" => ReadsBack(t)
           /\ rows' = rows \/ (threads[t].pc = "accept" /\ \E r \in Runs : Inserts(t, r))
           /\ threads[t].pc = "idle" => worker.pc \notin {"down", "project"}
<1>1. threads \in [Threads -> Thread]
  BY DEF SubInv, SubTypes
<1>2. ASSUME NEW thread, Moves(t, thread) PROVE \A u \in Threads \ {t} : threads'[u] = threads[u]
  BY <1>1, <1>2 DEF Moves
<1>3. ASSUME NEW pc, Goes(t, pc) PROVE \A u \in Threads \ {t} : threads'[u] = threads[u]
  BY <1>2, <1>3 DEF Goes
<1>4. ASSUME NEW r \in Runs, Answers(t, r)
      PROVE  (\A u \in Threads \ {t} : threads'[u] = threads[u]) /\ UNCHANGED Rest
  BY <1>2, <1>4 DEF Answers
<1>5. CASE \E k \in Keys, i \in Inputs : Requests(t, k, i)
  BY <1>2, <1>5 DEF Requests
<1>6. CASE Finds(t)
  BY <1>3, <1>4, <1>6 DEF Finds, Rest, Tables
<1>7. CASE Digests(t) \/ Makes(t) \/ RemoveRaises(t) \/ \E f \in Files : Copies(t, f)
  BY <1>2, <1>7 DEF Digests, Makes, RemoveRaises, Copies, Rest, Tables
<1>8. CASE Looks(t) \/ Removes(t) \/ Rechecks(t)
  BY <1>3, <1>8 DEF Looks, Removes, Rechecks, Rest, Tables
<1>9. CASE Accepts(t)
  <2>1. CASE \E r \in Runs : Inserts(t, r)
    BY <1>2, <1>9, <2>1 DEF Accepts, Inserts
  <2>2. CASE WrongBinding(t)
    BY <1>2, <1>9, <2>2 DEF Accepts, WrongBinding, Rest, Tables
  <2>3. CASE \E r \in Runs : Answers(t, r)
    BY <1>4, <1>9, <2>3 DEF Accepts, Rest, Tables
  <2> QED
    BY <1>9, <2>1, <2>2, <2>3 DEF Accepts
<1>10. CASE Notes(t)
  BY <1>2, <1>10 DEF Notes, Tables
<1>11. CASE ReadsBack(t)
  <2>1. Goes(t, "note") \/ Moves(t, Free)
    BY <1>11 DEF ReadsBack
  <2> QED
    BY <1>2, <1>3, <1>11, <2>1 DEF ReadsBack, Rest, Tables
<1>12. CASE \E f \in Files \cup {None} : CopyRaises(t, f)
  BY <1>2, <1>12 DEF CopyRaises
<1> QED
  BY <1>5, <1>6, <1>7, <1>8, <1>9, <1>10, <1>11, <1>12 DEF RequestStep

\* The row of an accepted message.
LEMMA InsertedRow ==
    ASSUME SubInv, NEW t \in Threads, NEW r \in Runs, Inserts(t, r)
    PROVE  /\ Accepted' = Accepted \cup {r} /\ r \notin Accepted
           /\ rows'[r].seq = Cardinality(Accepted) + 1
           /\ rows'[r].root = root /\ rows'[r].answer = None
           /\ \A p \in Runs \ {r} : rows'[p] = rows[p]
           /\ threads'[t].pc = "read" /\ threads'[t].run = r
<1>1. rows \in [Runs -> Row] /\ threads \in [Threads -> Thread]
  BY DEF SubInv, SubTypes
<1>2. PICK row : row = NewRow(threads[t])
  OBVIOUS
<1>3. /\ row.status = "QUEUED" /\ row.seq = Cardinality(Accepted) + 1 /\ row.root = root
      /\ row.answer = None
  BY <1>2 DEF NewRow, NextSeq
<1>4. rows' = [rows EXCEPT ![r] = row] /\ ~Present(r)
  BY <1>2 DEF Inserts
<1>5. rows'[r] = row /\ \A p \in Runs \ {r} : rows'[p] = rows[p]
  BY <1>1, <1>4
<1>6. Accepted' = Accepted \cup {r} /\ r \notin Accepted
  BY <1>3, <1>4, <1>5 DEF Accepted, Present
<1>7. PICK thread : thread = Answered(threads[t], r)
  OBVIOUS
<1>8. thread.pc = "read" /\ thread.run = r
  BY <1>7 DEF Answered, Free
<1>9. threads'[t] = thread
  BY <1>1, <1>7 DEF Inserts, Moves
<1> QED
  BY <1>3, <1>5, <1>6, <1>8, <1>9

\* A worker's step changes nothing of a row but its status, and its output when it ends.
LEMMA WorkerFrame ==
    ASSUME SubInv, WorkerStep
    PROVE  /\ UNCHANGED <<root, faults, threads, bundleVars>>
           /\ Accepted' = Accepted /\ \A r \in Runs : SameMessage(rows[r], rows'[r])
           /\ \/ \A r \in Runs : rows'[r].answer = rows[r].answer
              \/ /\ \E output \in {None, root} : Finishes(output)
                 /\ \A r \in Runs \ {worker.run} : rows'[r] = rows[r]
                 /\ rows'[worker.run].answer \in {None, root}
<1>1. /\ rows \in [Runs -> Row] /\ root \in Roots
      /\ worker.pc \in Busy => worker.run \in Accepted
  BY DEF SubInv, SubTypes
<1>2. UNCHANGED <<root, faults, threads, bundleVars>>
  BY DEF WorkerStep, Fixed, Claims, ReadsClaimed, ReadsSession, LoadsSkill, ReadsHistory,
         ReadsToEnd, Finishes, ReadsEnded, WritesAnswer, Starts, Projects, Serves
<1>3. (\A r \in Runs : SameMessage(rows[r], rows'[r])) => Accepted' = Accepted
  BY DEF SameMessage, Accepted, Present
<1>4. CASE rows' = rows
  BY <1>2, <1>3, <1>4 DEF SameMessage
<1>5. ASSUME NEW r \in Runs, Claims(r)
      PROVE  /\ \A p \in Runs : SameMessage(rows[p], rows'[p])
             /\ \A p \in Runs : rows'[p].answer = rows[p].answer
  BY <1>1, <1>5, ClaimedRow
<1>6. ASSUME NEW output \in {None, root}, Finishes(output)
      PROVE  /\ \A p \in Runs : SameMessage(rows[p], rows'[p])
             /\ \A p \in Runs \ {worker.run} : rows'[p] = rows[p]
             /\ rows'[worker.run].answer \in {None, root}
  <2>1. PICK r \in Runs : r = worker.run /\ rows[r].status # "ABSENT"
    BY <1>1, <1>6 DEF Finishes, Busy, Accepted, Present
  <2>2. rows' = [rows EXCEPT ![r].status = "ENDED", ![r].answer = output]
    BY <1>6, <2>1 DEF Finishes
  <2>3. output \in Roots \cup {None}
    BY <1>1
  <2> QED
    BY <1>1, <2>1, <2>2, <2>3, RowChanges
<1>7. rows' = rows \/ (\E r \in Runs : Claims(r)) \/ \E output \in {None, root} : Finishes(output)
  BY DEF WorkerStep, ReadsClaimed, ReadsSession, LoadsSkill, ReadsHistory, ReadsToEnd, ReadsEnded,
         WritesAnswer, Starts, Projects, Serves
<1> QED
  BY <1>2, <1>3, <1>4, <1>5, <1>6, <1>7

-----------------------------------------------------------------------------
\* The rest of the types, and where the bodies of messages are: as long as nobody has
\* rebound the workspace, under its root.
AtHome ==
    faults.moved = 0 => /\ \A r \in Accepted : Readable(r)
                        /\ worker.pc \in Bound => worker.root = root
Faults == [died : Nat, moved : Nat, copied : Nat]
CountInv ==
    /\ faults \in Faults
    /\ spoiled \subseteq Versions
    /\ {rows[r].seq : r \in Accepted} = 1..Cardinality(Accepted)
    /\ AtHome

\* Nothing is numbered, spoiled or moved yet.
LEMMA CountInit == SubInit => CountInv
<1> SUFFICES ASSUME SubInit PROVE CountInv
  OBVIOUS
<1>1. Accepted = {}
  BY DEF SubInit, Accepted, Present, NoRow
<1>2. Cardinality(Accepted) = 0
  BY <1>1, FS_EmptySet
<1>3. worker.pc \notin Bound
  BY DEF SubInit, Off, Bound, Busy
<1> QED
  BY <1>1, <1>2, <1>3 DEF SubInit, BundleInit, CountInv, AtHome, Faults, NoFaults

\* Nobody writes a row, or only a status and an output under the root of now.
LEMMA CountStays ==
    ASSUME SubInv, CountInv, Accepted' = Accepted,
           \A r \in Runs : SameMessage(rows[r], rows'[r]),
           \A r \in Runs : rows'[r].answer \in {rows[r].answer, None, root},
           faults' \in Faults, spoiled' \subseteq Versions,
           faults'.moved = 0 => /\ faults.moved = 0 /\ root' = root
                                /\ worker'.pc \in Bound =>
                                     \/ worker'.root = root
                                     \/ worker.pc \in Bound /\ worker'.root = worker.root
    PROVE  CountInv'
<1>1. Accepted \subseteq Runs
  BY DEF Accepted
<1>2. {rows'[r].seq : r \in Accepted'} = 1..Cardinality(Accepted')
  BY <1>1 DEF CountInv, SameMessage
<1>3. AtHome'
  BY <1>1 DEF CountInv, AtHome, Readable, SameMessage
<1> QED
  BY <1>2, <1>3 DEF CountInv

\* What has happened is counted, and a rebinding is not undone.
LEMMA HappensTyped ==
    ASSUME faults \in Faults, NEW fault \in {"died", "moved", "copied"}, Happens(fault)
    PROVE  /\ faults' \in Faults
           /\ faults'.moved = 0 => faults.moved = 0 /\ fault # "moved"
<1>1. faults' = [faults EXCEPT ![fault] = @ + 1]
  BY DEF Happens
<1>2. CASE fault = "died"
  BY <1>1, <1>2 DEF Faults
<1>3. CASE fault = "moved"
  BY <1>1, <1>3 DEF Faults
<1>4. CASE fault = "copied"
  BY <1>1, <1>4 DEF Faults
<1> QED
  BY <1>2, <1>3, <1>4

\* accept_once gives the next number, and a body in the place of now.
LEMMA CountInserts ==
    ASSUME SubInv, CountInv, NEW t \in Threads, NEW r \in Runs, Inserts(t, r)
    PROVE  CountInv'
<1>1. /\ Accepted' = Accepted \cup {r} /\ r \notin Accepted
      /\ rows'[r].seq = Cardinality(Accepted) + 1
      /\ rows'[r].root = root /\ rows'[r].answer = None
      /\ \A p \in Runs \ {r} : rows'[p] = rows[p]
  BY InsertedRow
<1>2. IsFiniteSet(Accepted) /\ Accepted \subseteq Runs
  BY DEF SubInv, SubTypes, Accepted
<1>3. PICK n \in Nat : n = Cardinality(Accepted)
  BY <1>2, FS_CardinalityType
<1>4. Cardinality(Accepted') = n + 1
  BY <1>1, <1>2, <1>3, FS_AddElement
<1>5. {rows[p].seq : p \in Accepted} = 1..n
  BY <1>3 DEF CountInv
<1>6. \A p \in Accepted : rows'[p] = rows[p]
  BY <1>1, <1>2
<1>7. {rows'[p].seq : p \in Accepted'} = {rows[p].seq : p \in Accepted} \cup {n + 1}
  BY <1>1, <1>3, <1>6
<1>8. 1..n + 1 = (1..n) \cup {n + 1}
  BY <1>3
<1>9. root' = root /\ faults' = faults /\ spoiled' = spoiled /\ worker' = worker
  BY DEF Inserts, bundleVars
<1>10. AtHome'
  BY <1>1, <1>6, <1>9 DEF CountInv, AtHome, Readable
<1> QED
  BY <1>4, <1>5, <1>7, <1>8, <1>9, <1>10 DEF CountInv

\* Only snapshots that some request asked for are spoiled.
LEMMA SpoiledVersions ==
    ASSUME SubInv, CountInv, NEW t \in Threads, RequestStep(t)
    PROVE  spoiled' \subseteq Versions
<1>1. threads[t].pc \in Relying => threads[t].skill \in Versions
  BY DEF SubInv, Sound
<1>2. spoiled \subseteq Versions
  BY DEF CountInv
<1>3. CASE Removes(t)
  BY <1>1, <1>2, <1>3 DEF Removes, RemovesBundle, Relying
<1>4. CASE \E f \in Files : Copies(t, f)
  BY <1>1, <1>2, <1>4 DEF Copies, CopiesFile, Relying
<1>5. CASE Makes(t)
  BY <1>2, <1>5 DEF Makes, MakesBundle
<1>6. CASE Accepts(t)
  BY <1>2, <1>6 DEF Accepts, Answers, Inserts, WrongBinding, bundleVars
<1>7. CASE Finds(t) \/ Digests(t) \/ Looks(t) \/ RemoveRaises(t) \/ Rechecks(t)
  BY <1>2, <1>7 DEF Finds, Answers, Digests, Looks, RemoveRaises, Rechecks, bundleVars
<1>8. CASE ReadsBack(t) \/ Notes(t) \/ \E k \in Keys, i \in Inputs : Requests(t, k, i)
  BY <1>2, <1>8 DEF ReadsBack, Notes, Requests, bundleVars
<1>9. ASSUME NEW f, CopyRaises(t, f) PROVE spoiled' \subseteq Versions
  <2>1. spoiled' = spoiled \cup {threads[t].skill} /\ threads[t].pc = "copy"
    BY <1>9 DEF CopyRaises, LeavesPartial
  <2> QED
    BY <1>1, <1>2, <2>1 DEF Relying
<1> QED
  BY <1>3, <1>4, <1>5, <1>6, <1>7, <1>8, <1>9 DEF RequestStep

\* The worker binds itself to the root of now.
LEMMA WorkerBinds ==
    ASSUME SubInv, WorkerStep, worker'.pc \in Bound
    PROVE  worker'.root = root \/ (worker.pc \in Bound /\ worker'.root = worker.root)
<1>1. worker \in Worker
  BY DEF SubInv, SubTypes
<1>2. ASSUME NEW pc, GoesOn(pc) PROVE worker'.root = worker.root /\ worker'.pc = pc
  BY <1>1, <1>2 DEF GoesOn, Turns, Worker
<1>3. ASSUME NEW pc, Turns(Off(pc)), pc \notin Bound PROVE FALSE
  BY <1>3 DEF Turns, Off
<1>4. {"idle", "dead", "down", "claimed", "session", "project"} \cap Bound = {}
  BY DEF Bound, Busy
<1>5. CASE ReadsClaimed
  BY <1>2, <1>3, <1>4, <1>5 DEF ReadsClaimed, Reads
<1>6. CASE ReadsSession
  BY <1>1, <1>6 DEF ReadsSession, Turns, Worker
<1>7. CASE LoadsSkill \/ ReadsHistory
  BY <1>2, <1>3, <1>4, <1>7 DEF LoadsSkill, ReadsHistory, Bound, Busy
<1>8. CASE ReadsToEnd \/ ReadsEnded
  BY <1>2, <1>3, <1>4, <1>8 DEF ReadsToEnd, ReadsEnded, Reads, Bound, Busy
<1>9. CASE \E output \in {None, root} : Finishes(output)
  BY <1>2, <1>9 DEF Finishes, Bound, Busy
<1>10. CASE WritesAnswer \/ Serves
  BY <1>3, <1>4, <1>10 DEF WritesAnswer, Serves
<1>11. CASE \E r \in Runs : Claims(r)
  BY <1>4, <1>11 DEF Claims, Turns, Off
<1>12. CASE Starts
  BY <1>4, <1>12 DEF Starts, Turns, Off
<1>13. CASE \E record \in Record : Projects(record)
  <2>1. PICK record \in Record : Projects(record)
    BY <1>13
  <2>2. worker.pc = "project" /\ (Turns([worker EXCEPT !.todo = @ \ {record}]) \/ Turns(Off("down")))
    BY <2>1 DEF Projects
  <2> QED
    BY <1>1, <1>3, <1>4, <2>2 DEF Turns, Worker
<1> QED
  BY <1>5, <1>6, <1>7, <1>8, <1>9, <1>10, <1>11, <1>12, <1>13 DEF WorkerStep

\* Every step keeps the numbering and the places of the bodies.
LEMMA CountStep == SubInv /\ CountInv /\ [SubNext]_subVars => CountInv'
<1> SUFFICES ASSUME SubInv, CountInv, [SubNext]_subVars PROVE CountInv'
  OBVIOUS
<1>1. faults \in Faults /\ spoiled \subseteq Versions
  BY DEF CountInv
<1>2. rows' = rows => /\ Accepted' = Accepted /\ \A r \in Runs : SameMessage(rows[r], rows'[r])
                      /\ \A r \in Runs : rows'[r].answer = rows[r].answer
  BY DEF Accepted, Present, SameMessage
<1>3. CASE UNCHANGED subVars
  BY <1>1, <1>2, <1>3, CountStays DEF subVars, bundleVars
<1>4. ASSUME NEW t \in Threads, RequestStep(t) PROVE CountInv'
  <2>1. CASE \E r \in Runs : Inserts(t, r)
    BY <2>1, CountInserts
  <2>2. CASE rows' = rows
    <3>1. root' = root /\ worker' = worker /\ (faults' = faults \/ Happens("copied"))
      BY <1>4, RequestFrame
    <3>2. faults' \in Faults /\ (faults'.moved = 0 => faults.moved = 0)
      BY <1>1, <3>1, HappensTyped
    <3> QED
      BY <1>2, <1>4, <2>2, <3>1, <3>2, SpoiledVersions, CountStays
  <2> QED
    BY <1>4, <2>1, <2>2, RequestFrame
<1>5. CASE WorkerStep
  <2>1. /\ UNCHANGED <<root, faults, spoiled>> /\ Accepted' = Accepted
        /\ \A r \in Runs : SameMessage(rows[r], rows'[r])
        /\ \A r \in Runs : rows'[r].answer \in {rows[r].answer, None, root}
    BY <1>5, WorkerFrame DEF bundleVars
  <2>2. worker'.pc \in Bound => worker'.root = root \/ (worker.pc \in Bound /\ worker'.root = worker.root)
    BY <1>5, WorkerBinds
  <2> QED
    BY <1>1, <2>1, <2>2, CountStays
<1>6. CASE Dies
  <2>1. Copying \subseteq Versions
    BY DEF SubInv, Sound, Copying, Copiers, Relying
  <2>2. PICK cut : LeavesPartial({<<threads[t].skill, cut[t]>> : t \in Copiers})
    BY <1>6 DEF Dies
  <2>3. spoiled' \subseteq spoiled \cup Copying
    BY <2>2 DEF LeavesPartial, Copying
  <2>4. rows' = rows /\ root' = root /\ Happens("died") /\ worker'.pc \notin Bound
    BY <1>6 DEF Dies, Turns, Off, Bound, Busy
  <2> QED
    BY <1>1, <1>2, <2>1, <2>3, <2>4, HappensTyped, CountStays
<1>7. CASE \E place \in Roots : Rebinds(place)
  <2>1. rows' = rows /\ spoiled' = spoiled /\ Happens("moved")
    BY <1>7 DEF Rebinds, bundleVars
  <2> QED
    BY <1>1, <1>2, <2>1, HappensTyped, CountStays
<1>8. CASE AuthorEdits
  <2>1. rows' = rows /\ root' = root /\ worker' = worker /\ spoiled' = spoiled /\ Happens("copied")
    BY <1>8 DEF AuthorEdits, Edits
  <2> QED
    BY <1>1, <1>2, <2>1, HappensTyped, CountStays
<1> QED
  BY <1>3, <1>4, <1>5, <1>6, <1>7, <1>8 DEF SubNext

-----------------------------------------------------------------------------
\* Who is where: nobody asks before the process serves, an output that is being appended
\* exists, and only a start has records to project.
Stations ==
    /\ worker.pc \in {"down", "project"} => \A t \in Threads : threads[t].pc = "idle"
    /\ worker.pc = "result" => Answer(worker.run) \in Expected
    /\ worker.todo \subseteq Expected
    /\ worker.pc # "project" => worker.todo = {}

\* A record that is due is an input of an accepted message, or an output.
LEMMA ExpectedRecords ==
    \A record : record \in Expected <=>
        \E r \in Accepted : \/ record = User(r)
                            \/ rows[r].answer # None /\ record = Answer(r)
  BY DEF Expected, RecordsOf
LEMMA OwnRecords ==
    ASSUME NEW r, NEW p
    PROVE  /\ User(r) # Answer(p) /\ (User(r) = User(p) => r = p) /\ (Answer(r) = Answer(p) => r = p)
           /\ r \in Runs => User(r) \in Record /\ Answer(r) \in Record
  BY DEF User, Answer, Record
LEMMA StationsInit == SubInit => Stations
  BY DEF SubInit, Stations, Off

\* A request takes no record away, and adds but the input of the message it inserts.
LEMMA RequestExpects ==
    ASSUME SubInv, NEW t \in Threads, RequestStep(t)
    PROVE  /\ Expected \subseteq Expected'
           /\ \A record \in Expected' \ Expected :
                threads[t].pc = "accept" /\ threads'[t].pc = "read" /\ record = User(threads'[t].run)
<1>1. CASE rows' = rows
  BY <1>1, ExpectedRecords DEF Expected, RecordsOf, Accepted, Present
<1>2. CASE threads[t].pc = "accept" /\ \E r \in Runs : Inserts(t, r)
  <2>1. PICK r \in Runs : Inserts(t, r)
    BY <1>2
  <2>2. /\ Accepted' = Accepted \cup {r} /\ r \notin Accepted /\ rows'[r].answer = None
        /\ \A p \in Runs \ {r} : rows'[p] = rows[p]
        /\ threads'[t].pc = "read" /\ threads'[t].run = r
    BY <2>1, InsertedRow
  <2>3. \A p \in Accepted : rows'[p] = rows[p]
    BY <2>2 DEF Accepted
  <2>4. \A record : record \in Expected' <=>
          \E p \in Accepted' : \/ record = User(p)
                               \/ rows'[p].answer # None /\ record = Answer(p)
    BY DEF Expected, RecordsOf
  <2>5. Expected \subseteq Expected'
    BY <2>2, <2>3, <2>4, ExpectedRecords
  <2>6. \A record \in Expected' : record \in Expected \/ record = User(r)
    BY <2>2, <2>3, <2>4, ExpectedRecords
  <2> QED
    BY <1>2, <2>2, <2>5, <2>6
<1> QED
  BY <1>1, <1>2, RequestFrame

\* What the worker does while the process serves, and what it has to append then.
Serving == Reading \/ WritesAnswer \/ (\E r \in Runs : Claims(r)) \/ \E output \in {None, root} : Finishes(output)
LEMMA ServingMoves ==
    ASSUME SubInv, Stations, Serving
    PROVE  /\ worker.pc \notin {"down", "project"} /\ worker'.pc \notin {"down", "project"}
           /\ worker.todo = {} /\ worker'.todo = {}
           /\ worker.pc = "result" => WritesAnswer
           /\ worker.pc = "ended" => ReadsEnded
           /\ worker'.pc = "result" =>
                /\ worker.pc = "ended" /\ rows[worker.run].answer # None
                /\ worker'.run = worker.run
           /\ worker'.pc = "ended" => worker'.run = worker.run
<1>1. worker \in Worker
  BY DEF SubInv, SubTypes
<1>2. ASSUME NEW pc, GoesOn(pc)
      PROVE  worker'.pc = pc /\ worker'.todo = worker.todo /\ worker'.run = worker.run
  BY <1>1, <1>2 DEF GoesOn, Turns, Worker
<1>3. ASSUME NEW pc, Turns(Off(pc)) PROVE worker'.pc = pc /\ worker'.todo = {}
  BY <1>3 DEF Turns, Off
<1>4. worker.pc \notin {"down", "project"}
  BY DEF Serving, Reading, ReadsClaimed, ReadsSession, LoadsSkill, ReadsHistory, ReadsToEnd,
         ReadsEnded, Claims, Finishes, WritesAnswer
<1>5. worker.todo = {}
  BY <1>4 DEF Stations
<1>6. CASE ReadsClaimed \/ ReadsToEnd
  BY <1>2, <1>3, <1>4, <1>5, <1>6 DEF ReadsClaimed, ReadsToEnd, Reads
<1>7. CASE LoadsSkill \/ ReadsHistory
  BY <1>2, <1>3, <1>4, <1>5, <1>7 DEF LoadsSkill, ReadsHistory
<1>8. CASE ReadsSession
  <2>1. PICK row : row = [worker EXCEPT !.pc = "load", !.root = root]
    OBVIOUS
  <2>2. row.pc = "load" /\ row.todo = worker.todo
    BY <1>1, <2>1 DEF Worker
  <2>3. worker' = row /\ worker.pc = "session"
    BY <1>8, <2>1 DEF ReadsSession, Turns
  <2> QED
    BY <1>4, <1>5, <2>2, <2>3
<1>9. CASE ReadsEnded
  BY <1>2, <1>3, <1>4, <1>5, <1>9 DEF ReadsEnded, Reads
<1>10. CASE WritesAnswer
  BY <1>3, <1>4, <1>5, <1>10 DEF WritesAnswer
<1>11. CASE \E r \in Runs : Claims(r)
  BY <1>4, <1>5, <1>11 DEF Claims, Turns, Off
<1>12. CASE \E output \in {None, root} : Finishes(output)
  BY <1>2, <1>4, <1>5, <1>12 DEF Finishes
<1> QED
  BY <1>6, <1>7, <1>8, <1>9, <1>10, <1>11, <1>12 DEF Serving, Reading

\* Every step keeps the stations.
LEMMA StationsStep == SubInv /\ Stations /\ [SubNext]_subVars => Stations'
<1> SUFFICES ASSUME SubInv, Stations, [SubNext]_subVars PROVE Stations'
  OBVIOUS
<1>1. worker \in Worker
  BY DEF SubInv, SubTypes
<1>2. rows' = rows => Expected' = Expected
  BY DEF Expected, RecordsOf, Accepted, Present
<1>3. CASE rows' = rows /\ threads' = threads /\ worker' = worker
  BY <1>2, <1>3 DEF Stations
<1>4. ASSUME NEW t \in Threads, RequestStep(t) PROVE Stations'
  <2>1. worker' = worker /\ (threads[t].pc = "idle" => worker.pc \notin {"down", "project"})
    BY <1>4, RequestFrame
  <2>2. worker.pc \notin {"down", "project"}
    BY <2>1 DEF Stations
  <2>3. Expected \subseteq Expected'
    BY <1>4, RequestExpects
  <2> QED
    BY <2>1, <2>2, <2>3 DEF Stations
<1>5. CASE Serving
  <2>1. /\ worker'.pc \notin {"down", "project"} /\ worker'.todo = {}
        /\ worker'.pc = "result" =>
             worker.pc = "ended" /\ rows[worker.run].answer # None /\ worker'.run = worker.run
    BY <1>5, ServingMoves
  <2>2. worker'.pc = "result" => Answer(worker'.run) \in Expected'
    <3> SUFFICES ASSUME worker'.pc = "result" PROVE Answer(worker.run) \in Expected'
      BY <2>1
    <3>1. worker.pc = "ended" /\ worker.run \in Accepted
      BY <2>1 DEF SubInv, SubTypes, Busy
    <3>2. rows' = rows
      BY <1>5, <3>1 DEF Serving, Reading, ReadsClaimed, ReadsSession, LoadsSkill, ReadsHistory,
             ReadsToEnd, ReadsEnded, Claims, Finishes, WritesAnswer
    <3> QED
      BY <1>2, <2>1, <3>1, <3>2, ExpectedRecords
  <2> QED
    BY <2>1, <2>2 DEF Stations
<1>6. CASE Starts
  <2>1. PICK todo : todo = IF \A r \in Accepted : Readable(r) THEN Expected ELSE {}
    OBVIOUS
  <2>2. /\ worker' = [Off("project") EXCEPT !.todo = todo] /\ todo \subseteq Expected
        /\ worker.pc = "down" /\ rows' = rows /\ threads' = threads
    BY <1>6, <2>1 DEF Starts, Turns, ToProject, Fixed
  <2>3. worker'.pc = "project" /\ worker'.todo = todo
    BY <2>2 DEF Off
  <2> QED
    BY <1>2, <2>2, <2>3 DEF Stations
<1>7. ASSUME NEW record, Projects(record) PROVE Stations'
  <2>1. worker.pc = "project" /\ rows' = rows /\ threads' = threads
    BY <1>7 DEF Projects, Fixed
  <2>2. /\ worker'.pc \in {"project", "down"} /\ worker'.todo \subseteq worker.todo
        /\ worker'.pc = "down" => worker'.todo = {}
    BY <1>1, <1>7, <2>1 DEF Projects, Turns, Off, Worker
  <2> QED
    BY <1>2, <2>1, <2>2 DEF Stations
<1>8. CASE Serves
  BY <1>8 DEF Serves, Stations, Turns, Off
<1>9. CASE Dies
  <2>1. worker' = Off("down") /\ threads' = [t \in Threads |-> Free]
    BY <1>9 DEF Dies, Turns
  <2> QED
    BY <2>1, FreeTyped DEF Stations, Off
<1> QED
  BY <1>3, <1>4, <1>5, <1>6, <1>7, <1>8, <1>9
  DEF SubNext, WorkerStep, Serving, Reading, Rebinds, AuthorEdits, subVars

-----------------------------------------------------------------------------
\* As long as nobody has rebound the workspace: two records at most are missing that
\* nobody is about to append, and then the transcript has no open line; and one that is
\* cut inside a character stops the projection, because a record is missing.
Owed    == {record \in Expected : ~AboutToAppend(record) /\ record \notin worker.todo}
Missing == {record \in Owed : ~Contains(root, record)}
Blocked == Ends(root) = "broken"
Few ==
    faults.moved = 0 =>
        IF worker.pc = "down"
        THEN Blocked => \E record \in Expected : ~Contains(root, record)
        ELSE /\ Ends(root) = "open" => Missing = {}
             /\ \E a, b : Missing \subseteq {a, b}
             /\ Missing # {} => Unreadable \in Lines(root)
             /\ Blocked => worker.pc = "project" /\ \E record \in worker.todo : ~Contains(root, record)
LEMMA FewInit == SubInit => Few
<1> SUFFICES ASSUME SubInit PROVE Few
  OBVIOUS
<1>1. Expected = {}
  BY ExpectedRecords DEF SubInit, Accepted, Present, NoRow
<1>2. Ends(root) = "whole" /\ worker.pc = "idle"
  BY DEF SubInit, TranscriptInit, NewFile, Ends, Off
<1> QED
  BY <1>1, <1>2 DEF Few, Missing, Owed, Blocked

\* A step that writes no line, and after which no more is owed.
LEMMA FewStays ==
    ASSUME Few, faults.moved = 0, root' = root, transcript' = transcript,
           worker.pc # "down", worker'.pc # "down", Owed' \subseteq Owed,
           worker.todo # {} => /\ worker.pc = "project" => worker'.pc = "project"
                               /\ worker.todo \subseteq worker'.todo
    PROVE  Few'
<1>1. /\ Lines(root)' = Lines(root) /\ Ends(root)' = Ends(root) /\ (Blocked' <=> Blocked)
      /\ \A record : Contains(root, record)' <=> Contains(root, record)
  BY DEF Lines, Ends, Contains, Blocked
<1>2. Missing' \subseteq Missing
  BY <1>1 DEF Missing
<1> QED
  BY <1>1, <1>2 DEF Few

\* A step that appends a record, which may be owed no more.
LEMMA FewAppends ==
    ASSUME Few, Transcripts, faults.moved = 0, root \in Roots, root' = root, NEW record \in Record,
           Appends(root, record), worker.pc # "down", worker'.pc # "down",
           Owed' \subseteq Owed \cup {record},
           worker.pc = "project" => worker'.pc = "project",
           worker.todo \ {record} \subseteq worker'.todo
    PROVE  Few'
<1>1. /\ Ends(root) = "open" => Missing = {}
      /\ \E a, b : Missing \subseteq {a, b}
      /\ Missing # {} => Unreadable \in Lines(root)
      /\ Blocked => worker.pc = "project" /\ \E other \in worker.todo : ~Contains(root, other)
  BY DEF Few
<1>2. CASE Contains(root, record)
  <2>1. transcript' = transcript
    BY <1>2 DEF Appends
  <2>2. /\ Lines(root)' = Lines(root) /\ Ends(root)' = Ends(root) /\ (Blocked' <=> Blocked)
        /\ \A other : Contains(root, other)' <=> Contains(root, other)
    BY <2>1 DEF Lines, Ends, Contains, Blocked
  <2>3. Missing' \subseteq Missing
    BY <1>2, <2>2 DEF Missing
  <2> QED
    BY <1>1, <1>2, <2>2, <2>3 DEF Few
<1>3. CASE ~Contains(root, record)
  <2>1. Writes(root, record, "whole") /\ "whole" \in Tails
    BY <1>3 DEF Appends, Tails
  <2>2. /\ Ends(root)' = "whole"
        /\ Ends(root) # "open" => Lines(root) \cup {record} \subseteq Lines(root)'
        /\ Ends(root) = "open" => /\ Unreadable \in Lines(root)'
                                  /\ \E gone : Lines(root) \subseteq Lines(root)' \cup {gone}
    BY <1>3, <2>1, WritesOne
  <2>3. CASE Ends(root) # "open"
    <3>1. Missing' \subseteq Missing
      BY <2>2, <2>3 DEF Missing, Contains
    <3> QED
      BY <1>1, <2>2, <2>3, <3>1 DEF Few, Blocked
  <2>4. CASE Ends(root) = "open"
    <3>1. PICK gone : Lines(root) \subseteq Lines(root)' \cup {gone}
      BY <2>2, <2>4
    <3>2. Missing' \subseteq {gone, record}
      BY <1>1, <2>4, <3>1 DEF Missing, Contains
    <3> QED
      BY <2>2, <2>4, <3>2 DEF Few, Blocked
  <2> QED
    BY <2>3, <2>4
<1> QED
  BY <1>2, <1>3

\* Nothing raises while the process serves a project that was never bound elsewhere.
LEMMA NoneRaises ==
    ASSUME Few, faults.moved = 0, worker.pc \notin {"down", "project"}, NEW record
    PROVE  ~Raises(root, record)
  BY DEF Few, Raises, Blocked

\* Nothing more is owed when nobody who is about to append stops being so.
LEMMA OwedKept ==
    ASSUME NEW extra,
           \A record \in Expected' \ Expected : AboutToAppend(record)',
           \A record \in Expected' : AboutToAppend(record) => AboutToAppend(record)' \/ record \in extra,
           worker.todo \subseteq worker'.todo \cup extra
    PROVE  Owed' \subseteq Owed \cup extra
  BY DEF Owed

\* A request that answers, and one that appends.
LEMMA FewRequest ==
    ASSUME SubInv, Stations, AtHome, Few, NEW t \in Threads, RequestStep(t), faults.moved = 0
    PROVE  Few'
<1>1. /\ \A u \in Threads \ {t} : threads'[u] = threads[u]
      /\ worker' = worker /\ root' = root
      /\ Notes(t) \/ (threads[t].pc # "note" /\ transcript' = transcript)
      /\ threads[t].pc = "read" => ReadsBack(t)
      /\ threads[t].pc = "idle" => worker.pc \notin {"down", "project"}
  BY RequestFrame
<1>2. /\ threads \in [Threads -> Thread] /\ Told(threads[t]) /\ Transcripts /\ root \in Roots
      /\ threads[t] \in Thread
  BY DEF SubInv, SubTypes
<1>3. worker.pc \notin {"down", "project"}
  BY <1>1 DEF Stations
<1>4. \A record \in Expected' \ Expected : AboutToAppend(record)'
  BY RequestExpects DEF AboutToAppend
<1>5. ASSUME NEW record, AboutToAppend(record)
      PROVE  AboutToAppend(record)' \/ (threads[t].pc \in {"read", "note"} /\ record = User(threads[t].run))
  BY <1>1, <1>5 DEF AboutToAppend
<1>6. threads[t].pc \in {"read", "note"} =>
        /\ threads[t].run \in Accepted /\ threads[t].run \in Runs /\ threads[t].root = root
        /\ Readable(threads[t].run)
  <2> SUFFICES ASSUME threads[t].pc \in {"read", "note"}
               PROVE  /\ threads[t].run \in Accepted /\ threads[t].run \in Runs
                      /\ threads[t].root = root /\ Readable(threads[t].run)
    OBVIOUS
  <2>1. threads[t].run \in Accepted /\ rows[threads[t].run].root = threads[t].root
    BY <1>2 DEF Told
  <2>2. Readable(threads[t].run)
    BY <2>1 DEF AtHome
  <2> QED
    BY <2>1, <2>2 DEF Readable, Accepted
<1>7. CASE Notes(t)
  <2>1. PICK record : record = User(threads[t].run)
    OBVIOUS
  <2>2. threads[t].pc = "note"
    BY <1>7 DEF Notes
  <2>3. record \in Record /\ threads[t].root = root
    BY <1>6, <2>1, <2>2, OwnRecords
  <2>4. Appends(root, record)
    BY <1>3, <1>7, <2>1, <2>3, NoneRaises DEF Notes
  <2>5. Owed' \subseteq Owed \cup {record}
    BY <1>1, <1>4, <1>5, <2>1, OwedKept
  <2> QED
    BY <1>1, <1>2, <1>3, <2>3, <2>4, <2>5, FewAppends
<1>8. CASE threads[t].pc # "note" /\ transcript' = transcript
  <2>1. ASSUME threads[t].pc = "read"
        PROVE  threads'[t].pc = "note" /\ threads'[t].run = threads[t].run
    <3>1. Goes(t, "note")
      BY <1>1, <1>6, <2>1 DEF ReadsBack
    <3>2. "note" \in ThreadPCs
      BY DEF ThreadPCs
    <3>3. PICK thread \in Thread :
             Moves(t, thread) /\ thread.pc = "note" /\ thread.run = threads[t].run
      BY <1>2, <3>1, <3>2, ThreadGoes
    <3> QED
      BY <1>2, <3>3, ThreadMoves
  <2>2. ASSUME NEW record, AboutToAppend(record) PROVE AboutToAppend(record)'
    <3>1. CASE threads[t].pc = "read" /\ record = User(threads[t].run)
      BY <2>1, <3>1 DEF AboutToAppend
    <3> QED
      BY <1>5, <1>8, <2>2, <3>1
  <2>3. Owed' \subseteq Owed \cup {}
    BY <1>1, <1>4, <2>2, OwedKept
  <2> QED
    BY <1>1, <1>3, <1>8, <2>3, FewStays
<1> QED
  BY <1>1, <1>7, <1>8

\* The worker: an output becomes one to append when the message ends.
LEMMA FewServing ==
    ASSUME SubInv, Stations, AtHome, Few, Serving, faults.moved = 0
    PROVE  Few'
<1>1. /\ worker.pc \notin {"down", "project"} /\ worker'.pc \notin {"down", "project"}
      /\ worker.todo = {} /\ worker'.todo = {}
      /\ worker.pc = "result" => WritesAnswer
      /\ worker.pc = "ended" => ReadsEnded
      /\ worker'.pc = "ended" => worker'.run = worker.run
  BY ServingMoves
<1>2. worker \in Worker /\ Transcripts /\ root \in Roots
  BY DEF SubInv, SubTypes
<1>3. WorkerStep
  BY DEF Serving, Reading, WorkerStep
<1>4. root' = root /\ threads' = threads /\ Accepted' = Accepted /\ Accepted \subseteq Runs
  BY <1>3, WorkerFrame DEF Accepted
<1>5. \A record : record \in Expected' <=>
          \E r \in Accepted : \/ record = User(r)
                              \/ rows'[r].answer # None /\ record = Answer(r)
  BY <1>4 DEF Expected, RecordsOf
<1>6. CASE WritesAnswer
  <2>1. PICK record : record = Answer(worker.run)
    OBVIOUS
  <2>2. worker.pc = "result" /\ worker.run \in Accepted /\ worker.root = root
    BY <1>6 DEF WritesAnswer, SubInv, SubTypes, Busy, Bound, AtHome
  <2>3. record \in Record
    BY <1>4, <2>1, <2>2, OwnRecords
  <2>4. Appends(root, record) /\ rows' = rows
    BY <1>1, <1>6, <2>1, <2>2, NoneRaises DEF WritesAnswer, Fixed
  <2>5. Expected' = Expected
    BY <2>4 DEF Expected, RecordsOf, Accepted, Present
  <2>6. \A other : AboutToAppend(other) => AboutToAppend(other)' \/ other \in {record}
    BY <1>4, <2>1, <2>2 DEF AboutToAppend
  <2>7. Owed' \subseteq Owed \cup {record}
    BY <1>1, <2>5, <2>6, OwedKept
  <2> QED
    BY <1>1, <1>2, <1>4, <2>3, <2>4, <2>7, FewAppends
<1>7. CASE ReadsEnded
  <2>1. worker.pc = "ended" /\ worker.run \in Accepted /\ rows' = rows /\ transcript' = transcript
    BY <1>7 DEF ReadsEnded, SubInv, SubTypes, Busy, Fixed
  <2>2. Readable(worker.run)
    BY <2>1 DEF AtHome
  <2>3. Expected' = Expected
    BY <2>1 DEF Expected, RecordsOf, Accepted, Present
  <2>4. CASE rows[worker.run].answer = None
    <3>1. Answer(worker.run) \notin Expected
      BY <2>4, ExpectedRecords, OwnRecords
    <3>2. \A record \in Expected' : AboutToAppend(record) => AboutToAppend(record)'
      BY <1>4, <2>3, <3>1 DEF AboutToAppend
    <3>3. Owed' \subseteq Owed \cup {}
      BY <1>1, <2>3, <3>2, OwedKept
    <3> QED
      BY <1>1, <1>4, <2>1, <3>3, FewStays
  <2>5. CASE rows[worker.run].answer # None
    <3>1. GoesOn("result")
      BY <1>7, <2>2, <2>5 DEF ReadsEnded, Reads
    <3>2. worker'.pc = "result" /\ worker'.run = worker.run
      BY <1>2, <3>1 DEF GoesOn, Turns, Worker
    <3>3. \A record : AboutToAppend(record) => AboutToAppend(record)'
      BY <1>4, <2>1, <3>2 DEF AboutToAppend
    <3>4. Owed' \subseteq Owed \cup {}
      BY <1>1, <2>3, <3>3, OwedKept
    <3> QED
      BY <1>1, <1>4, <2>1, <3>4, FewStays
  <2> QED
    BY <2>4, <2>5
<1>8. CASE worker.pc \notin {"ended", "result"}
  <2>1. transcript' = transcript
    BY <1>8 DEF Serving, Reading, ReadsClaimed, ReadsSession, LoadsSkill, ReadsHistory, ReadsToEnd,
           ReadsEnded, Claims, Finishes, WritesAnswer, Fixed
  <2>2. \A record : AboutToAppend(record) => AboutToAppend(record)'
    BY <1>4, <1>8 DEF AboutToAppend
  <2>3. \A record \in Expected' \ Expected : AboutToAppend(record)'
    <3>1. CASE \A r \in Runs : rows'[r].answer = rows[r].answer
      BY <1>4, <1>5, <3>1, ExpectedRecords
    <3>2. CASE /\ \E output \in {None, root} : Finishes(output)
               /\ \A r \in Runs \ {worker.run} : rows'[r] = rows[r]
      <4>1. worker'.pc = "ended" /\ worker'.run = worker.run
        BY <1>1, <1>2, <3>2 DEF Finishes, GoesOn, Turns, Worker
      <4>2. \A record \in Expected' \ Expected : record = Answer(worker.run)
        BY <1>4, <1>5, <3>2, ExpectedRecords
      <4> QED
        BY <4>1, <4>2 DEF AboutToAppend
    <3> QED
      BY <1>3, <3>1, <3>2, WorkerFrame
  <2>4. Owed' \subseteq Owed \cup {}
    BY <1>1, <2>2, <2>3, OwedKept
  <2> QED
    BY <1>1, <1>4, <2>1, <2>4, FewStays
<1> QED
  BY <1>1, <1>6, <1>7, <1>8

\* A start: all that is due is to be projected.
LEMMA FewStarts ==
    ASSUME SubInv, AtHome, Few, Starts, faults.moved = 0
    PROVE  Few'
<1>1. worker.pc = "down" /\ rows' = rows /\ root' = root /\ transcript' = transcript
  BY DEF Starts, Fixed
<1>2. worker' = [Off("project") EXCEPT !.todo = Expected]
  BY DEF Starts, Turns, ToProject, AtHome
<1>3. worker'.pc = "project" /\ worker'.todo = Expected
  BY <1>2 DEF Off
<1>4. Expected' = Expected
  BY <1>1 DEF Expected, RecordsOf, Accepted, Present
<1>5. Missing' = {}
  BY <1>3, <1>4 DEF Missing, Owed
<1>6. Blocked' => \E record \in worker'.todo : ~Contains(root, record)'
  BY <1>1, <1>3 DEF Few, Blocked, Ends, Contains, Lines
<1> QED
  BY <1>3, <1>5, <1>6 DEF Few

\* The projection, one record after the other.
LEMMA FewProjects ==
    ASSUME SubInv, Stations, Few, NEW record \in Record, Projects(record), faults.moved = 0
    PROVE  Few'
<1>1. /\ worker.pc = "project" /\ record \in worker.todo
      /\ rows' = rows /\ root' = root /\ threads' = threads
  BY DEF Projects, Next1, Fixed
<1>2. worker \in Worker /\ Transcripts /\ root \in Roots /\ worker.todo \subseteq Expected
  BY DEF SubInv, SubTypes, Stations
<1>3. Expected' = Expected
  BY <1>1 DEF Expected, RecordsOf, Accepted, Present
<1>4. CASE Appends(root, record) /\ Turns([worker EXCEPT !.todo = @ \ {record}])
  <2>1. worker'.pc = "project" /\ worker'.todo = worker.todo \ {record}
    BY <1>1, <1>2, <1>4 DEF Turns, Worker
  <2>2. \A other : AboutToAppend(other) => AboutToAppend(other)'
    BY <1>1 DEF AboutToAppend
  <2>3. Owed' \subseteq Owed \cup {record}
    BY <1>3, <2>1, <2>2, OwedKept
  <2> QED
    BY <1>1, <1>2, <1>4, <2>1, <2>3, FewAppends
<1>5. CASE Raises(root, record) /\ transcript' = transcript /\ Turns(Off("down"))
  <2>1. worker'.pc = "down"
    BY <1>5 DEF Turns, Off
  <2>2. record \in Expected' /\ ~Contains(root, record)'
    BY <1>1, <1>2, <1>3, <1>5 DEF Raises, Contains, Lines
  <2> QED
    BY <2>1, <2>2 DEF Few
<1> QED
  BY <1>4, <1>5 DEF Projects

\* Everything is projected: no record is blocked by how the transcript ends.
LEMMA FewServes ==
    ASSUME Stations, Few, Serves, faults.moved = 0
    PROVE  Few'
<1>1. /\ worker.pc = "project" /\ worker.todo = {} /\ worker'.pc = "idle" /\ worker'.todo = {}
      /\ rows' = rows /\ root' = root /\ threads' = threads /\ transcript' = transcript
  BY DEF Serves, Turns, Off, Fixed
<1>2. Expected' = Expected
  BY <1>1 DEF Expected, RecordsOf, Accepted, Present
<1>3. \A record : AboutToAppend(record) => AboutToAppend(record)'
  BY <1>1 DEF AboutToAppend
<1>4. Owed' \subseteq Owed \cup {}
  BY <1>1, <1>2, <1>3, OwedKept
<1> QED
  BY <1>1, <1>4, FewStays

\* A death: the record that was being appended is missing if the transcript is cut inside
\* a character.
LEMMA FewDies ==
    ASSUME SubInv, Stations, Few, Dies, faults.moved = 0
    PROVE  Few'
<1>1. worker.pc # "down" /\ worker'.pc = "down" /\ rows' = rows /\ root' = root
  BY DEF Dies, Turns, Off
<1>2. Transcripts /\ root \in Roots /\ worker.todo \subseteq Expected
  BY DEF SubInv, SubTypes, Stations
<1>3. Expected' = Expected
  BY <1>1 DEF Expected, RecordsOf, Accepted, Present
<1>4. Blocked => \E record \in Expected : ~Contains(root, record)
  BY <1>1, <1>2 DEF Few
<1>5. CASE transcript' = transcript
  BY <1>1, <1>3, <1>4, <1>5 DEF Few, Blocked, Ends, Contains, Lines
<1>6. ASSUME NEW append \in Appending, CutShort(append[1], append[2]) PROVE Few'
  <2>1. PICK place, record : place = append[1] /\ record = append[2]
    OBVIOUS
  <2>2. place \in Roots /\ record \in Record
    BY <2>1, AppendingTyped
  <2>3. record \in Expected
    <3>1. CASE \E t \in Threads : threads[t].pc = "note" /\ append = <<threads[t].root, User(threads[t].run)>>
      <4>1. PICK t \in Threads : threads[t].pc = "note" /\ record = User(threads[t].run)
        BY <2>1, <3>1
      <4>2. threads[t].run \in Accepted
        BY <4>1 DEF SubInv, Told
      <4> QED
        BY <4>1, <4>2, ExpectedRecords
    <3>2. CASE worker.pc = "result" /\ append = <<worker.root, Answer(worker.run)>>
      BY <2>1, <3>2 DEF Stations
    <3>3. CASE append \in {root} \X Next1(worker.todo)
      BY <1>2, <2>1, <3>3 DEF Next1
    <3> QED
      BY <3>1, <3>2, <3>3 DEF Appending
  <2>4. PICK line \in {record, Unreadable}, tail \in {"open", "broken"} :
               Writes(place, line, tail) /\ (tail = "broken" => line = Unreadable)
    BY <1>6, <2>1 DEF CutShort
  <2>5. ~Contains(place, record)
    BY <1>6, <2>1 DEF CutShort
  <2>6. CASE place = root
    <3>1. Ends(root)' = tail /\ Lines(root)' \subseteq Lines(root) \cup {line, Unreadable}
      <4>1. tail \in Tails /\ line \in Record \cup {Unreadable}
        BY <2>2 DEF Tails
      <4>2. line \in Record => ~Contains(place, line)
        BY <2>5, UnreadableAssumption
      <4>3. Ends(place)' = tail /\ Lines(place)' \subseteq Lines(place) \cup {line, Unreadable}
        BY <1>2, <2>2, <2>4, <4>1, <4>2, WritesOne
      <4> QED
        BY <1>1, <2>6, <4>3 DEF Ends, Lines
    <3>2. Blocked' => record \in Expected' /\ ~Contains(root, record)'
      BY <1>1, <1>3, <2>2, <2>3, <2>4, <2>5, <2>6, <3>1, UnreadableAssumption DEF Blocked, Contains
    <3> QED
      BY <1>1, <3>2 DEF Few
  <2>7. CASE place # root
    <3>1. transcript'[root] = transcript[root]
      BY <1>2, <2>4, <2>7 DEF Writes, Transcripts
    <3> QED
      BY <1>1, <1>3, <1>4, <3>1 DEF Few, Blocked, Ends, Contains, Lines
  <2> QED
    BY <2>6, <2>7
<1> QED
  BY <1>5, <1>6 DEF Dies

\* Every step.
LEMMA FewStep == SubInv /\ CountInv /\ Stations /\ Few /\ [SubNext]_subVars => Few'
<1> SUFFICES ASSUME SubInv, CountInv, Stations, Few, [SubNext]_subVars PROVE Few'
  OBVIOUS
<1>1. faults \in Faults /\ AtHome
  BY DEF CountInv
<1>2. ASSUME faults'.moved = faults.moved, faults.moved = 0 => Few' PROVE Few'
  BY <1>2 DEF Few
<1>3. CASE /\ UNCHANGED <<rows, root, worker, transcript, threads>>
           /\ faults' = faults \/ Happens("copied")
  <2>1. /\ Expected' = Expected /\ Lines(root)' = Lines(root) /\ Ends(root)' = Ends(root)
        /\ \A record : Contains(root, record)' <=> Contains(root, record)
        /\ \A record : AboutToAppend(record)' <=> AboutToAppend(record)
    BY <1>3 DEF Expected, RecordsOf, Accepted, Present, AboutToAppend, Lines, Ends, Contains
  <2>2. Missing' = Missing /\ (Blocked' <=> Blocked)
    BY <1>3, <2>1 DEF Missing, Owed, Blocked
  <2>3. faults'.moved = 0 => faults.moved = 0
    BY <1>1, <1>3, HappensTyped
  <2> QED
    BY <1>3, <2>1, <2>2, <2>3 DEF Few
<1>4. ASSUME NEW t \in Threads, RequestStep(t) PROVE Few'
  <2>1. faults' = faults \/ Happens("copied")
    BY <1>4, RequestFrame
  <2>2. faults'.moved = 0 => faults.moved = 0
    BY <1>1, <2>1, HappensTyped
  <2>3. faults.moved = 0 => Few'
    BY <1>1, <1>4, FewRequest
  <2> QED
    BY <2>2, <2>3 DEF Few
<1>5. CASE WorkerStep
  <2>1. faults' = faults
    BY <1>5, WorkerFrame
  <2>2. faults.moved = 0 => Few'
    BY <1>1, <1>5, FewServing, FewStarts, FewProjects, FewServes DEF WorkerStep, Serving, Reading
  <2> QED
    BY <1>2, <2>1, <2>2
<1>6. CASE Dies
  <2>1. faults'.moved = 0 => faults.moved = 0
    BY <1>1, <1>6, HappensTyped DEF Dies
  <2>2. faults.moved = 0 => Few'
    BY <1>6, FewDies
  <2> QED
    BY <2>1, <2>2 DEF Few
<1>7. CASE \E place \in Roots : Rebinds(place)
  <2>1. faults'.moved # 0
    BY <1>1, <1>7, HappensTyped DEF Rebinds
  <2> QED
    BY <2>1 DEF Few
<1>8. CASE AuthorEdits
  BY <1>3, <1>8 DEF AuthorEdits
<1>9. CASE UNCHANGED subVars
  BY <1>3, <1>9 DEF subVars
<1> QED
  BY <1>4, <1>5, <1>6, <1>7, <1>8, <1>9 DEF SubNext

-----------------------------------------------------------------------------
\* A message, or an earlier one, cannot be read: the workspace was rebound.
LEMMA UnreadableMoved ==
    ASSUME CountInv, NEW r \in Accepted, ~Readable(r)
    PROVE  faults.moved > 0
  BY DEF CountInv, AtHome, Faults

\* The worker that reads its own message.
LEMMA ReadsLoses ==
    ASSUME SubInv, CountInv, worker.pc \in Busy, NEW pc \in Busy, Reads(worker.run, pc),
           worker'.pc = "dead"
    PROVE  ~Readable(worker.run) /\ faults.moved > 0
<1>1. worker.run \in Accepted /\ worker \in Worker
  BY DEF SubInv, SubTypes
<1>2. GoesOn(pc) => worker'.pc = pc
  BY <1>1 DEF GoesOn, Turns, Worker
<1>3. pc # "dead"
  BY DEF Busy
<1>4. ~Readable(worker.run)
  BY <1>2, <1>3 DEF Reads
<1> QED
  BY <1>1, <1>4, UnreadableMoved

\* What is lost of the worker, is lost to what WorkerLostOnlyTo names.
LEMMA LostOnTheWay ==
    ASSUME SubInv, CountInv, Few, [SubNext]_subVars, worker'.pc = "dead", worker.pc # "dead"
    PROVE  \/ rows[worker.run].skill \in spoiled \cup Copying
           \/ /\ faults.moved > 0
              /\ \/ \E r \in Earlier(worker.run) \cup {worker.run} : ~Readable(r)
                 \/ Ends(worker.root) = "broken"
<1>1. /\ worker \in Worker /\ (worker.pc \in Busy => worker.run \in Accepted)
      /\ Sound
  BY DEF SubInv, SubTypes
<1>2. ASSUME NEW pc, GoesOn(pc) PROVE worker'.pc = pc
  BY <1>1, <1>2 DEF GoesOn, Turns, Worker
<1>3. ASSUME NEW pc, Turns(Off(pc)) PROVE worker'.pc = pc
  BY <1>3 DEF Turns, Off
<1>4. worker' # worker
  OBVIOUS
<1>5. ASSUME NEW t \in Threads, RequestStep(t) PROVE FALSE
  BY <1>4, <1>5, RequestFrame
<1>6. CASE ReadsClaimed
  <2>1. worker.pc \in Busy /\ "session" \in Busy
    BY <1>6 DEF ReadsClaimed, Busy
  <2> QED
    BY <1>6, <2>1, ReadsLoses DEF ReadsClaimed
<1>7. CASE ReadsToEnd
  <2>1. worker.pc \in Busy /\ "end" \in Busy
    BY <1>7 DEF ReadsToEnd, Busy
  <2> QED
    BY <1>7, <2>1, ReadsLoses DEF ReadsToEnd
<1>8. CASE ReadsEnded
  <2>1. worker.pc \in Busy /\ "result" \in Busy
    BY <1>8 DEF ReadsEnded, Busy
  <2>2. Reads(worker.run, "result")
    BY <1>3, <1>8 DEF ReadsEnded
  <2> QED
    BY <2>1, <2>2, ReadsLoses
<1>9. CASE LoadsSkill
  <2>1. worker.pc = "load" /\ bundles[rows[worker.run].skill].files["SKILL.md"] \in {None, Partial}
    BY <1>2, <1>9 DEF LoadsSkill
  <2>2. worker.run \in Accepted
    BY <1>1, <2>1 DEF Busy
  <2>3. PICK d \in Versions : rows[worker.run].skill = d
    BY <1>1, <2>2 DEF Sound
  <2>4. Settled(d)
    BY <1>1, <2>2, <2>3 DEF Sound
  <2>5. ~Complete(d)
    BY <2>1, <2>3, BundleAssumption DEF Complete
  <2> QED
    BY <2>3, <2>4, <2>5 DEF Settled
<1>10. CASE ReadsHistory
  <2>1. \E r \in Earlier(worker.run) : ~Readable(r)
    BY <1>2, <1>10 DEF ReadsHistory
  <2> QED
    BY <2>1, UnreadableMoved DEF Earlier
<1>11. CASE WritesAnswer
  <2>1. worker.pc = "result" /\ Raises(worker.root, Answer(worker.run))
    BY <1>3, <1>11 DEF WritesAnswer
  <2>2. Ends(worker.root) = "broken"
    BY <2>1 DEF Raises
  <2>3. faults.moved # 0
    BY <2>1, <2>2 DEF CountInv, AtHome, Bound, Busy, Few, Blocked
  <2>4. faults.moved \in Nat
    BY DEF CountInv, Faults
  <2> QED
    BY <2>2, <2>3, <2>4
<1>12. ASSUME \/ (\E r \in Runs : Claims(r)) \/ ReadsSession
              \/ (\E output \in {None, root} : Finishes(output))
              \/ Starts \/ Serves \/ Dies
       PROVE  FALSE
  <2>1. ~ReadsSession
    BY <1>1 DEF ReadsSession, Turns, Worker
  <2>2. ~Starts /\ \A r \in Runs : ~Claims(r)
    BY DEF Starts, Claims, Turns, Off
  <2> QED
    BY <1>2, <1>3, <1>12, <2>1, <2>2 DEF Finishes, Serves, Dies
<1>13. ASSUME NEW record, Projects(record) PROVE FALSE
  <2>1. Turns([worker EXCEPT !.todo = @ \ {record}]) => worker'.pc = worker.pc
    BY <1>1 DEF Turns, Worker
  <2> QED
    BY <1>3, <1>13, <2>1 DEF Projects
<1>14. CASE (\E place \in Roots : Rebinds(place)) \/ AuthorEdits \/ UNCHANGED subVars
  BY <1>4, <1>14 DEF Rebinds, AuthorEdits, subVars
<1> QED
  BY <1>5, <1>6, <1>7, <1>8, <1>9, <1>10, <1>11, <1>12, <1>13, <1>14 DEF SubNext, WorkerStep

-----------------------------------------------------------------------------
\* The inductive invariant of requests, worker, transcripts and snapshots.
THEOREM SubInvTheorem == SubSpec => []SubInv
<1>1. SubInit => SubInv
  BY SubInitInv
<1>2. SubInv /\ [SubNext]_subVars => SubInv'
  BY SubStep
<1> QED
  BY <1>1, <1>2, PTL DEF SubSpec

\* A request is answered with the only run of its key, made of its own input, however
\* requests and retries race between find_request and accept_once.
THEOREM ToldOwnRunTheorem == SubSpec => []ToldOwnRun
<1>1. SubInv => ToldOwnRun
  <2> SUFFICES ASSUME SubInv, NEW t \in Threads, threads[t].run # None
               PROVE  /\ WithKey(threads[t].key) = {threads[t].run}
                      /\ rows[threads[t].run].input = threads[t].input
    BY DEF ToldOwnRun
  <2>1. Told(threads[t]) /\ KeysUnique
    BY DEF SubInv
  <2> QED
    BY <2>1 DEF Told, KeysUnique, WithKey
<1> QED
  BY <1>1, SubInvTheorem, PTL

\* No transcript has a record twice: append_transcript looks for the record before it
\* appends, under one lock; of an append that a death cuts short it finds the record or
\* a line that is none.
THEOREM TranscriptOnceTheorem == SubSpec => []TranscriptOnce
<1>1. SubInv => TranscriptOnce
  BY DEF SubInv, Transcripts
<1> QED
  BY <1>1, SubInvTheorem, PTL

\* The snapshot of every accepted message is whole, is still being copied, or was spoiled
\* in one of the ways of _store_bundle that spoiled records.
THEOREM BundleIntactTheorem == SubSpec => []BundleIntact
<1>1. SubInv => BundleIntact
  BY DEF SubInv, Sound, BundleIntact, Settled
<1> QED
  BY <1>1, SubInvTheorem, PTL

\* Messages are numbered without a gap, bodies are below the root of now unless the
\* workspace was rebound, and few records are missing.
THEOREM CountInvTheorem == SubSpec => [](CountInv /\ Stations /\ Few)
<1>1. SubInit => CountInv /\ Stations /\ Few
  BY CountInit, StationsInit, FewInit
<1>2. /\ SubInv /\ CountInv /\ Stations /\ Few /\ [SubNext]_subVars
      => (CountInv /\ Stations /\ Few)'
  BY CountStep, StationsStep, FewStep
<1> QED
  BY <1>1, <1>2, SubInvTheorem, PTL DEF SubSpec

\* Types, and next_run_seq without a gap: accept_once gives the numbers one after another.
THEOREM SubTypesTheorem == SubSpec => []SubTypeOK
<1>1. SubInv /\ CountInv => SubTypeOK
  BY DEF SubInv, SubTypes, CountInv, Transcripts, SubTypeOK
<1> QED
  BY <1>1, SubInvTheorem, CountInvTheorem, PTL

\* However often the process dies, two records at most are missing from the transcript of
\* a project that was never bound elsewhere, with a line that shows it, while the process
\* serves; materialize_user_storage appends all others before.
THEOREM TranscriptCompleteTheorem == SubSpec => []TranscriptComplete
<1>1. Stations /\ Few => TranscriptComplete
  <2> SUFFICES ASSUME Stations, Few, worker.pc \notin {"down", "project"}, faults.moved = 0
               PROVE  /\ Cardinality(Lost) <= 2
                      /\ Lost # {} => Unreadable \in Lines(root)
                      /\ Ends(root) # "broken"
    BY DEF TranscriptComplete
  <2>1. Lost = Missing
    BY DEF Stations, Lost, Missing, Owed
  <2>2. PICK a, b : Missing \subseteq {a, b}
    BY DEF Few
  <2>3. Cardinality(Lost) <= 2
    <3>1. IsFiniteSet({a}) /\ Cardinality({a}) = 1
      BY FS_Singleton
    <3>2. /\ IsFiniteSet({a} \cup {b})
          /\ Cardinality({a} \cup {b}) = IF b \in {a} THEN Cardinality({a}) ELSE Cardinality({a}) + 1
      BY <3>1, FS_AddElement
    <3>3. Lost \subseteq {a} \cup {b}
      BY <2>1, <2>2
    <3>4. Cardinality(Lost) <= Cardinality({a} \cup {b}) /\ Cardinality(Lost) \in Nat
      BY <3>2, <3>3, FS_Subset, FS_CardinalityType
    <3> QED
      BY <3>1, <3>2, <3>4
  <2> QED
    BY <2>1, <2>3 DEF Few, Blocked
<1> QED
  BY <1>1, CountInvTheorem, PTL

\* The worker thread is lost to no exception of _worker_loop but the three that
\* WorkerLostOnlyTo names: a snapshot that is not whole, and, after a rebinding, a body
\* that cannot be read or a transcript that cannot be searched.
THEOREM WorkerLostTheorem == SubSpec => WorkerLostOnlyTo
<1>1. SubInv /\ CountInv /\ Few /\ [SubNext]_subVars =>
        [worker'.pc = "dead" /\ worker.pc # "dead" =>
           \/ rows[worker.run].skill \in spoiled \cup Copying
           \/ /\ faults.moved > 0
              /\ \/ \E r \in Earlier(worker.run) \cup {worker.run} : ~Readable(r)
                 \/ Ends(worker.root) = "broken"]_subVars
  BY LostOnTheWay
<1> QED
  BY <1>1, SubInvTheorem, CountInvTheorem, PTL DEF SubSpec, WorkerLostOnlyTo
=============================================================================
