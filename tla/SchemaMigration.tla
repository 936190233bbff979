-------------------------- MODULE SchemaMigration ---------------------------
(***************************************************************************)
(* SqliteRuntimeStore.__init__: a process opens state.db, finds what an    *)
(* earlier version has left there and brings it to version 5 before it     *)
(* serves.  Versions 1 to 3 go to 4 in one script; 4 goes to 5 in a        *)
(* transaction of its own that first writes every text body to a file and  *)
(* then drops the column it was in.  A database without tables gets the    *)
(* tables one statement at a time and the version number at the end.       *)
(*                                                                         *)
(* Version and tables are read before any transaction begins, files are    *)
(* not rolled back with it, and the process may die between any two steps. *)
(* Several processes may open the file: BEGIN IMMEDIATE lets one write.    *)
(***************************************************************************)
EXTENDS Naturals, Sequences, FiniteSets

CONSTANTS Processes,
          Texts, Pendings,     \* bodies kept as objects: of runs, of pending_responses
          Events,              \* bodies kept as records of the session's log
          Torn,                \* what an append cut short leaves in the log
          MaxDeaths            \* bound on deaths of processes

Bodies   == Texts \cup Pendings \cup Events
Sessions == {e.session : e \in Events}

ASSUME MigrationAssumption ==
    /\ \A e \in Events : e \in [session : Sessions, run : Nat, seq : Nat]
    /\ Texts \cap Events = {} /\ Pendings \cap Events = {} /\ Torn \notin Bodies
    /\ IsFiniteSet(Events)
    /\ MaxDeaths \in Nat

VARIABLES db,                  \* the committed database
          objects, log,        \* object files; per session, the lines of its content log
          openers,             \* where each process is in __init__
          deaths

migVars == <<db, objects, log, openers, deaths>>

\* shape: the tables there are ("some": a creation has not come to the last); version:
\* PRAGMA user_version, which nothing set before 2; rows: bodies the rows have; inline:
\* those still in a column; ref: where the others are (0 nowhere, an object is at 1);
\* session_seq and next_event_seq from version 4 on.
Shapes == {"none", "some", "v1", "v2", "v3", "v4", "v5"}
Database == [shape : Shapes, version : 0..5, rows : SUBSET Bodies, inline : SUBSET Bodies,
             ref : [Bodies -> Nat], session_seq : [Events -> Nat], next_event_seq : [Sessions -> Nat]]
OldVersion == [v1 |-> {0, 1}, v2 |-> {2}, v3 |-> {3}, v4 |-> {4}]

\* down; tables (version read, tables not yet); create, stamp (no tables); to4; rows (read
\* before the transaction), begin, move (in the transaction); open.
Opener == [pc : {"down", "tables", "create", "stamp", "to4", "rows", "begin", "move", "open"},
           version : 0..5, todo : SUBSET Bodies, ref : [Bodies -> Nat]]
Nowhere == [b \in Bodies |-> 0]
Down    == [pc |-> "down", version |-> 0, todo |-> {}, ref |-> Nowhere]

\* Databases of an earlier version: the events of a run are numbered from 1.
Numbered(rows) ==
    \A e \in Events \cap rows : e.seq > 1 => [e EXCEPT !.seq = @ - 1] \in rows
Unnumbered == [e \in Events |-> 0]
OldDatabase(shape, version, rows) ==
    [shape |-> shape, version |-> version, rows |-> rows, inline |-> rows, ref |-> Nowhere,
     session_seq |-> Unnumbered, next_event_seq |-> [s \in Sessions |-> 0]]

\* Numbers of the session's events: ROW_NUMBER() in the script from version 1, COUNT(*)
\* in those from 2 and 3.
SameSession(e, rows) == {f \in Events \cap rows : f.session = e.session}
Prior(f, e)    == f.run < e.run \/ (f.run = e.run /\ f.seq < e.seq)
AnyRunUpTo(f, e) == f.seq <= e.seq            \* fault: the runs are not told apart
UpTo(f, e)     == f.run < e.run \/ (f.run = e.run /\ f.seq <= e.seq)
RowNumber(e, rows) == Cardinality({f \in SameSession(e, rows) : Prior(f, e)}) + 1
CountUpTo(e, rows) == Cardinality({f \in SameSession(e, rows) : UpTo(f, e)})
NumberOf(version, e, rows) == IF version < 2 THEN RowNumber(e, rows) ELSE CountUpTo(e, rows)
Version4(d, version) ==
    [d EXCEPT !.shape = "v4", !.version = 4,
              !.session_seq = [e \in Events |-> IF e \in d.rows THEN NumberOf(version, e, d.rows) ELSE 0],
              !.next_event_seq =
                  [s \in Sessions |-> 1 + Cardinality({e \in Events \cap d.rows : e.session = s})]]

MigInit ==
    /\ \/ db = OldDatabase("none", 0, {})
       \/ \E shape \in DOMAIN OldVersion, rows \in SUBSET Bodies :
            \E version \in OldVersion[shape] :
              LET d == OldDatabase(shape, version, rows)
              IN  Numbered(rows) /\ db = IF shape = "v4" THEN Version4(d, 1) ELSE d
    /\ objects = {}
    /\ log = [s \in Sessions |-> <<>>]
    /\ openers = [p \in Processes |-> Down]
    /\ deaths = 0

Moves(p, pc) == openers' = [openers EXCEPT ![p].pc = pc]
Fails(p)     == openers' = [openers EXCEPT ![p] = Down]
Files        == <<objects, log, deaths>>

\* SQLite: a writer excludes other writers; who waits for more than busy_timeout fails.
Anyone   == TRUE                              \* fault: BEGIN without IMMEDIATE
Unlocked == \A q \in Processes : openers[q].pc # "move"
TimesOut(p) ==
    /\ openers[p].pc \in {"create", "stamp", "to4", "begin"}
    /\ ~Unlocked
    /\ Fails(p)
    /\ UNCHANGED <<db, Files>>

\* _create_schema.
ReadsVersion(p) ==
    /\ openers[p].pc = "down"
    /\ openers' = [openers EXCEPT ![p] = [Down EXCEPT !.pc = "tables", !.version = db.version]]
    /\ UNCHANGED <<db, Files>>

Branch(version) ==
    IF version < 4 THEN "to4" ELSE IF version = 4 THEN "rows" ELSE "open"
ReadsTables(p) ==
    /\ openers[p].pc = "tables"
    /\ Moves(p, IF db.shape = "none" THEN "create" ELSE Branch(openers[p].version))
    /\ UNCHANGED <<db, Files>>

\* executescript outside a transaction: every CREATE TABLE IF NOT EXISTS is on its own.
CreatesSome(p) ==
    /\ openers[p].pc = "create"
    /\ db.shape = "none" /\ Unlocked
    /\ db' = [db EXCEPT !.shape = "some"]
    /\ UNCHANGED <<openers, Files>>
CreatesRest(p) ==
    /\ openers[p].pc = "create"
    /\ db.shape # "none" /\ Unlocked
    /\ db' = [db EXCEPT !.shape = "v5", !.next_event_seq = [s \in Sessions |-> 1]]
    /\ Moves(p, "stamp")
    /\ UNCHANGED Files
Stamps(p) ==
    /\ openers[p].pc = "stamp" /\ Unlocked
    /\ db' = [db EXCEPT !.version = 5]
    /\ Moves(p, "open")
    /\ UNCHANGED Files

\* One script from BEGIN IMMEDIATE to COMMIT.  It only runs on the tables it was written
\* for, and the one from version 1 on those of version 4 too, which have all its columns.
RunsOn(version) ==
    IF version < 2 THEN {"v1", "v4"} ELSE IF version = 2 THEN {"v2"} ELSE {"v3"}
Stops  == "open"                              \* fault: the second migration is forgotten
After4 == "rows"
MigratesTo4(p) ==
    /\ openers[p].pc = "to4" /\ Unlocked
    /\ IF db.shape \in RunsOn(openers[p].version)
       THEN db' = Version4(db, openers[p].version) /\ Moves(p, After4)
       ELSE Fails(p) /\ UNCHANGED db
    /\ UNCHANGED Files

\* _migrate_v4_to_v5: the rows are read, then the transaction begins and adds its columns.
ReadsRows(p) ==
    /\ openers[p].pc = "rows"
    /\ openers' = [openers EXCEPT ![p].pc = "begin", ![p].todo = db.rows]
    /\ UNCHANGED <<db, Files>>
Committed(d) == [d EXCEPT !.shape = "some"]   \* fault: columns added before BEGIN
Pending(d)   == d
Begins(p) ==
    /\ openers[p].pc = "begin" /\ Unlocked
    /\ IF db.shape = "v4"
       THEN Moves(p, "move") /\ db' = Pending(db)
       ELSE Fails(p) /\ UNCHANGED db
    /\ UNCHANGED Files

\* runs, then run_events as they were inserted, then pending_responses: the file first,
\* then the row.
Kind(b) == IF b \in Texts THEN 1 ELSE IF b \in Events THEN 2 ELSE 3
Earlier(b, c) ==
    \/ Kind(b) < Kind(c)
    \/ b \in Events /\ c \in Events /\ b.session = c.session /\ Prior(b, c)
FirstOf(todo) == {b \in todo : \A c \in todo : ~Earlier(c, b)}
Externalizes(p, b) ==
    LET length == IF b \in Events THEN Len(log[b.session]) ELSE 0
    IN  /\ openers[p].pc = "move"
        /\ b \in FirstOf(openers[p].todo)
        /\ IF b \in Events
           THEN log' = [log EXCEPT ![b.session] = Append(@, b)] /\ UNCHANGED objects
           ELSE objects' = objects \cup {b} /\ UNCHANGED log
        /\ openers' = [openers EXCEPT ![p].todo = @ \ {b}, ![p].ref[b] = length + 1]
        /\ UNCHANGED <<db, deaths>>

OnlyRuns(todo) == todo \cap Texts = {}        \* fault: events and answers are left behind
AllDone(todo)  == todo = {}
Commits(p) ==
    /\ openers[p].pc = "move"
    /\ AllDone(openers[p].todo)
    /\ db' = [db EXCEPT !.shape = "v5", !.version = 5, !.inline = {}, !.ref = openers[p].ref]
    /\ Moves(p, "open")
    /\ UNCHANGED Files

\* A process dies, or an exception (a full disk) leaves the constructor; the transaction
\* is rolled back, the files stay, and the line being appended may be cut.
Dies(p) ==
    /\ openers[p].pc # "down"
    /\ deaths < MaxDeaths
    /\ deaths' = deaths + 1
    /\ Fails(p)
    /\ \/ UNCHANGED log
       \/ /\ openers[p].pc = "move"
          /\ \E b \in FirstOf(openers[p].todo) \cap Events :
                log' = [log EXCEPT ![b.session] = Append(@, Torn)]
    /\ UNCHANGED <<db, objects>>

Step(p) ==
    \/ TimesOut(p) \/ ReadsVersion(p) \/ ReadsTables(p)
    \/ CreatesSome(p) \/ CreatesRest(p) \/ Stamps(p)
    \/ MigratesTo4(p) \/ ReadsRows(p) \/ Begins(p)
    \/ \E b \in Bodies : Externalizes(p, b)
    \/ Commits(p)
MigNext == \E p \in Processes : Step(p) \/ Dies(p)
MigSpec == MigInit /\ [][MigNext]_migVars

\* Who is down is started again, and a started process goes on.
MigFair == \A p \in Processes : WF_migVars(Step(p))
FairMigSpec == MigSpec /\ MigFair

-----------------------------------------------------------------------------
(***************************************************************************)
(* Properties.                                                             *)
(***************************************************************************)

\* Database, files and processes are well formed, and one process at most is in the
\* transaction that moves the bodies.
MigTypeOK ==
    /\ db \in Database
    /\ objects \subseteq Texts \cup Pendings
    /\ log \in [Sessions -> Seq(Events \cup {Torn})]
    /\ openers \in [Processes -> Opener]
    /\ \A p, q \in Processes : openers[p].pc = "move" /\ openers[q].pc = "move" => p = q

\* Whoever dies or fails at whatever point of the upgrade, every body of the database is
\* at any time in its column or in the file, at the place, that the committed row names
\* ("a failed backfill drops no old column", docs/storage-pg-jsonl-design.md, section 9).
InFile(b, at) ==
    IF b \in Events THEN at \in DOMAIN log[b.session] /\ log[b.session][at] = b
    ELSE at = 1 /\ b \in objects
BodiesReadable == \A b \in db.rows : b \in db.inline \/ InFile(b, db.ref[b])

\* From version 4 on a session's events are numbered without a gap in the order of its
\* runs and of the events in a run, and next_event_seq is the number after the last:
\* what the event stream's cursor needs, whichever script has numbered them.
OfSession(s) == {e \in Events \cap db.rows : e.session = s}
EventsNumbered ==
    db.shape \in {"v4", "v5"} =>
        \A s \in Sessions :
            /\ {db.session_seq[e] : e \in OfSession(s)} = 1..Cardinality(OfSession(s))
            /\ \A e, f \in OfSession(s) : Prior(e, f) => db.session_seq[e] < db.session_seq[f]
            /\ db.next_event_seq[s] = Cardinality(OfSession(s)) + 1

\* A process serves only on the tables of version 5, marked so, with no body in a column.
OpenMeansCurrent ==
    \A p \in Processes :
        openers[p].pc = "open" => db.shape = "v5" /\ db.version = 5 /\ db.inline = {}

\* However often it dies on the way, a process that is started again and again comes to
\* serve: except over a database whose first creation was cut short before its version
\* number was set, which is taken for one of version 1 and fails ever after.
CreationCut ==
    /\ db.shape \in {"some", "v5"}
    /\ db.version = 0
    /\ \A q \in Processes : openers[q].pc \notin {"create", "stamp"}
ComesToServe ==
    \A p \in Processes : openers[p].pc = "down" ~> (openers[p].pc = "open" \/ CreationCut)
=============================================================================
