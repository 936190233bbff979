--------------------------- MODULE MigrationProofs ---------------------------
(***************************************************************************)
(* For any number of processes, bodies and deaths: the upgrade loses no    *)
(* body, one process at most is in it, nobody serves before it is          *)
(* complete, and events are numbered in order whichever script does it.    *)
(***************************************************************************)
EXTENDS SchemaMigration, FiniteSetTheorems, TLAPS

PCs == {"down", "tables", "create", "stamp", "to4", "rows", "begin", "move", "open"}

\* Shape, version and columns of the database fit together.
Coherent ==
    /\ db.shape \in {"none", "some"} => db.rows = {}
    /\ db.shape # "v5" => db.inline = db.rows
    /\ db.shape = "v5" => db.inline = {}
    /\ db.version = 5 => db.shape = "v5"

\* What a process relies on at its place.  Who is in the transaction has written the
\* bodies that it no longer has to do, and nobody has changed the database meanwhile.
Relies(p) ==
    LET o == openers[p]
    IN  /\ o.pc = "tables" /\ o.version = 5 => db.version = 5
        /\ o.pc = "create" => db.shape \in {"none", "some", "v5"}
        /\ o.pc = "stamp"  => db.shape = "v5"
        /\ o.pc = "open"   => db.version = 5
        /\ o.pc = "begin"  => o.todo = db.rows
        /\ o.pc = "move"   => /\ db.shape = "v4"
                              /\ \A b \in db.rows : b \in o.todo \/ InFile(b, o.ref[b])

UpgradeInv ==
    /\ MigTypeOK
    /\ Coherent
    /\ BodiesReadable
    /\ \A p \in Processes : Relies(p)

-----------------------------------------------------------------------------
\* Counting events.
LEMMA CountsAreNat ==
    ASSUME NEW S \in SUBSET Events
    PROVE  Cardinality(S) \in Nat
  BY MigrationAssumption, FS_Subset, FS_CardinalityType

\* Version4 is a database with the same bodies.
LEMMA Version4Typed ==
    ASSUME NEW d \in Database, NEW version \in 0..5
    PROVE  /\ Version4(d, version) \in Database
           /\ Version4(d, version).shape = "v4"
           /\ Version4(d, version).version = 4
           /\ Version4(d, version).rows = d.rows
           /\ Version4(d, version).inline = d.inline
           /\ Version4(d, version).ref = d.ref
<1>1. PICK n : n = [e \in Events |-> IF e \in d.rows THEN NumberOf(version, e, d.rows) ELSE 0]
  OBVIOUS
<1>2. n \in [Events -> Nat]
  <2>1. ASSUME NEW e \in Events PROVE NumberOf(version, e, d.rows) \in Nat
    <3>1. {f \in SameSession(e, d.rows) : Prior(f, e)} \in SUBSET Events
      BY DEF SameSession
    <3>2. {f \in SameSession(e, d.rows) : UpTo(f, e)} \in SUBSET Events
      BY DEF SameSession
    <3> QED
      BY <3>1, <3>2, CountsAreNat DEF NumberOf, RowNumber, CountUpTo
  <2> QED
    BY <1>1, <2>1
<1>3. PICK m : m = [s \in Sessions |-> 1 + Cardinality({e \in Events \cap d.rows : e.session = s})]
  OBVIOUS
<1>4. m \in [Sessions -> Nat]
  <2>1. ASSUME NEW s \in Sessions
        PROVE  Cardinality({e \in Events \cap d.rows : e.session = s}) \in Nat
    <3>1. {e \in Events \cap d.rows : e.session = s} \in SUBSET Events
      OBVIOUS
    <3> QED
      BY <3>1, CountsAreNat
  <2> QED
    BY <1>3, <2>1
<1>5. Version4(d, version) =
        [d EXCEPT !.shape = "v4", !.version = 4, !.session_seq = n, !.next_event_seq = m]
  BY <1>1, <1>3 DEF Version4
<1>6. Version4(d, version) =
        [shape |-> "v4", version |-> 4, rows |-> d.rows, inline |-> d.inline, ref |-> d.ref,
         session_seq |-> n, next_event_seq |-> m]
  BY <1>5 DEF Database
<1>7. d.rows \in SUBSET Bodies /\ d.inline \in SUBSET Bodies /\ d.ref \in [Bodies -> Nat]
  BY DEF Database
<1>8. Version4(d, version) \in Database
  BY <1>2, <1>4, <1>6, <1>7 DEF Database, Shapes
<1> QED
  BY <1>6, <1>8

\* A process moves on; the others stay.
LEMMA MovesTo ==
    ASSUME openers \in [Processes -> Opener], NEW p \in Processes, NEW pc \in PCs, Moves(p, pc)
    PROVE  /\ openers' \in [Processes -> Opener]
           /\ openers'[p].pc = pc
           /\ openers'[p].version = openers[p].version
           /\ openers'[p].todo = openers[p].todo
           /\ openers'[p].ref = openers[p].ref
           /\ \A q \in Processes \ {p} : openers'[q] = openers[q]
<1>1. openers[p] \in Opener
  OBVIOUS
<1>2. PICK o : o = [openers[p] EXCEPT !.pc = pc]
  OBVIOUS
<1>3. /\ o \in Opener /\ o.pc = pc
      /\ o.version = openers[p].version /\ o.todo = openers[p].todo /\ o.ref = openers[p].ref
  BY <1>1, <1>2 DEF Opener, PCs
<1>4. openers' = [openers EXCEPT ![p] = o]
  BY <1>2 DEF Moves
<1> QED
  BY <1>3, <1>4

\* A process that fails forgets what it did; the others go on.
LEMMA FailsTo ==
    ASSUME openers \in [Processes -> Opener], NEW p \in Processes, Fails(p)
    PROVE  /\ openers' \in [Processes -> Opener]
           /\ openers'[p].pc = "down"
           /\ \A q \in Processes \ {p} : openers'[q] = openers[q]
<1>1. Down \in Opener /\ Down.pc = "down"
  BY DEF Down, Opener, Nowhere
<1> QED
  BY <1>1 DEF Fails

\* Files only grow: what a row refers to stays where it is.
LEMMA FilesGrow ==
    ASSUME NEW b \in Bodies, NEW at,
           objects \subseteq objects',
           \A s \in Sessions : \A i \in DOMAIN log[s] : i \in DOMAIN log'[s] /\ log'[s][i] = log[s][i],
           InFile(b, at)
    PROVE  InFile(b, at)'
  BY DEF InFile, Sessions

\* Nobody has opened the file.
LEMMA MigInitInv == MigInit => UpgradeInv
<1> SUFFICES ASSUME MigInit PROVE UpgradeInv
  OBVIOUS
<1>1. ASSUME NEW shape \in Shapes \ {"v5"}, NEW version \in 0..4, NEW rows \in SUBSET Bodies,
             shape \in {"none", "some"} => rows = {}
      PROVE  LET d == OldDatabase(shape, version, rows)
             IN  /\ d \in Database /\ d.shape = shape /\ d.version = version
                 /\ d.rows = rows /\ d.inline = rows
  BY DEF OldDatabase, Database, Shapes, Nowhere, Unnumbered
<1> DEFINE Old == /\ db \in Database /\ db.shape # "v5" /\ db.version \in 0..4
                  /\ db.inline = db.rows
                  /\ db.shape \in {"none", "some"} => db.rows = {}
<1>2. Old
  <2>1. CASE db = OldDatabase("none", 0, {})
    BY <1>1, <2>1 DEF Shapes
  <2>2. ASSUME NEW shape \in DOMAIN OldVersion, NEW rows \in SUBSET Bodies,
               NEW version \in OldVersion[shape],
               db = IF shape = "v4" THEN Version4(OldDatabase(shape, version, rows), 1)
                    ELSE OldDatabase(shape, version, rows)
        PROVE  Old
    <3>1. shape \in {"v1", "v2", "v3", "v4"} /\ version \in 0..4
      BY DEF OldVersion
    <3>2. PICK d : d = OldDatabase(shape, version, rows)
      OBVIOUS
    <3>3. d \in Database /\ d.shape = shape /\ d.version = version /\ d.rows = rows /\ d.inline = rows
      BY <1>1, <3>1, <3>2 DEF Shapes
    <3>4. CASE shape = "v4"
      BY <2>2, <3>2, <3>3, <3>4, Version4Typed
    <3>5. CASE shape # "v4"
      BY <2>2, <3>1, <3>2, <3>3, <3>5
    <3> QED
      BY <3>4, <3>5
  <2> QED
    BY <2>1, <2>2 DEF MigInit
<1>3. openers \in [Processes -> Opener] /\ \A p \in Processes : openers[p].pc = "down"
  BY DEF MigInit, Down, Opener, Nowhere
<1>4. objects = {} /\ log \in [Sessions -> Seq(Events \cup {Torn})]
  BY DEF MigInit
<1> QED
  BY <1>2, <1>3, <1>4 DEF UpgradeInv, MigTypeOK, Coherent, BodiesReadable, Relies

-----------------------------------------------------------------------------
\* Who leaves the database and the files alone disturbs nobody else.
LEMMA OthersRely ==
    ASSUME UpgradeInv, UNCHANGED <<db, objects, log>>,
           NEW p \in Processes, \A q \in Processes \ {p} : openers'[q] = openers[q],
           openers' \in [Processes -> Opener],
           openers'[p].pc = "move" => openers[p].pc = "move" \/ Unlocked,
           Relies(p)'
    PROVE  UpgradeInv'
<1>1. \A q \in Processes : Relies(q)'
  BY DEF UpgradeInv, Relies, InFile
<1>2. Coherent' /\ BodiesReadable'
  BY DEF UpgradeInv, Coherent, BodiesReadable, InFile
<1>3. MigTypeOK'
  BY DEF UpgradeInv, MigTypeOK, Unlocked
<1> QED
  BY <1>1, <1>2, <1>3 DEF UpgradeInv

\* Who only moves on: reads, waits or fails.
LEMMA QuietSteps ==
    ASSUME UpgradeInv, NEW p \in Processes,
           TimesOut(p) \/ ReadsVersion(p) \/ ReadsTables(p) \/ ReadsRows(p)
    PROVE  UpgradeInv'
<1>0. openers \in [Processes -> Opener] /\ db \in Database
  BY DEF UpgradeInv, MigTypeOK
<1>1. CASE TimesOut(p)
  BY <1>0, <1>1, FailsTo, OthersRely DEF TimesOut, Files, Relies
<1>2. CASE ReadsVersion(p)
  <2>1. PICK o : o = [Down EXCEPT !.pc = "tables", !.version = db.version]
    OBVIOUS
  <2>2. o \in Opener /\ o.pc = "tables" /\ o.version = db.version
    BY <1>0, <2>1 DEF Down, Opener, Nowhere, Database
  <2>3. openers' = [openers EXCEPT ![p] = o] /\ UNCHANGED <<db, objects, log>>
    BY <1>2, <2>1 DEF ReadsVersion, Files
  <2>4. /\ openers' \in [Processes -> Opener] /\ openers'[p] = o
        /\ \A q \in Processes \ {p} : openers'[q] = openers[q]
    BY <1>0, <2>2, <2>3
  <2>5. Relies(p)'
    BY <2>2, <2>3, <2>4 DEF Relies
  <2> QED
    BY <2>2, <2>3, <2>4, <2>5, OthersRely
<1>3. CASE ReadsTables(p)
  <2>1. UNCHANGED <<db, objects, log>>
    BY <1>3 DEF ReadsTables, Files
  <2>2. openers[p].pc = "tables" /\ openers[p].version \in 0..5
    BY <1>0, <1>3 DEF ReadsTables, Opener
  <2>3. PICK pc \in {"create", "to4", "rows", "open"} :
            /\ Moves(p, pc)
            /\ pc = "create" => db.shape = "none"
            /\ pc = "open" => openers[p].version = 5
    BY <1>3, <2>2 DEF ReadsTables, Branch
  <2>4. /\ openers' \in [Processes -> Opener] /\ openers'[p].pc = pc
        /\ \A q \in Processes \ {p} : openers'[q] = openers[q]
    BY <1>0, <2>3, MovesTo DEF PCs
  <2>5. Relies(p)'
    <3>1. Coherent /\ Relies(p) /\ openers'[p].pc \in {"create", "to4", "rows", "open"}
      BY <2>3, <2>4 DEF UpgradeInv
    <3> QED
      BY <2>1, <2>2, <2>3, <2>4, <3>1 DEF Relies
  <2> QED
    BY <2>1, <2>3, <2>4, <2>5, OthersRely
<1>4. CASE ReadsRows(p)
  <2>1. PICK o : o = [openers[p] EXCEPT !.pc = "begin", !.todo = db.rows]
    OBVIOUS
  <2>2. o \in Opener /\ o.pc = "begin" /\ o.todo = db.rows
    BY <1>0, <2>1, ZenonT(40) DEF Opener, Database
  <2>3. openers' = [openers EXCEPT ![p] = o] /\ UNCHANGED <<db, objects, log>>
    BY <1>4, <2>1 DEF ReadsRows, Files
  <2>4. /\ openers' \in [Processes -> Opener] /\ openers'[p] = o
        /\ \A q \in Processes \ {p} : openers'[q] = openers[q]
    BY <1>0, <2>2, <2>3
  <2>5. Relies(p)'
    BY <2>2, <2>3, <2>4 DEF Relies
  <2> QED
    BY <2>2, <2>3, <2>4, <2>5, OthersRely
<1> QED
  BY <1>1, <1>2, <1>3, <1>4

\* The database changes only while nobody is in the transaction, or by who is in it.
LEMMA CreationSteps ==
    ASSUME UpgradeInv, NEW p \in Processes,
           CreatesSome(p) \/ CreatesRest(p) \/ Stamps(p)
    PROVE  UpgradeInv'
<1>0. openers \in [Processes -> Opener] /\ db \in Database /\ Unlocked /\ Relies(p)
  BY DEF UpgradeInv, MigTypeOK, CreatesSome, CreatesRest, Stamps
<1>1. CASE CreatesSome(p)
  <2>1. PICK d : d = [db EXCEPT !.shape = "some"]
    OBVIOUS
  <2>2. /\ d \in Database /\ d.shape = "some" /\ d.version = db.version
        /\ d.rows = db.rows /\ d.inline = db.inline /\ d.ref = db.ref
    BY <1>0, <2>1 DEF Database, Shapes
  <2>3. db' = d /\ UNCHANGED <<openers, objects, log>> /\ db.shape = "none"
    BY <1>1, <2>1 DEF CreatesSome, Files
  <2>4. Coherent' /\ MigTypeOK' /\ BodiesReadable'
    BY <2>2, <2>3 DEF UpgradeInv, Coherent, MigTypeOK, BodiesReadable
  <2>5. \A q \in Processes : Relies(q)'
    BY <1>0, <2>2, <2>3 DEF UpgradeInv, Coherent, Relies, Unlocked
  <2> QED
    BY <2>4, <2>5 DEF UpgradeInv
<1>2. CASE CreatesRest(p)
  <2>1. PICK d : d = [db EXCEPT !.shape = "v5", !.next_event_seq = [s \in Sessions |-> 1]]
    OBVIOUS
  <2>2. /\ d \in Database /\ d.shape = "v5" /\ d.version = db.version
        /\ d.rows = db.rows /\ d.inline = db.inline /\ d.ref = db.ref
    BY <1>0, <2>1 DEF Database, Shapes
  <2>3. /\ db' = d /\ UNCHANGED <<objects, log>> /\ Moves(p, "stamp")
        /\ db.shape \in {"some", "v5"} /\ openers[p].pc = "create"
    BY <1>0, <1>2, <2>1 DEF CreatesRest, Files, Relies
  <2>4. /\ openers' \in [Processes -> Opener] /\ openers'[p].pc = "stamp"
        /\ \A q \in Processes \ {p} : openers'[q] = openers[q]
    BY <1>0, <2>3, MovesTo DEF PCs
  <2>5. db.inline = {}
    BY <2>3 DEF UpgradeInv, Coherent
  <2>6. Coherent' /\ MigTypeOK'
    BY <1>0, <2>2, <2>3, <2>4, <2>5 DEF UpgradeInv, Coherent, MigTypeOK, Unlocked
  <2>7. BodiesReadable'
    BY <2>2, <2>3, <2>5 DEF UpgradeInv, BodiesReadable, InFile
  <2>8. \A q \in Processes : Relies(q)'
    BY <1>0, <2>2, <2>3, <2>4 DEF UpgradeInv, Relies, Unlocked
  <2> QED
    BY <2>6, <2>7, <2>8 DEF UpgradeInv
<1>3. CASE Stamps(p)
  <2>1. PICK d : d = [db EXCEPT !.version = 5]
    OBVIOUS
  <2>2. /\ d \in Database /\ d.shape = db.shape /\ d.version = 5
        /\ d.rows = db.rows /\ d.inline = db.inline /\ d.ref = db.ref
    BY <1>0, <2>1 DEF Database
  <2>3. db' = d /\ UNCHANGED <<objects, log>> /\ Moves(p, "open") /\ db.shape = "v5"
    BY <1>0, <1>3, <2>1 DEF Stamps, Files, Relies
  <2>4. /\ openers' \in [Processes -> Opener] /\ openers'[p].pc = "open"
        /\ \A q \in Processes \ {p} : openers'[q] = openers[q]
    BY <1>0, <2>3, MovesTo DEF PCs
  <2>6. Coherent' /\ MigTypeOK'
    BY <1>0, <2>2, <2>3, <2>4 DEF UpgradeInv, Coherent, MigTypeOK, Unlocked
  <2>7. BodiesReadable'
    BY <2>2, <2>3 DEF UpgradeInv, BodiesReadable, InFile
  <2>8. \A q \in Processes : Relies(q)'
    BY <1>0, <2>2, <2>3, <2>4 DEF UpgradeInv, Relies, Unlocked
  <2> QED
    BY <2>6, <2>7, <2>8 DEF UpgradeInv
<1> QED
  BY <1>1, <1>2, <1>3

\* The one-transaction scripts bring the tables of any earlier version to version 4.
LEMMA ToVersion4 ==
    ASSUME UpgradeInv, NEW p \in Processes, MigratesTo4(p)
    PROVE  UpgradeInv'
<1>0. openers \in [Processes -> Opener] /\ db \in Database /\ Unlocked /\ Relies(p)
  BY DEF UpgradeInv, MigTypeOK, MigratesTo4
<1>1. openers[p].version \in 0..5 /\ UNCHANGED <<objects, log>>
  BY <1>0 DEF Opener, MigratesTo4, Files
<1>2. CASE db.shape \in RunsOn(openers[p].version)
  <2>1. PICK d : d = Version4(db, openers[p].version)
    OBVIOUS
  <2>2. /\ d \in Database /\ d.shape = "v4" /\ d.version = 4
        /\ d.rows = db.rows /\ d.inline = db.inline /\ d.ref = db.ref
    BY <1>0, <1>1, <2>1, Version4Typed
  <2>3. db' = d /\ Moves(p, "rows") /\ db.shape \in {"v1", "v2", "v3", "v4"}
    BY <1>2, <2>1 DEF MigratesTo4, After4, RunsOn
  <2>4. /\ openers' \in [Processes -> Opener] /\ openers'[p].pc = "rows"
        /\ \A q \in Processes \ {p} : openers'[q] = openers[q]
    BY <1>0, <2>3, MovesTo DEF PCs
  <2>5. db.inline = db.rows
    BY <2>3 DEF UpgradeInv, Coherent
  <2>6. Coherent' /\ MigTypeOK'
    BY <1>0, <1>1, <2>2, <2>3, <2>4, <2>5 DEF UpgradeInv, Coherent, MigTypeOK, Unlocked
  <2>7. BodiesReadable'
    BY <2>2, <2>3, <2>5 DEF BodiesReadable
  <2>8. \A q \in Processes : Relies(q)'
    <3>1. db.version # 5
      BY <2>3 DEF UpgradeInv, Coherent
    <3>2. \A q \in Processes \ {p} : openers[q].pc \notin {"create", "stamp", "open", "move"}
                                    \/ openers[q].pc = "create"
      BY <1>0, <2>3, <3>1 DEF UpgradeInv, Relies, Unlocked
    <3>3. \A q \in Processes \ {p} : openers[q].pc # "create"
      BY <1>0, <2>3 DEF UpgradeInv, Relies
    <3> QED
      BY <2>2, <2>3, <2>4, <3>1, <3>2, <3>3 DEF UpgradeInv, Relies
  <2> QED
    BY <2>6, <2>7, <2>8 DEF UpgradeInv
<1>3. CASE db.shape \notin RunsOn(openers[p].version)
  <2>1. Fails(p) /\ UNCHANGED <<db, objects, log>>
    BY <1>1, <1>3 DEF MigratesTo4
  <2> QED
    BY <1>0, <2>1, FailsTo, OthersRely DEF Relies
<1> QED
  BY <1>2, <1>3

\* BEGIN IMMEDIATE, by one process at most.
LEMMA BeginsTransaction ==
    ASSUME UpgradeInv, NEW p \in Processes, Begins(p)
    PROVE  UpgradeInv'
<1>0. openers \in [Processes -> Opener] /\ db \in Database /\ Unlocked /\ Relies(p)
  BY DEF UpgradeInv, MigTypeOK, Begins
<1>1. UNCHANGED <<db, objects, log>> /\ openers[p].pc = "begin"
  BY DEF Begins, Files, Pending
<1>2. CASE db.shape = "v4"
  <2>1. Moves(p, "move")
    BY <1>2 DEF Begins
  <2>2. /\ openers' \in [Processes -> Opener] /\ openers'[p].pc = "move"
        /\ openers'[p].todo = openers[p].todo
        /\ \A q \in Processes \ {p} : openers'[q] = openers[q]
    BY <1>0, <2>1, MovesTo DEF PCs
  <2>3. Relies(p)'
    BY <1>0, <1>1, <1>2, <2>2 DEF Relies
  <2> QED
    BY <1>0, <1>1, <2>2, <2>3, OthersRely
<1>3. CASE db.shape # "v4"
  <2>1. Fails(p)
    BY <1>3 DEF Begins
  <2> QED
    BY <1>0, <1>1, <2>1, FailsTo, OthersRely DEF Relies
<1> QED
  BY <1>2, <1>3

\* A line appended to a log leaves the lines before it where they are.
LEMMA Appends ==
    ASSUME log \in [Sessions -> Seq(Events \cup {Torn})], NEW s \in Sessions,
           NEW line \in Events \cup {Torn}, log' = [log EXCEPT ![s] = Append(@, line)]
    PROVE  /\ log' \in [Sessions -> Seq(Events \cup {Torn})]
           /\ Len(log[s]) \in Nat
           /\ Len(log[s]) + 1 \in DOMAIN log'[s] /\ log'[s][Len(log[s]) + 1] = line
           /\ \A r \in Sessions : \A i \in DOMAIN log[r] : i \in DOMAIN log'[r] /\ log'[r][i] = log[r][i]
<1>1. PICK l : l = log[s]
  OBVIOUS
<1>2. l \in Seq(Events \cup {Torn}) /\ Len(l) \in Nat /\ DOMAIN l = 1..Len(l)
  BY <1>1
<1>3. PICK m : m = Append(l, line)
  OBVIOUS
<1>4. /\ m \in Seq(Events \cup {Torn}) /\ Len(m) = Len(l) + 1 /\ DOMAIN m = 1..Len(m)
      /\ m[Len(l) + 1] = line /\ \A i \in 1..Len(l) : m[i] = l[i]
  BY <1>2, <1>3
<1>5. log' = [log EXCEPT ![s] = m]
  BY <1>1, <1>3
<1> QED
  BY <1>1, <1>2, <1>4, <1>5

\* A body is written to its file before anything refers to it.
LEMMA WritesBody ==
    ASSUME UpgradeInv, NEW p \in Processes, NEW b \in Bodies, Externalizes(p, b)
    PROVE  UpgradeInv'
<1>0. /\ openers \in [Processes -> Opener] /\ db \in Database /\ openers[p].pc = "move"
      /\ log \in [Sessions -> Seq(Events \cup {Torn})] /\ objects \subseteq Texts \cup Pendings
      /\ openers[p].todo \in SUBSET Bodies /\ db' = db
  BY DEF UpgradeInv, MigTypeOK, Externalizes, Opener, Files
<1>1. PICK at : at = (IF b \in Events THEN Len(log[b.session]) ELSE 0) + 1
  OBVIOUS
<1>2. /\ at \in Nat
      /\ log' \in [Sessions -> Seq(Events \cup {Torn})] /\ objects' \subseteq Texts \cup Pendings
      /\ objects \subseteq objects'
      /\ \A s \in Sessions : \A i \in DOMAIN log[s] : i \in DOMAIN log'[s] /\ log'[s][i] = log[s][i]
      /\ InFile(b, at)'
  <2>1. CASE b \in Events
    <3>1. b.session \in Sessions /\ b \in Events \cup {Torn}
      BY <2>1 DEF Sessions
    <3>2. log' = [log EXCEPT ![b.session] = Append(@, b)] /\ objects' = objects
      BY <2>1 DEF Externalizes
    <3> QED
      BY <1>0, <1>1, <2>1, <3>1, <3>2, Appends DEF InFile
  <2>2. CASE b \notin Events
    <3>1. objects' = objects \cup {b} /\ log' = log /\ b \in Texts \cup Pendings
      BY <2>2 DEF Externalizes, Bodies
    <3> QED
      BY <1>0, <1>1, <2>2, <3>1 DEF InFile
  <2> QED
    BY <2>1, <2>2
<1>3. PICK o : o = [openers[p] EXCEPT !.todo = @ \ {b}, !.ref[b] = at]
  OBVIOUS
<1>4. /\ o \in Opener /\ o.pc = "move" /\ o.todo = openers[p].todo \ {b}
      /\ o.ref[b] = at /\ \A c \in Bodies \ {b} : o.ref[c] = openers[p].ref[c]
  <2>1. PICK ref : ref = [openers[p].ref EXCEPT ![b] = at]
    OBVIOUS
  <2>2. /\ ref \in [Bodies -> Nat] /\ ref[b] = at
        /\ \A c \in Bodies \ {b} : ref[c] = openers[p].ref[c]
    BY <1>0, <1>2, <2>1 DEF Opener
  <2>3. o = [openers[p] EXCEPT !.todo = openers[p].todo \ {b}, !.ref = ref]
    BY <1>0, <1>3, <2>1 DEF Opener
  <2> QED
    BY <1>0, <2>2, <2>3 DEF Opener
<1>5. openers' = [openers EXCEPT ![p] = o]
  BY <1>0, <1>1, <1>3 DEF Externalizes, Opener
<1>6. /\ openers' \in [Processes -> Opener] /\ openers'[p] = o
      /\ \A q \in Processes \ {p} : openers'[q] = openers[q]
  BY <1>0, <1>4, <1>5
<1>7. \A c \in Bodies : \A n : InFile(c, n) => InFile(c, n)'
  BY <1>2, FilesGrow
<1>8. MigTypeOK' /\ Coherent'
  BY <1>0, <1>2, <1>4, <1>6 DEF UpgradeInv, MigTypeOK, Coherent
<1>9. db.rows \subseteq Bodies
  BY <1>0 DEF Database
<1>10. BodiesReadable'
  <2> SUFFICES ASSUME NEW c \in db.rows, c \notin db.inline
               PROVE  InFile(c, db.ref[c])'
    BY <1>0 DEF BodiesReadable
  <2>1. PICK n : n = db.ref[c]
    OBVIOUS
  <2>2. InFile(c, n)
    BY <2>1 DEF UpgradeInv, BodiesReadable
  <2>3. InFile(c, n)'
    BY <1>7, <1>9, <2>2
  <2> QED
    BY <1>0, <2>1, <2>3 DEF InFile
<1>11. Relies(p)'
  <2>1. db.shape = "v4"
    BY <1>0 DEF UpgradeInv, Relies
  <2>2. ASSUME NEW c \in db.rows, c \notin o.todo PROVE InFile(c, o.ref[c])'
    <3>1. CASE c = b
      BY <1>2, <1>4, <3>1 DEF InFile
    <3>2. CASE c # b
      <4>1. PICK n : n = openers[p].ref[c]
        OBVIOUS
      <4>2. InFile(c, n)
        BY <1>0, <1>4, <2>2, <3>2, <4>1 DEF UpgradeInv, Relies
      <4>3. InFile(c, n)'
        BY <1>7, <1>9, <4>2
      <4>4. o.ref[c] = n
        BY <1>4, <1>9, <3>2, <4>1
      <4> QED
        BY <4>3, <4>4 DEF InFile
    <3> QED
      BY <3>1, <3>2
  <2> QED
    BY <1>0, <1>4, <1>6, <2>1, <2>2 DEF Relies, InFile
<1>12. \A q \in Processes \ {p} : Relies(q)'
  <2>1. \A q \in Processes \ {p} : openers[q].pc # "move"
    BY <1>0 DEF UpgradeInv, MigTypeOK
  <2> QED
    BY <1>0, <1>6, <2>1 DEF UpgradeInv, Relies
<1> QED
  BY <1>8, <1>10, <1>11, <1>12 DEF UpgradeInv

\* The commit exchanges columns for references to bodies that are all in their files.
LEMMA CommitsUpgrade ==
    ASSUME UpgradeInv, NEW p \in Processes, Commits(p)
    PROVE  UpgradeInv'
<1>0. /\ openers \in [Processes -> Opener] /\ db \in Database /\ Relies(p)
      /\ openers[p].pc = "move" /\ openers[p].todo = {} /\ UNCHANGED <<objects, log>>
  BY DEF UpgradeInv, MigTypeOK, Commits, AllDone, Files
<1>1. PICK ref : ref = openers[p].ref
  OBVIOUS
<1>2. PICK d : d = [db EXCEPT !.shape = "v5", !.version = 5, !.inline = {}, !.ref = ref]
  OBVIOUS
<1>3. /\ d \in Database /\ d.shape = "v5" /\ d.version = 5
      /\ d.rows = db.rows /\ d.inline = {} /\ d.ref = ref
  <2>1. ref \in [Bodies -> Nat]
    BY <1>0, <1>1 DEF Opener
  <2>2. /\ db.rows \in SUBSET Bodies /\ db.session_seq \in [Events -> Nat]
        /\ db.next_event_seq \in [Sessions -> Nat]
    BY <1>0 DEF Database
  <2>3. d = [shape |-> "v5", version |-> 5, rows |-> db.rows, inline |-> {}, ref |-> ref,
             session_seq |-> db.session_seq, next_event_seq |-> db.next_event_seq]
    BY <1>0, <1>2 DEF Database
  <2> QED
    BY <2>1, <2>2, <2>3 DEF Database, Shapes
<1>4. db' = d /\ Moves(p, "open")
  BY <1>1, <1>2 DEF Commits
<1>5. /\ openers' \in [Processes -> Opener] /\ openers'[p].pc = "open"
      /\ \A q \in Processes \ {p} : openers'[q] = openers[q]
  BY <1>0, <1>4, MovesTo DEF PCs
<1>6. \A q \in Processes \ {p} : openers[q].pc # "move"
  BY <1>0 DEF UpgradeInv, MigTypeOK
<1>7. Coherent' /\ MigTypeOK'
  BY <1>0, <1>3, <1>4, <1>5, <1>6 DEF UpgradeInv, Coherent, MigTypeOK
<1>8. BodiesReadable'
  BY <1>0, <1>1, <1>3, <1>4 DEF BodiesReadable, Relies, InFile
<1>9. \A q \in Processes : Relies(q)'
  <2>1. db.shape = "v4" /\ db.version # 5
    BY <1>0 DEF Relies, UpgradeInv, Coherent
  <2> QED
    BY <1>3, <1>4, <1>5, <1>6, <2>1 DEF UpgradeInv, Relies
<1> QED
  BY <1>7, <1>8, <1>9 DEF UpgradeInv

\* A process dies and may leave a line cut short.
LEMMA Death ==
    ASSUME UpgradeInv, NEW p \in Processes, Dies(p)
    PROVE  UpgradeInv'
<1>0. /\ openers \in [Processes -> Opener] /\ db \in Database
      /\ log \in [Sessions -> Seq(Events \cup {Torn})]
      /\ Fails(p) /\ UNCHANGED <<db, objects>>
  BY DEF UpgradeInv, MigTypeOK, Dies
<1>1. /\ openers' \in [Processes -> Opener] /\ openers'[p].pc = "down"
      /\ \A q \in Processes \ {p} : openers'[q] = openers[q]
  BY <1>0, FailsTo
<1>2. CASE UNCHANGED log
  BY <1>0, <1>1, <1>2, OthersRely DEF Relies
<1>3. ASSUME NEW b \in Events, openers[p].pc = "move",
             log' = [log EXCEPT ![b.session] = Append(@, Torn)]
      PROVE  UpgradeInv'
  <2>1. b.session \in Sessions
    BY DEF Sessions
  <2>2. /\ log' \in [Sessions -> Seq(Events \cup {Torn})]
        /\ \A s \in Sessions : \A i \in DOMAIN log[s] : i \in DOMAIN log'[s] /\ log'[s][i] = log[s][i]
    BY <1>0, <1>3, <2>1, Appends
  <2>3. MigTypeOK' /\ Coherent'
    BY <1>0, <1>1, <2>2 DEF UpgradeInv, MigTypeOK, Coherent
  <2>4. BodiesReadable'
    <3> SUFFICES ASSUME NEW c \in db.rows, c \notin db.inline
                 PROVE  InFile(c, db.ref[c])'
      BY <1>0 DEF BodiesReadable
    <3>1. PICK n : n = db.ref[c]
      OBVIOUS
    <3>2. InFile(c, n) /\ c \in Bodies
      BY <1>0, <3>1 DEF UpgradeInv, BodiesReadable, Database
    <3>3. InFile(c, n)'
      BY <1>0, <2>2, <3>2, FilesGrow
    <3> QED
      BY <1>0, <3>1, <3>3 DEF InFile
  <2>5. \A q \in Processes : Relies(q)'
    <3>1. \A q \in Processes \ {p} : openers[q].pc # "move"
      BY <1>3 DEF UpgradeInv, MigTypeOK
    <3> QED
      BY <1>0, <1>1, <3>1 DEF UpgradeInv, Relies
  <2> QED
    BY <2>3, <2>4, <2>5 DEF UpgradeInv
<1> QED
  BY <1>2, <1>3 DEF Dies

\* Every step of every process keeps the invariant of the upgrade.
LEMMA UpgradeStep == UpgradeInv /\ [MigNext]_migVars => UpgradeInv'
<1> SUFFICES ASSUME UpgradeInv, [MigNext]_migVars PROVE UpgradeInv'
  OBVIOUS
<1>1. ASSUME NEW p \in Processes, Step(p) PROVE UpgradeInv'
  BY <1>1, QuietSteps, CreationSteps, ToVersion4, BeginsTransaction, WritesBody, CommitsUpgrade DEF Step
<1>2. ASSUME NEW p \in Processes, Dies(p) PROVE UpgradeInv'
  BY <1>2, Death
<1>3. CASE UNCHANGED migVars
  BY <1>3 DEF migVars, UpgradeInv, MigTypeOK, Coherent, BodiesReadable, Relies, InFile
<1> QED
  BY <1>1, <1>2, <1>3 DEF MigNext

-----------------------------------------------------------------------------
\* Every reachable state satisfies the invariant: what the transactions of _create_schema and
\* the four migrations have done to the file agrees with the position of every process.
THEOREM UpgradeInvTheorem == MigSpec => []UpgradeInv
  BY MigInitInv, UpgradeStep, PTL DEF MigSpec

\* Well formed, and one process at most is in the transaction that moves the bodies.
THEOREM MigTypesTheorem == MigSpec => []MigTypeOK
<1>1. UpgradeInv => MigTypeOK
  BY DEF UpgradeInv
<1> QED
  BY <1>1, UpgradeInvTheorem, PTL

\* The upgrade loses no body, for any number of processes and deaths.
THEOREM BodiesReadableTheorem == MigSpec => []BodiesReadable
<1>1. UpgradeInv => BodiesReadable
  BY DEF UpgradeInv
<1> QED
  BY <1>1, UpgradeInvTheorem, PTL

\* Nobody serves on tables of an earlier version or on half an upgrade.
THEOREM OpenMeansCurrentTheorem == MigSpec => []OpenMeansCurrent
<1>1. UpgradeInv => OpenMeansCurrent
  BY DEF UpgradeInv, Relies, Coherent, OpenMeansCurrent
<1> QED
  BY <1>1, UpgradeInvTheorem, PTL

-----------------------------------------------------------------------------
\* Rank(S, e) numbers the events S of one session as both scripts do.
Rank(S, e) == Cardinality({f \in S : Prior(f, e)}) + 1

\* Events of a session are in one order.
LEMMA PriorOrder ==
    ASSUME NEW e \in Events, NEW f \in Events, e.session = f.session
    PROVE  /\ ~Prior(e, e)
           /\ Prior(e, f) \/ Prior(f, e) \/ e = f
           /\ UpTo(f, e) <=> (Prior(f, e) \/ f = e)
           /\ \A g \in Events : Prior(g, e) /\ Prior(e, f) => Prior(g, f)
<1>1. \A g \in Events : g \in [session : Sessions, run : Nat, seq : Nat]
  BY MigrationAssumption
<1>2. e.run = f.run /\ e.seq = f.seq => e = f
  BY <1>1
<1>3. \A g \in Events : g.run \in Nat /\ g.seq \in Nat
  BY <1>1
<1> QED
  BY <1>2, <1>3 DEF Prior, UpTo

\* The numbers of a session's events are 1, 2, ... in their order.
LEMMA RanksInOrder ==
    ASSUME NEW S \in SUBSET Events, \A e, f \in S : e.session = f.session
    PROVE  /\ {Rank(S, e) : e \in S} = 1..Cardinality(S)
           /\ \A e, f \in S : Prior(e, f) => Rank(S, e) < Rank(S, f)
<1>1. IsFiniteSet(S)
  BY MigrationAssumption, FS_Subset
<1>2. PICK n \in Nat : n = Cardinality(S)
  BY <1>1, FS_CardinalityType
<1>3. ASSUME NEW e \in S
      PROVE  /\ IsFiniteSet({f \in S : Prior(f, e)})
             /\ Cardinality({f \in S : Prior(f, e)}) \in Nat
             /\ Cardinality({f \in S : Prior(f, e)} \cup {e}) = Rank(S, e)
             /\ Rank(S, e) \in 1..n /\ Rank(S, e) \in Nat
  <2>1. PICK A : A = {f \in S : Prior(f, e)}
    OBVIOUS
  <2>2. IsFiniteSet(A)
    BY <1>1, <2>1, FS_Subset
  <2>3. PICK k \in Nat : k = Cardinality(A)
    BY <2>2, FS_CardinalityType
  <2>4. e \notin A
    BY <2>1, PriorOrder
  <2>5. Cardinality(A \cup {e}) = k + 1
    BY <2>2, <2>3, <2>4, FS_AddElement
  <2>6. A \cup {e} \subseteq S
    BY <2>1
  <2>7. k + 1 <= n
    BY <1>1, <1>2, <2>5, <2>6, FS_Subset
  <2>8. Rank(S, e) = k + 1
    BY <2>1, <2>3 DEF Rank
  <2> QED
    BY <1>2, <2>1, <2>2, <2>3, <2>5, <2>7, <2>8
<1>4. ASSUME NEW e \in S, NEW f \in S, Prior(e, f)
      PROVE  Rank(S, e) < Rank(S, f)
  <2>1. {g \in S : Prior(g, e)} \cup {e} \subseteq {g \in S : Prior(g, f)}
    BY <1>4, PriorOrder
  <2>2. Cardinality({g \in S : Prior(g, e)} \cup {e}) <= Cardinality({g \in S : Prior(g, f)})
    BY <1>3, <2>1, FS_Subset
  <2>3. Rank(S, e) <= Cardinality({g \in S : Prior(g, f)})
    BY <1>3, <2>2
  <2>4. Rank(S, e) \in Nat /\ Rank(S, f) \in Nat /\ Cardinality({g \in S : Prior(g, f)}) \in Nat
    BY <1>3
  <2> QED
    BY <2>3, <2>4 DEF Rank
<1>5. PICK rank : rank = [e \in S |-> Rank(S, e)]
  OBVIOUS
<1>6. rank \in [S -> 1..n]
  BY <1>3, <1>5
<1>7. \A e, f \in S : rank[e] = rank[f] => e = f
  <2> SUFFICES ASSUME NEW e \in S, NEW f \in S, Rank(S, e) = Rank(S, f) PROVE e = f
    BY <1>5
  <2>1. Rank(S, e) \in Nat
    BY <1>3
  <2>2. ~Prior(e, f) /\ ~Prior(f, e)
    BY <1>4, <2>1
  <2> QED
    BY <2>2, PriorOrder
<1>8. rank \in Injection(S, 1..n)
  BY <1>6, <1>7 DEF Injection, IsInjective
<1>9. IsFiniteSet(1..n) /\ Cardinality(1..n) = n
  BY <1>2, FS_Interval
<1>10. rank \in Surjection(S, 1..n)
  BY <1>2, <1>8, <1>9, FS_Injection
<1>11. {Rank(S, e) : e \in S} = 1..n
  BY <1>5, <1>6, <1>10 DEF Surjection
<1> QED
  BY <1>2, <1>4, <1>11

\* Both scripts number the same.
LEMMA BothNumberAlike ==
    ASSUME NEW rows, NEW e \in Events \cap rows, NEW version
    PROVE  NumberOf(version, e, rows) = Rank(SameSession(e, rows), e)
<1>1. PICK S : S = SameSession(e, rows)
  OBVIOUS
<1>2. S \in SUBSET Events /\ e \in S /\ \A f \in S : f.session = e.session
  BY <1>1 DEF SameSession
<1>3. IsFiniteSet(S)
  BY <1>2, MigrationAssumption, FS_Subset
<1>4. PICK A : A = {f \in S : Prior(f, e)}
  OBVIOUS
<1>5. IsFiniteSet(A) /\ e \notin A
  BY <1>2, <1>3, <1>4, FS_Subset, PriorOrder
<1>6. {f \in S : UpTo(f, e)} = A \cup {e}
  BY <1>2, <1>4, PriorOrder
<1>7. Cardinality(A \cup {e}) = Cardinality(A) + 1
  BY <1>5, FS_AddElement
<1> QED
  BY <1>1, <1>4, <1>6, <1>7 DEF NumberOf, RowNumber, CountUpTo, Rank

\* EventsNumbered, of any database.
InOrder(d) ==
    \A s \in Sessions :
        LET S == {e \in Events \cap d.rows : e.session = s}
        IN  /\ {d.session_seq[e] : e \in S} = 1..Cardinality(S)
            /\ \A e, f \in S : Prior(e, f) => d.session_seq[e] < d.session_seq[f]
            /\ d.next_event_seq[s] = Cardinality(S) + 1

\* InOrder states EventsNumbered of any database, so that it applies to the next one too.
LEMMA InOrderMeansNumbered == EventsNumbered <=> (db.shape \in {"v4", "v5"} => InOrder(db))
  BY DEF EventsNumbered, InOrder, OfSession

\* What the three scripts leave behind.
LEMMA Version4Numbers ==
    ASSUME NEW d \in Database, NEW version \in 0..5
    PROVE  InOrder(Version4(d, version))
<1>1. PICK n : n = [e \in Events |-> IF e \in d.rows THEN NumberOf(version, e, d.rows) ELSE 0]
  OBVIOUS
<1>2. PICK m : m = [s \in Sessions |-> 1 + Cardinality({e \in Events \cap d.rows : e.session = s})]
  OBVIOUS
<1>3. PICK d4 : d4 = Version4(d, version)
  OBVIOUS
<1>4. d4 = [d EXCEPT !.shape = "v4", !.version = 4, !.session_seq = n, !.next_event_seq = m]
  BY <1>1, <1>2, <1>3 DEF Version4
<1>5. d4.session_seq = n /\ d4.next_event_seq = m /\ d4.rows = d.rows
  BY <1>4 DEF Database
<1>6. ASSUME NEW s \in Sessions, NEW S, S = {e \in Events \cap d.rows : e.session = s}
      PROVE  /\ {n[e] : e \in S} = 1..Cardinality(S)
             /\ \A e, f \in S : Prior(e, f) => n[e] < n[f]
             /\ m[s] = Cardinality(S) + 1
  <2>1. S \in SUBSET Events /\ \A e, f \in S : e.session = f.session
    BY <1>6
  <2>2. \A e \in S : n[e] = Rank(S, e)
    <3> SUFFICES ASSUME NEW e \in S PROVE n[e] = Rank(S, e)
      OBVIOUS
    <3>1. e \in Events \cap d.rows /\ SameSession(e, d.rows) = S
      BY <1>6 DEF SameSession
    <3>2. n[e] = NumberOf(version, e, d.rows)
      BY <1>1, <3>1
    <3> QED
      BY <3>1, <3>2, BothNumberAlike
  <2>3. /\ {Rank(S, e) : e \in S} = 1..Cardinality(S)
        /\ \A e, f \in S : Prior(e, f) => Rank(S, e) < Rank(S, f)
    BY <2>1, RanksInOrder
  <2>4. {n[e] : e \in S} = 1..Cardinality(S)
    BY <2>2, <2>3
  <2>5. m[s] = Cardinality(S) + 1
    <3>1. m[s] = 1 + Cardinality(S)
      BY <1>2, <1>6
    <3>2. Cardinality(S) \in Nat
      BY <2>1, CountsAreNat
    <3> QED
      BY <3>1, <3>2
  <2> QED
    BY <2>2, <2>3, <2>4, <2>5
<1> QED
  BY <1>3, <1>5, <1>6 DEF InOrder

\* Whoever creates the tables does it in a file that never had any.
NumbersInv ==
    /\ EventsNumbered
    /\ \A p \in Processes : openers[p].pc = "create" => db.rows = {}

\* The database that is found is numbered, if it is of a version that numbers.
LEMMA NumbersInit == MigInit => NumbersInv
<1> SUFFICES ASSUME MigInit PROVE NumbersInv
  OBVIOUS
<1>1. \A p \in Processes : openers[p].pc # "create"
  BY DEF MigInit, Down
<1>2. EventsNumbered
  <2>1. CASE db.shape \notin {"v4", "v5"}
    BY <2>1 DEF EventsNumbered
  <2>2. CASE db = OldDatabase("none", 0, {})
    BY <2>2 DEF OldDatabase, EventsNumbered
  <2>3. ASSUME NEW shape \in DOMAIN OldVersion, NEW rows \in SUBSET Bodies,
               NEW version \in OldVersion[shape],
               db = IF shape = "v4" THEN Version4(OldDatabase(shape, version, rows), 1)
                    ELSE OldDatabase(shape, version, rows)
        PROVE  EventsNumbered
    <3>1. shape \in {"v1", "v2", "v3", "v4"} /\ version \in 0..4
      BY DEF OldVersion
    <3>2. PICK d : d = OldDatabase(shape, version, rows)
      OBVIOUS
    <3>3. d \in Database /\ d.shape = shape
      BY <3>1, <3>2 DEF OldDatabase, Database, Shapes, Nowhere, Unnumbered
    <3>4. CASE shape = "v4"
      BY <2>3, <3>2, <3>3, <3>4, Version4Numbers, InOrderMeansNumbered
    <3>5. CASE shape # "v4"
      BY <2>3, <3>1, <3>2, <3>3, <3>5 DEF EventsNumbered
    <3> QED
      BY <3>4, <3>5
  <2> QED
    BY <2>2, <2>3 DEF MigInit
<1> QED
  BY <1>1, <1>2 DEF NumbersInv

\* A step that leaves the numbers and the rows alone, or does not reach version 4.
LEMMA NumbersStay ==
    ASSUME NumbersInv, db'.rows = db.rows,
           db'.shape \in {"v4", "v5"} =>
               /\ db.shape \in {"v4", "v5"}
               /\ db'.session_seq = db.session_seq /\ db'.next_event_seq = db.next_event_seq,
           \A p \in Processes : openers'[p].pc = "create" => openers[p].pc = "create" \/ db.rows = {}
    PROVE  NumbersInv'
<1>1. \A s \in Sessions : OfSession(s)' = OfSession(s)
  BY DEF OfSession
<1>2. EventsNumbered'
  BY <1>1 DEF NumbersInv, EventsNumbered
<1> QED
  BY <1>2 DEF NumbersInv

\* Scripts number the events; everything else keeps their numbers.
LEMMA NumbersStep ==
    UpgradeInv /\ NumbersInv /\ [MigNext]_migVars => NumbersInv'
<1> SUFFICES ASSUME UpgradeInv, NumbersInv, [MigNext]_migVars PROVE NumbersInv'
  OBVIOUS
<1>1. openers \in [Processes -> Opener] /\ db \in Database
  BY DEF UpgradeInv, MigTypeOK
<1>2. CASE UNCHANGED migVars
  <2>1. db' = db /\ openers' = openers
    BY <1>2 DEF migVars
  <2> QED
    BY <2>1, NumbersStay
<1>3. ASSUME NEW p \in Processes, Fails(p)
      PROVE  \A q \in Processes : openers'[q].pc = "create" => openers[q].pc = "create"
  BY <1>1, <1>3, FailsTo
<1>4. ASSUME NEW p \in Processes, NEW pc \in PCs \ {"create"}, Moves(p, pc)
      PROVE  \A q \in Processes : openers'[q].pc = "create" => openers[q].pc = "create"
  BY <1>1, <1>4, MovesTo
<1>5. ASSUME NEW p \in Processes, TimesOut(p) \/ Dies(p) PROVE NumbersInv'
  <2>1. db' = db /\ Fails(p)
    BY <1>5 DEF TimesOut, Dies
  <2> QED
    BY <1>3, <2>1, NumbersStay
<1>6. ASSUME NEW p \in Processes, ReadsVersion(p) \/ ReadsRows(p) PROVE NumbersInv'
  <2>1. CASE ReadsVersion(p)
    BY <1>1, <2>1, NumbersStay DEF ReadsVersion, Files, Down
  <2>2. CASE ReadsRows(p)
    <3>1. PICK o : o = [openers[p] EXCEPT !.pc = "begin", !.todo = db.rows]
      OBVIOUS
    <3>2. o.pc = "begin" /\ db' = db /\ openers' = [openers EXCEPT ![p] = o]
      BY <1>1, <2>2, <3>1 DEF ReadsRows, Files, Opener
    <3> QED
      BY <1>1, <3>2, NumbersStay
  <2> QED
    BY <1>6, <2>1, <2>2
<1>7. ASSUME NEW p \in Processes, ReadsTables(p) PROVE NumbersInv'
  <2>1. db' = db
    BY <1>7 DEF ReadsTables, Files
  <2>2. CASE db.shape = "none"
    BY <2>1, <2>2, NumbersStay DEF UpgradeInv, Coherent
  <2>3. CASE db.shape # "none"
    <3>1. Moves(p, "to4") \/ Moves(p, "rows") \/ Moves(p, "open")
      BY <1>7, <2>3 DEF ReadsTables, Branch
    <3> QED
      BY <1>4, <2>1, <3>1, NumbersStay DEF PCs
  <2> QED
    BY <2>2, <2>3
<1>8. ASSUME NEW p \in Processes, CreatesSome(p) PROVE NumbersInv'
  <2>1. db' = [db EXCEPT !.shape = "some"] /\ openers' = openers
    BY <1>8 DEF CreatesSome
  <2>2. db'.shape = "some" /\ db'.rows = db.rows
    BY <1>1, <2>1 DEF Database
  <2> QED
    BY <2>1, <2>2, NumbersStay
<1>9. ASSUME NEW p \in Processes, CreatesRest(p) PROVE NumbersInv'
  <2>1. PICK ones : ones = [s \in Sessions |-> 1]
    OBVIOUS
  <2>2. db' = [db EXCEPT !.shape = "v5", !.next_event_seq = ones] /\ Moves(p, "stamp")
    BY <1>9, <2>1 DEF CreatesRest
  <2>3. db'.rows = {} /\ db'.next_event_seq = ones
    BY <1>1, <1>9, <2>2 DEF Database, NumbersInv, CreatesRest
  <2>4. \A s \in Sessions : OfSession(s)' = {} /\ Cardinality(OfSession(s)') = 0
    BY <2>3, FS_EmptySet DEF OfSession
  <2>5. EventsNumbered'
    BY <2>1, <2>3, <2>4 DEF EventsNumbered
  <2> QED
    BY <2>3, <2>5 DEF NumbersInv
<1>10. ASSUME NEW p \in Processes, Stamps(p) PROVE NumbersInv'
  <2>1. db' = [db EXCEPT !.version = 5] /\ Moves(p, "open")
    BY <1>10 DEF Stamps
  <2>2. /\ db'.shape = db.shape /\ db'.rows = db.rows
        /\ db'.session_seq = db.session_seq /\ db'.next_event_seq = db.next_event_seq
    BY <1>1, <2>1 DEF Database
  <2> QED
    BY <1>4, <2>1, <2>2, NumbersStay DEF PCs
<1>11. ASSUME NEW p \in Processes, MigratesTo4(p) PROVE NumbersInv'
  <2>1. CASE db' = db /\ Fails(p)
    BY <1>3, <2>1, NumbersStay
  <2>2. CASE db' = Version4(db, openers[p].version) /\ Moves(p, "rows")
    <3>1. openers[p].version \in 0..5
      BY <1>1 DEF Opener
    <3>2. InOrder(db') /\ db'.rows = db.rows
      BY <1>1, <2>2, <3>1, Version4Numbers, Version4Typed
    <3>3. EventsNumbered'
      BY <3>2 DEF EventsNumbered, InOrder, OfSession
    <3>4. \A q \in Processes : openers'[q].pc = "create" => openers[q].pc = "create"
      BY <1>4, <2>2 DEF PCs
    <3> QED
      BY <3>2, <3>3, <3>4 DEF NumbersInv
  <2> QED
    BY <1>11, <2>1, <2>2 DEF MigratesTo4, After4
<1>12. ASSUME NEW p \in Processes, Begins(p) PROVE NumbersInv'
  <2>1. CASE Moves(p, "move") /\ db' = db
    BY <1>4, <2>1, NumbersStay DEF PCs
  <2>2. CASE Fails(p) /\ db' = db
    BY <1>3, <2>2, NumbersStay
  <2> QED
    BY <1>12, <2>1, <2>2 DEF Begins, Pending
<1>13. ASSUME NEW p \in Processes, NEW b \in Bodies, Externalizes(p, b) PROVE NumbersInv'
  <2>1. PICK n : n = (IF b \in Events THEN Len(log[b.session]) ELSE 0) + 1
    OBVIOUS
  <2>2. db' = db /\ openers[p].pc = "move"
        /\ openers' = [openers EXCEPT ![p].todo = @ \ {b}, ![p].ref[b] = n]
    BY <1>13, <2>1 DEF Externalizes
  <2>3. openers[p] \in Opener
    BY <1>1
  <2>4. \A q \in Processes : openers'[q].pc = "create" => openers[q].pc = "create"
    BY <1>1, <2>2, <2>3 DEF Opener
  <2> QED
    BY <2>2, <2>4, NumbersStay
<1>14. ASSUME NEW p \in Processes, Commits(p) PROVE NumbersInv'
  <2>1. db' = [db EXCEPT !.shape = "v5", !.version = 5, !.inline = {}, !.ref = openers[p].ref]
        /\ Moves(p, "open") /\ db.shape = "v4"
    BY <1>14 DEF Commits, UpgradeInv, Relies
  <2>2. /\ db'.rows = db.rows
        /\ db'.session_seq = db.session_seq /\ db'.next_event_seq = db.next_event_seq
    BY <1>1, <2>1 DEF Database
  <2> QED
    BY <1>4, <2>1, <2>2, NumbersStay DEF PCs
<1> QED
  BY <1>2, <1>5, <1>6, <1>7, <1>8, <1>9, <1>10, <1>11, <1>12, <1>13, <1>14 DEF MigNext, Step

\* For any number of sessions, runs and events: whichever script has numbered them, events
\* are numbered without a gap in the order of their runs, and the next number follows
\* (_migrate_v1_to_v4, _migrate_v2_to_v4, _migrate_v3_to_v4; _migrate_v4_to_v5 keeps the numbers).
THEOREM EventsNumberedTheorem == MigSpec => []EventsNumbered
<1>1. UpgradeInv /\ NumbersInv /\ [MigNext]_migVars => NumbersInv'
  BY NumbersStep
<1>2. NumbersInv => EventsNumbered
  BY DEF NumbersInv
<1> QED
  BY <1>1, <1>2, NumbersInit, UpgradeInvTheorem, PTL DEF MigSpec
=============================================================================
