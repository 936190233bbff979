---------------------------- MODULE ProjectFiles ----------------------------
(***************************************************************************)
(* The directory of a project that code tools work in, and the revisions   *)
(* LocalWorkspaceStore.commit_attempt makes of it: every attempt writes to *)
(* the directory itself, a revision is a copy of it, and what a revision   *)
(* changed is its manifest against manifests/current.json, the head on     *)
(* disk.  The table learns of a revision later, from the harness, or never *)
(* (ToolRun).  Files do not influence each other, so there is one file,    *)
(* and its contents are numbered in the order they are written; 0 is no    *)
(* file.  Deaths, which could cut current.json short, are left out.        *)
(***************************************************************************)
EXTENDS ToolRun

CONSTANT MaxWrites     \* bound on the contents of the file

ASSUME WritesAssumption == MaxWrites \in Nat \ {0}

VARIABLES project,     \* the file in the project's directory
          head,        \* the operation whose manifest current.json repeats
          images       \* revision directories, by the operation that made each

projectVars == <<toolVars, project, head, images>>

\* base: the head when the revision was made; manifest: what was digested; copied: what
\* the directory has; told: does changed_paths name the file?
Contents == 0..MaxWrites
Image    == [base : Ops \cup {None}, manifest : Contents, copied : Contents, told : BOOLEAN]
NoImage  == [base |-> None, manifest |-> 0, copied |-> 0, told |-> FALSE]

ProjectInit ==
    /\ ToolInit
    /\ project \in {0, 1}                     \* the user may have had it before
    /\ head = None
    /\ images = [o \in Ops |-> NoImage]

\* An operation's process, or what it has left behind, writes the file.
Alive(o) == Leading(o) \/ group[o].child
Writes ==
    /\ \E o \in Ops : Alive(o)
    /\ project < MaxWrites
    /\ project' = project + 1
    /\ UNCHANGED <<toolVars, head, images>>

\* _commit_bound_project: digest, compare, copy, move the head.  Processes that are alive
\* may write between the digest and the copy.
HeadManifest == IF head = None THEN 0 ELSE images[head].manifest
HeadStays(o) == head                          \* fault: current.json is not written
NewHead(o)   == o
MakesRevision(o, copied) ==
    /\ copied \in project..(IF \E p \in Ops : Alive(p) THEN MaxWrites ELSE project)
    /\ project' = copied
    /\ images' = [images EXCEPT ![o] =
                    [base |-> head, manifest |-> project, copied |-> copied,
                     told |-> project # HeadManifest]]
    /\ head' = NewHead(o)

\* Everything else leaves the directory alone.
Committed == snapshots' \ snapshots
ToolStep ==
    /\ ToolNext
    /\ IF Committed = {} THEN UNCHANGED <<project, head, images>>
       ELSE \E o \in Committed, copied \in Contents : MakesRevision(o, copied)

ProjectNext == ToolStep \/ Writes
ProjectSpec == ProjectInit /\ [][ProjectNext]_projectVars
FairProjectSpec == ProjectSpec /\ ToolFairness

-----------------------------------------------------------------------------
\* workspace.committed tells the client of a revision whether the file differs from the
\* previous revision of the table, but for two cases: current.json named a revision by
\* then that the table never got (refused under a lost lease, or committed only after the
\* harness had seen SUCCEEDED), or a process left behind wrote while one of the two
\* directories was copied.
Recorded == {revisions[i] : i \in DOMAIN revisions}
Before(i) == IF i = 1 THEN None ELSE revisions[i - 1]
Copied(o) == IF o = None THEN 0 ELSE images[o].copied
WrittenMeanwhile(o) == o # None /\ images[o].copied # images[o].manifest
ChangesAreTold ==
    \A i \in DOMAIN revisions :
        LET image == images[revisions[i]]
        IN  \/ image.base \in snapshots \ Recorded
            \/ WrittenMeanwhile(revisions[i]) \/ WrittenMeanwhile(Before(i))
            \/ image.told <=> image.copied # Copied(Before(i))
=============================================================================
