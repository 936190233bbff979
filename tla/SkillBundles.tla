---------------------------- MODULE SkillBundles ----------------------------
(***************************************************************************)
(* Snapshots of one Skill: ManualSkillResolver._store_bundle copies the    *)
(* Skill's directory, file by file, to a directory named after the digest  *)
(* that was computed of it before.  Nothing locks the source, which its    *)
(* author may edit, or the destination, which any number of requests may   *)
(* look at, remove and fill at once; and a request may die on the way.     *)
(* A digest is modelled by the version of the source it was computed of.   *)
(***************************************************************************)
EXTENDS Naturals, FiniteSets

CONSTANTS Versions,      \* contents the Skill's directory may have
          Files,         \* its files, SKILL.md among them
          Partial,       \* a file whose copying was cut short
          None

ASSUME BundleAssumption ==
    /\ None \notin Versions \cup Files
    /\ Partial \notin Versions
    /\ "SKILL.md" \in Files

VARIABLES source,        \* the version of the Skill's directory now
          bundles,       \* per digest, the snapshot directory
          spoiled        \* history: digests whose copying went wrong

bundleVars == <<source, bundles, spoiled>>

\* A directory that may not exist, and the version each file in it was copied from.
BundleType == [made : BOOLEAN, files : [Files -> Versions \cup {Partial, None}]]
NoBundle   == [made |-> FALSE, files |-> [f \in Files |-> None]]

Made(d)     == bundles[d].made
Empty(d)    == \A f \in Files : bundles[d].files[f] = None
Complete(d) == Made(d) /\ \A f \in Files : bundles[d].files[f] = d

BundleInit ==
    /\ source \in Versions
    /\ bundles = [d \in Versions |-> NoBundle]
    /\ spoiled = {}

Edits ==
    /\ source' \in Versions \ {source}
    /\ UNCHANGED <<bundles, spoiled>>

\* shutil.rmtree of a directory that was empty when it was looked at.
RemovesBundle(d) ==
    /\ bundles' = [bundles EXCEPT ![d] = NoBundle]
    /\ spoiled' = IF Empty(d) THEN spoiled ELSE spoiled \cup {d}
    /\ UNCHANGED source

\* mkdir with exist_ok.
MakesBundle(d) ==
    /\ bundles' = [bundles EXCEPT ![d].made = TRUE]
    /\ UNCHANGED <<source, spoiled>>

\* copy2 of one file, as the source is now (its parent is made again if it is gone).
CopiesFile(d, f) ==
    /\ bundles' = [bundles EXCEPT ![d] = [made |-> TRUE, files |-> [@.files EXCEPT ![f] = source]]]
    /\ spoiled' = IF source = d THEN spoiled ELSE spoiled \cup {d}
    /\ UNCHANGED source

\* Copying ends before its time, of each digest in one of the files or between two: a
\* pair of a digest and a file cut short, or None.
LeavesPartial(cuts) ==
    /\ bundles' = [d \in Versions |->
                     [made  |-> Made(d) \/ \E f \in Files : <<d, f>> \in cuts,
                      files |-> [f \in Files |-> IF <<d, f>> \in cuts THEN Partial
                                                 ELSE bundles[d].files[f]]]]
    /\ spoiled' = spoiled \cup {cut[1] : cut \in cuts}
    /\ UNCHANGED source
=============================================================================
