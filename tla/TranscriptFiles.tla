--------------------------- MODULE TranscriptFiles ---------------------------
(***************************************************************************)
(* The transcript of one session: a file of JSON lines below the user's    *)
(* storage root, another file below another root.  append_transcript looks *)
(* through the whole file for the record's id and appends the record, with *)
(* its newline, under one lock; a machine that stops may keep any part of  *)
(* what was being appended.                                                *)
(*                                                                         *)
(* Rotation at ten megabytes is left out: there is one file.               *)
(***************************************************************************)
EXTENDS Naturals, Sequences

CONSTANTS Runs,
          Roots,        \* values of workspaces.user_path
          Unreadable    \* a line that json.loads does not take

\* A record's id is made of the run's and the role.
Record    == [run : Runs, role : {"user", "assistant"}]
User(r)   == [run |-> r, role |-> "user"]
Answer(r) == [run |-> r, role |-> "assistant"]

ASSUME UnreadableAssumption == Unreadable \notin Record

VARIABLE transcript

\* How a file ends: whole, behind a newline; open, in a line without one, readable or
\* not; broken, inside a character.
Tails   == {"whole", "open", "broken"}
File    == [lines : Seq(Record \cup {Unreadable}), tail : Tails]
NewFile == [lines |-> <<>>, tail |-> "whole"]

TranscriptInit == transcript = [place \in Roots |-> NewFile]

Lines(place) == {transcript[place].lines[n] : n \in DOMAIN transcript[place].lines}
Ends(place)  == transcript[place].tail

\* What follows a line without a newline becomes part of that line, which is no record
\* from then on.
Spoiled(lines) == [lines EXCEPT ![Len(lines)] = Unreadable]
Extended(file, line, tail) ==
    [lines |-> IF file.tail = "open" THEN Spoiled(file.lines) ELSE Append(file.lines, line),
     tail  |-> tail]
Writes(place, line, tail) ==
    transcript' = [transcript EXCEPT ![place] = Extended(@, line, tail)]

\* _transcript_contains.  Lines that are no JSON are passed over; a file that ends inside
\* a character makes the search raise when it gets there.
NotLookedFor(place, record) == FALSE          \* fault: appends without looking
Contains(place, record)     == record \in Lines(place)
Raises(place, record)       == ~Contains(place, record) /\ Ends(place) = "broken"

\* append_transcript: nothing if a line has the record's id.
Appends(place, record) ==
    /\ ~Raises(place, record)
    /\ IF Contains(place, record)
       THEN UNCHANGED transcript
       ELSE Writes(place, record, "whole")

\* An append cut short: before the newline, which leaves a record, within the line, or
\* within a character of it.
CutShort(place, record) ==
    /\ ~Contains(place, record) /\ ~Raises(place, record)
    /\ \/ Writes(place, record, "open")
       \/ \E tail \in {"open", "broken"} : Writes(place, Unreadable, tail)
=============================================================================
