----------------------------- MODULE EventFeed -----------------------------
(***************************************************************************)
(* What the event streams of a session promise their readers: the log only *)
(* grows; a reader is handed, in order and once each, the events behind    *)
(* the position it subscribed from; and its stream ends by itself only     *)
(* when the reader has everything and every message it follows is over.    *)
(***************************************************************************)
EXTENDS Naturals, Sequences, FiniteSets

CONSTANTS Readers, Messages, None

\* An event: the message it belongs to and what it says of it.
Event == [run : Messages, says : {"accepted", "finished", "other"}]

VARIABLES log,     \* the events of the session
          feed     \* per reader: whom it follows, and from where to where it has read

feedVars == <<log, feed>>

NoFeed == [phase |-> "none", run |-> None, from |-> 0, to |-> 0, got |-> <<>>]

FeedInit == log = <<>> /\ feed = [c \in Readers |-> NoFeed]

\* The numbers in (from, to] of the events a reader of `run' follows, ...
Follows(run, i) == run \in {None, log[i].run}
Due(run, from, to) == {i \in from + 1 .. to : Follows(run, i)}

\* ... and numbers one after another, the least first.
Nth(numbers, k)    == CHOOSE i \in numbers : Cardinality({j \in numbers : j <= i}) = k
Ascending(numbers) == [k \in 1 .. Cardinality(numbers) |-> Nth(numbers, k)]

Begun(r)    == \E i \in DOMAIN log : log[i] = [run |-> r, says |-> "accepted"]
Finished(r) == \E i \in DOMAIN log : log[i] = [run |-> r, says |-> "finished"]

Append1 ==
    /\ \E e \in Event : log' = Append(log, e)
    /\ UNCHANGED feed

Opens(c) ==
    /\ feed[c].phase = "none"
    /\ \E run \in Messages \cup {None}, n \in 0 .. Len(log) :
         feed' = [feed EXCEPT ![c] = [phase |-> "open", run |-> run,
                                      from |-> n, to |-> n, got |-> <<>>]]
    /\ UNCHANGED log

\* A request that moves a message on and follows it from there.
OpensWith(c) ==
    /\ feed[c].phase = "none"
    /\ \E e \in Event, n \in 0 .. Len(log) :
         /\ log' = Append(log, e)
         /\ feed' = [feed EXCEPT ![c] = [phase |-> "open", run |-> e.run,
                                         from |-> n, to |-> n, got |-> <<>>]]

Hands(c) ==
    /\ feed[c].phase = "open"
    /\ \E n \in feed[c].to .. Len(log) :
         feed' = [feed EXCEPT ![c].to = n,
                              ![c].got = @ \o Ascending(Due(feed[c].run, feed[c].to, n))]
    /\ UNCHANGED log

Closes(c) ==
    /\ feed[c].phase = "open"
    /\ feed[c].to = Len(log)
    /\ \A r \in Messages :
         Begun(r) /\ feed[c].run \in {None, r} => Finished(r)
    /\ feed' = [feed EXCEPT ![c].phase = "closed"]
    /\ UNCHANGED log

\* The connection breaks; the reader may subscribe again.
Breaks ==
    /\ \E cs \in SUBSET Readers :
         feed' = [c \in Readers |-> IF c \in cs THEN NoFeed ELSE feed[c]]
    /\ UNCHANGED log

FeedNext ==
    \/ Append1
    \/ \E c \in Readers : Opens(c) \/ OpensWith(c) \/ Hands(c) \/ Closes(c)
    \/ Breaks

FeedSpec == FeedInit /\ [][FeedNext]_feedVars
=============================================================================
