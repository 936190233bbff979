-------------------------- MODULE MCSchemaMigration -------------------------
\* Two processes and two sessions, one of which has two runs.
EXTENDS SchemaMigration

Event(s, r, n) == [session |-> s, run |-> r, seq |-> n]
MCEvents == {Event("s1", 1, 1), Event("s1", 1, 2), Event("s1", 2, 1), Event("s2", 1, 1)}
=============================================================================
