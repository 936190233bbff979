----------------------------- MODULE MCSession -----------------------------
\* One session and its clients.
EXTENDS SessionStream, TLC

CONSTANTS s1, w1

MCOneSession == s1 :> w1
\* A question, the end of a cancellation, and a timeout (the other ends are like it).
MCTargets == {"WAITING_USER", "CANCELLED", "TIMED_OUT"}
HTTPMode  == {TRUE}

Symmetry == Permutations(Runs) \cup Permutations(Attempts) \cup Permutations(Keys)
              \cup Permutations(Clients) \cup Permutations(Texts)
=============================================================================
