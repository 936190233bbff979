----------------------------- MODULE MCRuntime -----------------------------
\* Small instances of Runtime: two sessions of one project share a workspace.
EXTENDS Runtime, TLC

CONSTANTS s1, s2, w1

MCWorkspaceOf == (s1 :> w1) @@ (s2 :> w1)
MCOneSession  == s1 :> w1
MCNoTargets   == {}
HTTPMode      == {TRUE}

Symmetry == Permutations(Runs) \cup Permutations(Attempts) \cup Permutations(Keys)
              \cup Permutations(Requests)
=============================================================================
