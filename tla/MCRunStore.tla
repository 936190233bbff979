----------------------------- MODULE MCRunStore -----------------------------
\* Small instances of RunStore: two sessions of one project share a workspace.
EXTENDS RunStore, TLC

CONSTANTS s1, s2, w1

MCWorkspaceOf == (s1 :> w1) @@ (s2 :> w1)
\* What the HTTP transport and the harnesses ask for (FAILED is like SUCCEEDED here).
HTTPTargets   == {"SUCCEEDED", "CANCELLED"}
AnyMode       == BOOLEAN

Symmetry == Permutations(Runs) \cup Permutations(Attempts) \cup Permutations(Keys)
              \cup Permutations(Requests)
=============================================================================
