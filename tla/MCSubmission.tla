---------------------------- MODULE MCSubmission ----------------------------
\* Two request threads of one session and a Skill of two files.
EXTENDS Submission, TLC

Symmetry == Permutations(Threads) \cup Permutations(Runs) \cup Permutations(Keys)
              \cup Permutations(Inputs) \cup Permutations(Versions) \cup Permutations(Roots)
=============================================================================
