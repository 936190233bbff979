--------------------------- MODULE MCImpalaQuery ---------------------------
(***************************************************************************)
(* ImpalaQuery for TLC: two coroutines, two call ids, two budgets that     *)
(* admit two queries only if they ask for few rows.                        *)
(***************************************************************************)
EXTENDS ImpalaQuery, TLC

Symmetry == Permutations(Callers) \cup Permutations(Calls)
=============================================================================
