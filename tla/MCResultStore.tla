--------------------------- MODULE MCResultStore ---------------------------
(* ResultStore for TLC: results and maintainers as model values.           *)
EXTENDS ResultStore, TLC

\* Results are interchangeable; maintainers are not (Agent is one of them).
Symmetry == Permutations(Results)
=============================================================================
