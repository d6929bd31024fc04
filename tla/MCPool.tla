------------------------------- MODULE MCPool -------------------------------
(* Pool for TLC: ports and engines are interchangeable, jobs are ordered.  *)
EXTENDS Pool, TLC

Symmetry == Permutations(Ports) \union Permutations(Engines) \union Permutations(Callers)
=============================================================================
