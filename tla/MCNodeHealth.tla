---------------------------- MODULE MCNodeHealth ----------------------------
(* NodeHealth for TLC.                                                     *)
EXTENDS NodeHealth, TLC

\* Apart by less and by more than an interval; each clock may be the one ahead.
Skews == {0, 1, 4}

Symmetry == Permutations(Targets)
=============================================================================
