---------------------------- MODULE MCRunChecks -----------------------------
(* RunChecks for TLC: three single checks and one batch of two, so that    *)
(* every pair of goroutines meets at the destination or a semaphore.       *)
EXTENDS RunChecks, TLC

CONSTANTS s1, s2, s3, b1, m1, m2, da

MCMembers == [b \in Batches |-> {m1, m2}]

\* s1, m1 and m2 share a host; s2 names none and is not gated.
MCDest == (s1 :> da) @@ (s2 :> NoDest) @@ (s3 :> da) @@ (m1 :> da) @@ (m2 :> da)
=============================================================================
