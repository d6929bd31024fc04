---------------------------- MODULE MCScheduler ----------------------------
(* Scheduler for TLC: probes of different intervals and sizes.       *)
EXTENDS Scheduler

MCNever    == -20
MCInterval == [p \in Probes |-> IF p = 1 THEN 1 ELSE 2]
MCCount    == [p \in Probes |-> IF p = 2 THEN 3 ELSE 1]
=============================================================================
