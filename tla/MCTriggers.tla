----------------------------- MODULE MCTriggers -----------------------------
(* Triggers for TLC.                                                       *)
EXTENDS Triggers

CONSTANTS p1, r1, r2

\* All runs of one probe: the case in which lastTriggerRunID is contended.
SameProbe == [r \in Runs |-> p1]

Node(m, R, W, c, e) == [mode |-> m, runs |-> R, wants |-> W, crashes |-> c, errors |-> e]

\* One run through reassignments, a crash and a disk error; the same without a
\* store; two runs that do not both fit into the queue, a crash or an error.
FaultyNodes ==
  {Node("store", <<r1>>, SUBSET Probes, 1, 1),
   Node("spool", <<r1>>, {Probes}, 1, 1), Node("none", <<r1>>, {Probes}, 1, 0),
   Node("store", <<r1, r2>>, {Probes}, 1, 0), Node("store", <<r1, r2>>, {Probes}, 0, 1)}

\* Nothing fails.
CalmNodes == {Node("store", <<r1, r2>>, {Probes}, 0, 0)}
=============================================================================
