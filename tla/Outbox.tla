------------------------------- MODULE Outbox -------------------------------
(***************************************************************************)
(* What the local store promises for a recorded result: an at-least-once   *)
(* outbox.  A row is queued until the receiver has seen it; only then may  *)
(* it be settled, only a settled row may be forgotten, and nothing is ever *)
(* queued twice under the same row.  How batches, acks, crashes, retries   *)
(* and pruning achieve this is ResultStore's business.                     *)
(***************************************************************************)
CONSTANT Rows

VARIABLES
  box,   \* where each row is in its life
  seen   \* rows whose result the receiver has judged

vars == <<box, seen>>

In(place) == {s \in Rows : box[s] = place}

Move(rows, place) == box' = [s \in Rows |-> IF s \in rows THEN place ELSE box[s]]

Init == box = [s \in Rows |-> "absent"] /\ seen = {}

\* The receiver may already know a result that is queued again.
Enqueue(rows, known) ==
  /\ Move(rows, "queued")
  /\ seen' = seen \union known

See(rows) == seen' = seen \union rows /\ UNCHANGED box

Settle(rows) == Move(rows, "settled") /\ UNCHANGED seen

Forget(rows) == Move(rows, "forgotten") /\ UNCHANGED seen

Next ==
  \/ \E rows \in SUBSET In("absent") : \E known \in SUBSET rows : Enqueue(rows, known)
  \/ \E rows \in SUBSET (Rows \ In("absent")) : See(rows)
  \/ \E rows \in SUBSET (In("queued") \intersect seen) : Settle(rows)
  \/ \E rows \in SUBSET In("settled") : Forget(rows)

Spec == Init /\ [][Next]_vars
=============================================================================
