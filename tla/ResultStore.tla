---------------------------- MODULE ResultStore ----------------------------
(***************************************************************************)
(* The result side of the local SQLite store (internal/store) and the      *)
(* delivery loop that empties it (internal/agent/store_delivery.go).       *)
(*                                                                         *)
(* Three actors share the journal: the scheduler goroutine records results *)
(* and drains them to radar-api; the agent's maintenance loop and the      *)
(* `store maintain` command roll results up and prune them.  Every SQL     *)
(* statement or transaction is one step; everything between two of them    *)
(* interleaves.  The process may crash between any two steps; committed    *)
(* rows survive, the drain, the backoff and a running Maintain do not.     *)
(***************************************************************************)
EXTENDS Integers, FiniteSets

CONSTANTS
  Results,      \* result identities: (run_id, probe_id, check seq)
  Maintainers,  \* who may run Maintain at the same time
  Agent,        \* the maintainer that lives in the agent process
  MaxSeq,       \* bound: journal rows ever inserted
  MaxTime,      \* bound: the wall clock, in rollup buckets (hours)
  Retention,    \* opts.Retention, in whole buckets (0: under an hour)
  BatchLimit,   \* rows per results POST (500 in drainStore)
  RollupChunk,  \* rows per rollup transaction (rollupChunk)
  PruneChunk,   \* rows per DELETE (pruneChunk)
  MaxMoves,     \* cursor moves a rollup run tolerates (5)
  MaxCrashes    \* bound: process crashes

ASSUME AgentAssumption  == Agent \in Maintainers
ASSUME BoundsAssumption ==
  /\ MaxSeq \in Nat /\ MaxTime \in Nat /\ Retention \in Nat
  /\ BatchLimit \in Nat \ {0} /\ RollupChunk \in Nat \ {0}
  /\ PruneChunk \in Nat \ {0} /\ MaxMoves \in Nat /\ MaxCrashes \in Nat

VARIABLES
  state,    \* journal row s: unused, delivery_state 0/1/2, or deleted
  key,      \* journal row s: the result identity it carries
  at,       \* journal row s: at_ms, as a rollup bucket
  nextSeq,  \* AUTOINCREMENT of journal.seq
  folded,   \* how often row s is counted in the rollups table
  evicted,  \* rows whose bucket the size cap dropped from rollups (history)
  cursor,   \* meta.rollup_seq
  now,      \* the local wall clock
  server,   \* what radar-api did with a result
  drain,    \* the scheduler's drainStore: control point, batch, acks
  waiting,  \* deliveryNextAttempt lies in the future
  maint,    \* each Maintain call: control point, cursor read, chunk read and,
            \* as history, the journal's end when its rollup pass ended (upto)
  crashes

journalVars == <<state, key, at, nextSeq>>
rollupVars  == <<folded, evicted, cursor>>
drainVars   == <<drain, waiting>>
vars == <<journalVars, rollupVars, drainVars, now, server, maint, crashes>>

Seqs  == 1 .. MaxSeq
Times == 0 .. MaxTime

NoKey  == "none"
Acks   == {"accepted", "rejected", "missing"}
States == {"unused", "pending", "delivered", "rejected", "pruned"}

Live == {s \in Seqs : state[s] \notin {"unused", "pruned"}}
PendingSet == {s \in Seqs : state[s] = "pending"}

\* Mutant: WHERE kind = 'result', without delivery_state <> 0.
SettledAny == Live

\* delivery_state <> 0: radar-api has accepted or rejected the row.
Settled == {s \in Seqs : state[s] \in {"delivered", "rejected"}}

\* ORDER BY seq LIMIT n
Oldest(S, n) == {s \in S : Cardinality({t \in S : t < s}) < n}

IdleDrain == [pc |-> "idle", batch |-> {}, acks |-> [s \in Seqs |-> "missing"]]
IdleMaint == [pc |-> "idle", after |-> 0, chunk |-> {}, moves |-> 0, upto |-> 0]

Init ==
  /\ state = [s \in Seqs |-> "unused"]
  /\ key = [s \in Seqs |-> NoKey]
  /\ at = [s \in Seqs |-> 0]
  /\ nextSeq = 1
  /\ folded = [s \in Seqs |-> 0]
  /\ evicted = {}
  /\ cursor = 0
  /\ now = 0
  /\ server = [r \in Results |-> "none"]
  /\ drain = IdleDrain
  /\ waiting = FALSE
  /\ maint = [m \in Maintainers |-> IdleMaint]
  /\ crashes = 0

-----------------------------------------------------------------------------
(* The scheduler: RecordResults                                            *)

\* The identities of a batch that ON CONFLICT DO NOTHING lets through.
Fresh(batch) == {r \in batch : \A s \in Live : key[s] # r}

\* One transaction per tick: fresh results get consecutive rows, pending.
\* `when` is observed_at, the wall clock when the check ended; the clock may
\* have been stepped since, so it is not tied to the one retention reads.
RecordResults(batch, when) ==
  /\ drain.pc = "idle"
  /\ \E last \in (nextSeq - 1) .. MaxSeq :
       \E row \in [nextSeq .. last -> Fresh(batch)] :
         /\ \A s, t \in nextSeq .. last : row[s] = row[t] => s = t
         /\ \A r \in Fresh(batch) : \E s \in nextSeq .. last : row[s] = r
         /\ state' = [s \in Seqs |-> IF s \in nextSeq .. last THEN "pending" ELSE state[s]]
         /\ key'   = [s \in Seqs |-> IF s \in nextSeq .. last THEN row[s] ELSE key[s]]
         /\ at'    = [s \in Seqs |-> IF s \in nextSeq .. last THEN when ELSE at[s]]
         /\ nextSeq' = last + 1
  /\ UNCHANGED <<rollupVars, drainVars, now, server, maint, crashes>>

\* What radar-api may do with a POSTed batch: a stored result stays stored
\* (it deduplicates), any other is stored or refused.
Judge(ids) ==
  server' \in {f \in [Results -> {"none", "stored", "refused"}] :
                 \A r \in Results :
                   IF r \in ids
                     THEN f[r] \in IF server[r] = "stored" THEN {"stored"} ELSE {"stored", "refused"}
                     ELSE f[r] = server[r]}

\* The store write failed and there is no spool beside a store: the batch is
\* POSTed directly, once, and forgotten whatever comes of it.
ReportFallback(batch) ==
  /\ drain.pc = "idle"
  /\ Judge(batch) \/ UNCHANGED server
  /\ UNCHANGED <<journalVars, rollupVars, drainVars, now, maint, crashes>>

-----------------------------------------------------------------------------
(* The scheduler: drainStore                                               *)

Backoff == drain' = IdleDrain /\ waiting' = TRUE

\* The oldest pending rows, if the backoff has run out.
PendingResults ==
  /\ drain.pc = "idle"
  /\ ~waiting
  /\ PendingSet # {}
  /\ drain' = [IdleDrain EXCEPT !.pc = "post", !.batch = Oldest(PendingSet, BatchLimit)]
  /\ UNCHANGED <<journalVars, rollupVars, waiting, now, server, maint, crashes>>

\* The read itself failed.
PendingResultsFails ==
  /\ drain.pc = "idle"
  /\ ~waiting
  /\ Backoff
  /\ UNCHANGED <<journalVars, rollupVars, now, server, maint, crashes>>

\* Keys of the batch on the wire.
Posted == {key[s] : s \in drain.batch}

\* An ack as radar-api may return it: accepted only what it now stores,
\* rejected what it refused or already had ("duplicate"), or no ack at all.
AckAllowed(s, ack) ==
  \/ ack = "missing"
  \/ ack = "accepted" /\ server'[key[s]] = "stored"
  \/ ack = "rejected" /\ (server'[key[s]] = "refused" \/ server[key[s]] = "stored")

PostAnswered ==
  /\ drain.pc = "post"
  /\ Judge(Posted)
  /\ \E acks \in [Seqs -> Acks] :
       /\ \A s \in Seqs : IF s \in drain.batch THEN AckAllowed(s, acks[s]) ELSE acks[s] = "missing"
       /\ drain' = [drain EXCEPT !.pc = "settle", !.acks = acks]
  /\ UNCHANGED <<journalVars, rollupVars, waiting, now, maint, crashes>>

\* An error status, a lost request or a lost response: the server may or may
\* not have processed the batch, the node cannot tell.
PostFails ==
  /\ drain.pc = "post"
  /\ Judge(Posted) \/ UNCHANGED server
  /\ Backoff
  /\ UNCHANGED <<journalVars, rollupVars, now, maint, crashes>>

\* Mutant: a row without an ack is retried.
OutcomeStrict(ack) ==
  CASE ack = "rejected" -> "rejected" [] ack = "accepted" -> "delivered" [] OTHER -> "pending"

\* outcomesFor: a row without an ack counts as accepted.
Outcome(ack) == IF ack = "rejected" THEN "rejected" ELSE "delivered"

\* MarkOutcomes only touches rows still pending.
MarkOutcomes ==
  /\ drain.pc = "settle"
  /\ state' = [s \in Seqs |->
       IF s \in drain.batch /\ state[s] = "pending" THEN Outcome(drain.acks[s]) ELSE state[s]]
  /\ drain' = IdleDrain
  /\ waiting' = FALSE
  /\ UNCHANGED <<key, at, nextSeq, rollupVars, now, server, maint, crashes>>

MarkOutcomesFails ==
  /\ drain.pc = "settle"
  /\ Backoff
  /\ UNCHANGED <<journalVars, rollupVars, now, server, maint, crashes>>

BackoffElapses ==
  /\ waiting
  /\ waiting' = FALSE
  /\ UNCHANGED <<journalVars, rollupVars, drain, now, server, maint, crashes>>

-----------------------------------------------------------------------------
(* Maintain: rollupResults, then retention, then the size cap              *)

Goto(m, pc) == maint' = [maint EXCEPT ![m].pc = pc]

\* metaInt("rollup_seq")
MaintainStart(m) ==
  /\ maint[m].pc = "idle"
  /\ maint' = [maint EXCEPT ![m] = [IdleMaint EXCEPT !.pc = "read", !.after = cursor]]
  /\ UNCHANGED <<journalVars, rollupVars, drainVars, now, server, crashes>>

\* Mutant: LIMIT without ORDER BY seq, served newest first.
RollupRowsNewest(after) ==
  LET rows == {s \in Live : s > after}
  IN  {s \in rows : Cardinality({t \in rows : t > s}) < RollupChunk}

\* The next rows above the cursor this run last saw, whatever their state.
RollupRows(after) == Oldest({s \in Live : s > after}, RollupChunk)

ReadRollupChunk(m) ==
  LET rows == RollupRows(maint[m].after) IN
  /\ maint[m].pc = "read"
  /\ maint' = [maint EXCEPT ![m].pc = IF rows = {} THEN "retain" ELSE "write",
                            ![m].chunk = rows,
                            ![m].upto = IF rows = {} THEN nextSeq ELSE 0]
  /\ UNCHANGED <<journalVars, rollupVars, drainVars, now, server, crashes>>

\* Mutant: the chunk is written whatever happened to the cursor.
CursorIgnored(m) == maint[m].pc = "write"

\* The cursor still has the value this chunk was read from.
CursorHeld(m) == cursor = maint[m].after

\* One transaction: the upserts and the cursor move together.
WriteRollups(m) ==
  /\ maint[m].pc = "write"
  /\ CursorHeld(m)
  /\ \E last \in maint[m].chunk :
       /\ \A s \in maint[m].chunk : s <= last
       /\ folded' = [s \in Seqs |-> IF s \in maint[m].chunk THEN folded[s] + 1 ELSE folded[s]]
       /\ cursor' = last
       /\ maint' = [maint EXCEPT ![m].pc = "read", ![m].after = last, ![m].chunk = {}]
  /\ UNCHANGED <<journalVars, evicted, drainVars, now, server, crashes>>

\* Mutant: a moved cursor ends the rollup pass as if it were complete.
RollupCursorMovedSwallowed(m) ==
  /\ maint[m].pc = "write"
  /\ ~CursorHeld(m)
  /\ maint' = [maint EXCEPT ![m] = [IdleMaint EXCEPT !.pc = "retain", !.upto = nextSeq]]
  /\ UNCHANGED <<journalVars, rollupVars, drainVars, now, server, crashes>>

\* Another maintainer moved the cursor: start again from where it is.
RollupCursorMoved(m) ==
  /\ maint[m].pc = "write"
  /\ ~CursorHeld(m)
  /\ maint' = [maint EXCEPT ![m] =
       IF maint[m].moves >= MaxMoves
         THEN IdleMaint
         ELSE [IdleMaint EXCEPT !.pc = "read", !.after = cursor, !.moves = maint[m].moves + 1]]
  /\ UNCHANGED <<journalVars, rollupVars, drainVars, now, server, crashes>>

\* Delivered or rejected rows older than the cutoff.
Expired == {s \in Settled : at[s] < now - Retention}

\* Mutant: without AUTOINCREMENT a deleted rowid is free again.
PruneReusable(rows) == state' = [s \in Seqs |-> IF s \in rows THEN "unused" ELSE state[s]]

\* DELETE FROM journal; AUTOINCREMENT never hands the seq out again.
Prune(rows) == state' = [s \in Seqs |-> IF s \in rows THEN "pruned" ELSE state[s]]

\* One DELETE of the retention loop; a short one ends the loop.
PruneExpired(m) ==
  LET rows == Oldest(Expired, PruneChunk) IN
  /\ maint[m].pc = "retain"
  /\ Prune(rows)
  /\ Goto(m, IF Cardinality(rows) < PruneChunk THEN "size" ELSE "retain")
  /\ UNCHANGED <<key, at, nextSeq, rollupVars, drainVars, now, server, crashes>>

\* liveBytes <= MaxBytes: nothing more to do (vacuum and checkpoint move no row).
SizeFits(m) ==
  /\ maint[m].pc = "size"
  /\ maint' = [maint EXCEPT ![m] = IdleMaint]
  /\ UNCHANGED <<journalVars, rollupVars, drainVars, now, server, crashes>>

\* Over budget: the oldest settled rows go, whatever their age; a DELETE that
\* finds none leads on to the rollups.
PruneForSize(m) ==
  /\ maint[m].pc = "size"
  /\ Prune(Oldest(Settled, PruneChunk))
  /\ Goto(m, IF Settled = {} THEN "rollups" ELSE "size")
  /\ UNCHANGED <<key, at, nextSeq, rollupVars, drainVars, now, server, crashes>>

\* Buckets present in the rollups table.
Buckets == {at[s] : s \in {u \in Seqs : folded[u] > 0}}

\* No raw row was left: the oldest buckets go, and with none left the call ends.
PruneRollups(m) ==
  LET gone == {s \in Seqs : folded[s] > 0 /\ at[s] \in Oldest(Buckets, PruneChunk)} IN
  /\ maint[m].pc = "rollups"
  /\ maint' = [maint EXCEPT ![m] = IF Buckets = {} THEN IdleMaint ELSE [@ EXCEPT !.pc = "size"]]
  /\ folded' = [s \in Seqs |-> IF s \in gone THEN 0 ELSE folded[s]]
  /\ evicted' = evicted \union gone
  /\ UNCHANGED <<journalVars, cursor, drainVars, now, server, crashes>>

\* The run's time budget expired, its statement failed, or the CLI was killed.
MaintainAborts(m) ==
  /\ maint[m].pc # "idle"
  /\ maint' = [maint EXCEPT ![m] = IdleMaint]
  /\ UNCHANGED <<journalVars, rollupVars, drainVars, now, server, crashes>>

-----------------------------------------------------------------------------
ClockTick ==
  /\ now < MaxTime
  /\ now' = now + 1
  /\ UNCHANGED <<journalVars, rollupVars, drainVars, server, maint, crashes>>

\* The agent process dies and restarts; only the database survives.
Crash ==
  /\ crashes < MaxCrashes
  /\ crashes' = crashes + 1
  /\ drain' = IdleDrain
  /\ waiting' = FALSE
  /\ maint' = [maint EXCEPT ![Agent] = IdleMaint]
  /\ UNCHANGED <<journalVars, rollupVars, now, server>>

Maintain(m) ==
  \/ MaintainStart(m) \/ ReadRollupChunk(m) \/ WriteRollups(m) \/ RollupCursorMoved(m)
  \/ PruneExpired(m) \/ SizeFits(m) \/ PruneForSize(m) \/ PruneRollups(m) \/ MaintainAborts(m)

Drain ==
  \/ PendingResults \/ PendingResultsFails \/ PostAnswered \/ PostFails
  \/ MarkOutcomes \/ MarkOutcomesFails \/ BackoffElapses

Next ==
  \/ \E batch \in SUBSET Results \ {{}} :
       (\E when \in Times : RecordResults(batch, when)) \/ ReportFallback(batch)
  \/ Drain
  \/ \E m \in Maintainers : Maintain(m)
  \/ ClockTick
  \/ Crash

Spec == Init /\ [][Next]_vars

\* The scheduler ticks forever and drains whenever it is idle; the network and
\* the local database fail now and then but not for good.
FairSpec ==
  /\ Spec
  /\ WF_vars(BackoffElapses)
  /\ SF_vars(PendingResults)
  /\ SF_vars(PostAnswered)
  /\ SF_vars(MarkOutcomes)

-----------------------------------------------------------------------------
(* Properties                                                              *)

DrainType == [pc : {"idle", "post", "settle"}, batch : SUBSET Seqs, acks : [Seqs -> Acks]]
MaintType == [pc : {"idle", "read", "write", "retain", "size", "rollups"},
              after : 0 .. MaxSeq, chunk : SUBSET Seqs, moves : 0 .. MaxMoves,
              upto : 0 .. MaxSeq + 1]

\* The shape of every table, the drain and each Maintain call.
TypeOK ==
  /\ state \in [Seqs -> States]
  /\ key \in [Seqs -> Results \union {NoKey}]
  /\ at \in [Seqs -> Times]
  /\ nextSeq \in 1 .. MaxSeq + 1
  /\ folded \in [Seqs -> Nat]
  /\ evicted \in SUBSET Seqs
  /\ cursor \in 0 .. MaxSeq
  /\ now \in Times
  /\ server \in [Results -> {"none", "stored", "refused"}]
  /\ drain \in DrainType
  /\ waiting \in BOOLEAN
  /\ maint \in [Maintainers -> MaintType]
  /\ crashes \in 0 .. MaxCrashes

\* A recorded result is given up (settled or deleted) only after radar-api
\* has judged it: no crash, lost response, failed settlement or pruning run
\* loses a result that RecordResults committed.
RecordedNotLost ==
  \A s \in Seqs :
    state[s] \in {"delivered", "rejected", "pruned"} => server[key[s]] # "none"

\* rollupResults folds a row at most once, whatever two Maintain calls (agent
\* loop and CLI) interleave: the cursor is compared before it is moved.
FoldedOnce == \A s \in Seqs : folded[s] <= 1

\* The rollup cursor never runs past a row without counting it: every row
\* still in the journal at or below the cursor is in its bucket, unless the
\* size cap dropped that bucket.
NoneSkipped == \A s \in Live : s <= cursor => folded[s] = 1 \/ s \in evicted

\* "Before pruning, results are folded into hourly per-probe rollups"
\* (src/README.md:269): while a Maintain call deletes rows, every row that was
\* in the journal when its rollup pass ended is counted, whatever the other
\* maintainer does to the cursor meanwhile.  Rows recorded and settled since
\* have no such protection from the size cap.
FoldedBeforePruning ==
  \A m \in Maintainers : maint[m].pc \in {"retain", "size", "rollups"} =>
    \A s \in Live : s < maint[m].upto => folded[s] = 1 \/ s \in evicted

\* Every recorded result is eventually settled, through failed posts, lost
\* responses, missing acks, failed settlements and crashes.
EventuallySettled == \A s \in Seqs : (state[s] = "pending") ~> (state[s] # "pending")
-----------------------------------------------------------------------------
(* The inductive invariant                                                 *)

\* Rows are handed out in order and never reused.
SeqsInOrder == \A s \in Seqs : (state[s] = "unused") <=> (s >= nextSeq)

\* Nothing above the cursor has been counted; the cursor covers used rows only.
CursorBound == cursor < nextSeq /\ \A s \in Seqs : s > cursor => folded[s] = 0

\* A Maintain call reads from a cursor that only ever grows, and its chunk is
\* a prefix of the live rows above that cursor.
ChunkIsPrefix ==
  \A m \in Maintainers :
    /\ maint[m].after <= cursor
    /\ \A s \in maint[m].chunk : maint[m].after < s /\ s < nextSeq
    /\ maint[m].pc = "write" =>
         \A s \in Live : \A t \in maint[m].chunk :
           maint[m].after < s /\ s <= t => s \in maint[m].chunk

\* The batch on its way consists of used rows; once answered, the server has
\* judged every one of them.
BatchJudged ==
  /\ \A s \in drain.batch : state[s] # "unused"
  /\ drain.pc = "settle" => \A s \in drain.batch : server[key[s]] # "none"

\* A rollup pass ended at or before the journal's present end.
PassEnded == \A m \in Maintainers : maint[m].upto <= nextSeq

KeysKnown == \A s \in Seqs : state[s] # "unused" => key[s] \in Results

IInv ==
  /\ TypeOK /\ SeqsInOrder /\ CursorBound /\ ChunkIsPrefix /\ BatchJudged /\ KeysKnown
  /\ RecordedNotLost /\ FoldedOnce /\ NoneSkipped /\ PassEnded /\ FoldedBeforePruning

-----------------------------------------------------------------------------
(* The abstract outbox this implements                                     *)

Place(st) ==
  CASE st = "unused" -> "absent"
    [] st = "pending" -> "queued"
    [] st = "pruned" -> "forgotten"
    [] OTHER -> "settled"

BoxOf  == [s \in Seqs |-> Place(state[s])]
SeenOf == {s \in Seqs : state[s] # "unused" /\ server[key[s]] # "none"}

Abstract == INSTANCE Outbox WITH Rows <- Seqs, box <- BoxOf, seen <- SeenOf

\* Recording, draining, settling and pruning together implement the outbox:
\* rows move queued -> settled -> forgotten, never back, never past the server.
ImplementsOutbox == Abstract!Spec
=============================================================================
