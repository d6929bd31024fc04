------------------------------ MODULE Triggers ------------------------------
(***************************************************************************)
(* "Run this probe now" requests on their way through the agent: the       *)
(* heartbeat goroutine receives, persists and queues them                  *)
(* (internal/agent/agent.go, cache.go), the scheduler goroutine executes   *)
(* and retires them (agent.go, store_delivery.go), and the trigger and     *)
(* probe tables of the store remember them across restarts                 *)
(* (internal/store/triggers.go, probes.go).                                *)
(*                                                                         *)
(* The two goroutines share the probe cache (one mutex) and the database   *)
(* (one connection); each critical section and each transaction is a step. *)
(* radar-api repeats an open trigger in every heartbeat answer until it    *)
(* has results for it.                                                     *)
(***************************************************************************)
EXTENDS Naturals, Sequences, FiniteSets, SequencesExt

CONSTANTS
  Probes, Runs,  \* probe ids and server-issued run ids
  ProbeOf,       \* the probe a run belongs to
  None,          \* no hash, no run id, no assignment in the answer
  Nodes,         \* the nodes looked at: how each makes results durable and, as
                 \* bounds, the runs opened on it in their order, the
                 \* assignments it is given, its crashes and its disk errors
  MaxPending,    \* maxPendingTriggers
  Slots,         \* triggers drained per tick (triggerSlots)
  MaxRan         \* where the execution counter saturates

ASSUME ConstantsAssumption ==
  /\ ProbeOf \in [Runs -> Probes]
  /\ IsFiniteSet(Runs) /\ None \notin Runs /\ \A P \in SUBSET Probes : P # None
  /\ \A n \in Nodes :
       n.mode \in {"store", "spool", "none"} /\ n.crashes \in Nat /\ n.errors \in Nat
  /\ MaxPending \in Nat \ {0} /\ Slots \in Nat \ {0} /\ MaxRan \in Nat

VARIABLES
  node,      \* where this node makes results durable, and its bounds
  trig,      \* radar-api: a run is new, open (redelivered), or reported
  want,      \* radar-api: the probes assigned to this node
  db,        \* tables: meta.probe_hash with probes, last run per probe,
             \*         pending_triggers by event_seq, completed_triggers
  cache,     \* probeCache: contentHash, probes, lastTriggerRunID, queue, and
             \*         the runs a full queue has turned away since it started
  restored,  \* triggersRestored
  ready,     \* a heartbeat has confirmed the node's status
  status,    \* the node status last heard
  hb,        \* the heartbeat goroutine
  sch,       \* the scheduler goroutine
  outbox,    \* runs with results on disk, not yet settled by radar-api
  ran,       \* how often each run's checks were executed
  skipped,   \* runs whose checks produced no result (destination busy)
  retired,   \* runs finishTriggers has declared durable
  evicted,   \* runs whose spooled results the byte budget pushed out
  crashes, errors

serverVars == <<trig, want>>
gateVars   == <<ready, status>>
faultVars  == <<crashes, errors>>
ranVars    == <<ran, skipped, retired, evicted>>
vars == <<node, serverVars, db, cache, restored, gateVars, hb, sch, outbox, ranVars, faultVars>>

UseStore == node.mode = "store"

NoLast   == [p \in Probes |-> None]
EmptyDB  == [hash |-> None, last |-> NoLast, pend |-> <<>>, done |-> {}]
NewCache == [hash |-> None, probes |-> {}, last |-> NoLast, queue |-> <<>>, turned |-> {}]
IdleHB   == [pc |-> "idle", events |-> {}, cur |-> None, probes |-> None,
             status |-> "", read |-> <<>>]
IdleSch  == [pc |-> "idle", runs |-> <<>>, got |-> {}]

\* The probes table: rewritten together with the hash.
DBProbes == IF db.hash = None THEN {} ELSE db.hash

\* A failure of the local disk.
Fault == errors < node.errors /\ errors' = errors + 1
NoFault == UNCHANGED errors

Init ==
  /\ node \in Nodes
  /\ trig = [r \in Runs |-> "new"]
  /\ want = Probes
  /\ db = EmptyDB
  /\ cache = NewCache
  /\ restored = TRUE
  /\ ready = FALSE
  /\ status = "active"
  /\ hb = IdleHB
  /\ sch = IdleSch
  /\ outbox = {}
  /\ ran = [r \in Runs |-> 0]
  /\ skipped = {}
  /\ retired = {}
  /\ evicted = {}
  /\ crashes = 0
  /\ errors = 0

-----------------------------------------------------------------------------
(* radar-api                                                               *)

Click(r) ==
  /\ \E i \in 1 .. Len(node.runs) :
       r = node.runs[i] /\ \A j \in 1 .. i - 1 : trig[node.runs[j]] # "new"
  /\ trig[r] = "new"
  /\ trig' = [trig EXCEPT ![r] = "open"]
  /\ UNCHANGED <<node, want, db, cache, restored, gateVars, hb, sch, outbox, ranVars, faultVars>>

Reassign(P) ==
  /\ P \in node.wants
  /\ want' = P
  /\ UNCHANGED <<node, trig, db, cache, restored, gateVars, hb, sch, outbox, ranVars, faultVars>>

\* Results under these run ids have reached radar-api.
Reported(rs) == trig' = [r \in Runs |-> IF r \in rs THEN "reported" ELSE trig[r]]

-----------------------------------------------------------------------------
(* probeCache                                                              *)

\* What op makes of base, element by element.  (FoldLeft of SequencesExt, by a
\* recursion over positions that proofs can follow.)
Fold(op(_, _), base, s) ==
  LET at[i \in 0 .. Len(s)] == IF i = 0 THEN base ELSE op(at[i - 1], s[i])
  IN  at[Len(s)]

Queued(c, r) == Contains(c.queue, r)

\* Dedup memory: in the queue, or the last run queued or completed.
Known(c, r) == Queued(c, r) \/ (ProbeOf[r] \in c.probes /\ c.last[ProbeOf[r]] = r)

\* Mutant: one more than fits.
FullLate(c) == Len(c.queue) > MaxPending

Full(c) == Len(c.queue) >= MaxPending

\* append, unless the queue is full.
Offer(c, r) ==
  IF Full(c) THEN [c EXCEPT !.turned = @ \union {r}]
             ELSE [c EXCEPT !.queue = Append(@, r), !.turned = @ \ {r}]

\* lastTriggerRunID of an assigned probe.
Noted(c, r) == IF ProbeOf[r] \in c.probes THEN [c EXCEPT !.last[ProbeOf[r]] = r] ELSE c

\* One trigger through the dedup and the queue cap; shared by
\* applyTriggeredEventLocked and the loop of queueTriggers.  The last run id
\* is overwritten before the cap is looked at.
Admit(c, r) == IF Known(c, r) THEN c ELSE Offer(Noted(c, r), r)

\* One round of queueTriggers, which stops at the first trigger the full queue
\* turns away; those behind it are turned away unseen.
QueueNext(a, r) ==
  IF a.stop
    THEN [a EXCEPT !.c.turned = IF Known(a.c, r) THEN @ ELSE @ \union {r}]
    ELSE [c |-> Admit(a.c, r), stop |-> ~Known(a.c, r) /\ Full(a.c)]

QueueTriggers(c, runs) == Fold(QueueNext, [c |-> c, stop |-> FALSE], runs).c

\* Mutant: a requeued trigger is deduplicated by lastTriggerRunID like a new one.
RequeueDeduped(c, r) == IF Known(c, r) THEN c ELSE Offer(c, r)

\* requeueTriggers ignores lastTriggerRunID and drops what does not fit.
Requeue(c, r) == IF Queued(c, r) THEN c ELSE Offer(c, r)

RequeueTriggers(c, runs) == Fold(Requeue, c, runs)

\* A new assignment keeps the memory of the probes it has in common.
ReplaceAssignment(c, P) ==
  [c EXCEPT !.probes = P, !.last = [p \in Probes |-> IF p \in P THEN c.last[p] ELSE None]]

-----------------------------------------------------------------------------
(* The heartbeat goroutine                                                 *)

\* beat() retries the restore that failed at startup: the table is read ...
PendingTriggers ==
  /\ hb.pc = "idle" /\ UseStore /\ ~restored
  /\ \/ NoFault /\ hb' = [hb EXCEPT !.pc = "restore", !.read = db.pend]
     \/ Fault   /\ hb' = [hb EXCEPT !.pc = "send"]
  /\ UNCHANGED <<node, serverVars, db, cache, restored, gateVars, sch, outbox, ranVars, crashes>>

\* ... and queued, in a separate critical section.
RestorePendingTriggers ==
  /\ hb.pc = "restore"
  /\ cache' = QueueTriggers(cache, hb.read)
  /\ restored' = TRUE
  /\ hb' = [hb EXCEPT !.pc = "send", !.read = <<>>]
  /\ UNCHANGED <<node, serverVars, db, gateVars, sch, outbox, ranVars, faultVars>>

\* The answer as radar-api composes it: the open triggers, the assignment if
\* the advertised hash differs, and a node status (or none).
HeartbeatAnswered(st) ==
  /\ hb.pc = "send" \/ (hb.pc = "idle" /\ (restored \/ ~UseStore))
  /\ hb' = [IdleHB EXCEPT !.pc = "sync", !.status = st,
              !.events = {r \in Runs : trig[r] = "open"},
              !.probes = IF want # cache.hash THEN want ELSE None]
  /\ UNCHANGED <<node, serverVars, db, cache, restored, gateVars, sch, outbox, ranVars, faultVars>>

HeartbeatFails ==
  /\ hb.pc = "send"
  /\ hb' = IdleHB
  /\ UNCHANGED <<node, serverVars, db, cache, restored, gateVars, sch, outbox, ranVars, faultVars>>

\* The answer arrives: the status is taken over, a new assignment is saved
\* first, and the saved row keeps each surviving probe's last run.
SaveAssignment ==
  /\ hb.pc = "sync"
  /\ status' = IF hb.status # "" THEN hb.status ELSE status
  /\ IF hb.probes = None
       THEN /\ NoFault /\ UNCHANGED db
            /\ hb' = [hb EXCEPT !.pc = "events"]
       ELSE \/ /\ NoFault
               /\ db' = IF UseStore
                          THEN [db EXCEPT !.hash = hb.probes,
                                  !.last = [p \in Probes |->
                                    IF p \in hb.probes THEN db.last[p] ELSE None]]
                          ELSE db
               /\ hb' = [hb EXCEPT !.pc = "replace"]
            \/ /\ UseStore /\ Fault
               /\ UNCHANGED db
               /\ hb' = [hb EXCEPT !.pc = "replace_keeping_hash"]
  /\ UNCHANGED <<node, serverVars, cache, restored, ready, sch, outbox, ranVars, crashes>>

\* Mutant: the hash is committed even when persisting it failed.
SyncAssignmentAnyway ==
  /\ hb.pc \in {"replace", "replace_keeping_hash"}
  /\ cache' = [ReplaceAssignment(cache, hb.probes) EXCEPT !.hash = hb.probes]
  /\ hb' = [hb EXCEPT !.pc = "events"]
  /\ UNCHANGED <<node, serverVars, db, restored, gateVars, sch, outbox, ranVars, faultVars>>

SyncAssignment ==
  /\ hb.pc \in {"replace", "replace_keeping_hash"}
  /\ LET c == ReplaceAssignment(cache, hb.probes)
     IN  cache' = IF hb.pc = "replace" THEN [c EXCEPT !.hash = hb.probes] ELSE c
  /\ hb' = [hb EXCEPT !.pc = "events"]
  /\ UNCHANGED <<node, serverVars, db, restored, gateVars, sch, outbox, ranVars, faultVars>>

\* No store: one critical section applies all events, in the answer's order.
ApplyTriggeredEvents ==
  /\ hb.pc = "events" /\ ~UseStore /\ hb.events # {}
  /\ \E order \in SetToSeqs(hb.events) :
       cache' = Fold(Admit, cache, order)
  /\ hb' = [hb EXCEPT !.events = {}]
  /\ UNCHANGED <<node, serverVars, db, restored, gateVars, sch, outbox, ranVars, faultVars>>

\* triggerAlreadySeenTx: completed, pending, or the probe's last run.
AlreadySeen(r) == r \in db.done \/ Contains(db.pend, r) \/ db.last[ProbeOf[r]] = r

\* queueTriggerTx: ON CONFLICT DO NOTHING.
QueueTriggerRow(d, r) == IF Contains(d.pend, r) THEN d ELSE [d EXCEPT !.pend = Append(@, r)]

\* With a store: each event is journalled in a transaction of its own.
\* A redelivery changes nothing; a failed transaction still lets the trigger
\* run from memory.
RecordTrigger(r) ==
  /\ hb.pc = "events" /\ UseStore /\ r \in hb.events
  /\ \/ /\ NoFault /\ AlreadySeen(r)
        /\ hb' = [hb EXCEPT !.events = @ \ {r}]
        /\ UNCHANGED db
     \/ /\ NoFault /\ ~AlreadySeen(r)
        /\ db' = QueueTriggerRow(db, r)
        /\ hb' = [hb EXCEPT !.pc = "apply", !.events = @ \ {r}, !.cur = r]
     \/ /\ Fault
        /\ hb' = [hb EXCEPT !.pc = "apply", !.events = @ \ {r}, !.cur = r]
        /\ UNCHANGED db
  /\ UNCHANGED <<node, serverVars, cache, restored, gateVars, sch, outbox, ranVars, crashes>>

\* Let the scheduler have it.
ApplyTriggeredEvent ==
  /\ hb.pc = "apply"
  /\ cache' = Admit(cache, hb.cur)
  /\ hb' = [hb EXCEPT !.pc = "events", !.cur = None]
  /\ UNCHANGED <<node, serverVars, db, restored, gateVars, sch, outbox, ranVars, faultVars>>

\* The answer has been applied; a status in it opens the scheduler's gate.
BeatDone ==
  /\ hb.pc = "events" /\ hb.events = {}
  /\ ready' = (ready \/ hb.status # "")
  /\ hb' = IdleHB
  /\ UNCHANGED <<node, serverVars, db, cache, restored, status, sch, outbox, ranVars, faultVars>>

-----------------------------------------------------------------------------
(* The scheduler goroutine: runDueProbes                                   *)

Taken == ToSet(sch.runs)

\* drainPendingTriggersLimited
TakeTriggers ==
  /\ sch.pc = "idle" /\ ready /\ status = "active"
  /\ cache.queue # <<>>
  /\ LET n == IF Slots < Len(cache.queue) THEN Slots ELSE Len(cache.queue) IN
     /\ sch' = [IdleSch EXCEPT !.pc = "check", !.runs = SubSeq(cache.queue, 1, n)]
     /\ cache' = [cache EXCEPT !.queue = SubSeq(@, n + 1, Len(@))]
  /\ UNCHANGED <<node, serverVars, db, restored, gateVars, hb, outbox, ranVars, faultVars>>

\* executeProbes and executeTriggers.  A check whose destination never clears
\* yields no result; `scheduled` says whether due probes yielded any.  A tick
\* without results goes straight to finishTriggers(durable = true).
ExecuteTriggers(got, scheduled) ==
  /\ sch.pc = "check" /\ got \subseteq Taken
  /\ ran' = [r \in Runs |-> IF r \in got /\ ran[r] < MaxRan THEN ran[r] + 1 ELSE ran[r]]
  /\ skipped' = skipped \union (Taken \ got)
  /\ sch' = [sch EXCEPT !.got = got,
               !.pc = IF got = {} /\ ~scheduled THEN "complete" ELSE "report"]
  /\ UNCHANGED <<node, serverVars, db, cache, restored, gateVars, hb, outbox, retired, evicted, faultVars>>

\* prune: what a spool over its byte budget gives up to make room.  Batches are
\* named by the wall clock, and the largest name counts as the newest: after a
\* clock step back it may be the batch just written that goes.
Prunable(batch) ==
  IF node.mode = "spool"
  THEN {gone \in SUBSET (outbox \union batch) : batch \subseteq gone \/ batch \intersect gone = {}}
  ELSE {{}}

\* enqueue, or RecordResults of a store, which evicts nothing.
Enqueue(batch) ==
  \E gone \in Prunable(batch) :
    /\ outbox' = (outbox \union batch) \ gone
    /\ evicted' = evicted \union gone

\* reportResults: into the store or the spool, or, without either or after a
\* disk error, straight to the API.
ReportResults ==
  /\ sch.pc = "report"
  /\ \/ /\ node.mode # "none" /\ NoFault
        /\ Enqueue(sch.got)
        /\ sch' = [sch EXCEPT !.pc = "deliver"]
     \/ /\ IF node.mode = "none" THEN NoFault ELSE Fault
        /\ sch' = [sch EXCEPT !.pc = "post"]
        /\ UNCHANGED <<outbox, evicted>>
  /\ UNCHANGED <<node, serverVars, db, cache, restored, gateVars, hb, ran, skipped, retired, crashes>>

\* reportFallback's direct POST.
PostResults ==
  /\ sch.pc = "post"
  /\ Reported(sch.got)
  /\ sch' = [sch EXCEPT !.pc = "complete"]
  /\ UNCHANGED <<node, want, db, cache, restored, gateVars, hb, outbox, ranVars, faultVars>>

\* Mutant: an error of the direct POST is only logged.
PostResultsFailsIgnored ==
  /\ sch.pc = "post"
  /\ sch' = [sch EXCEPT !.pc = "complete"]
  /\ UNCHANGED <<node, serverVars, db, cache, restored, gateVars, hb, outbox, ranVars, faultVars>>

\* Not durable: the triggers go back to the queue.  The answer may have been
\* lost after radar-api took the results.
PostResultsFails ==
  /\ sch.pc = "post"
  /\ Reported(sch.got) \/ UNCHANGED trig
  /\ cache' = RequeueTriggers(cache, sch.runs)
  /\ sch' = IdleSch
  /\ UNCHANGED <<node, want, db, restored, gateVars, hb, outbox, ranVars, faultVars>>

\* drainDelivery runs after results were recorded and on idle ticks.
MayDeliver == sch.pc = "deliver" \/ (sch.pc = "idle" /\ ready /\ status = "active" /\ outbox # {})
AfterDelivery == sch' = IF sch.pc = "deliver" THEN [sch EXCEPT !.pc = "complete"] ELSE sch

DrainDelivery ==
  /\ MayDeliver
  /\ Reported(outbox)
  /\ outbox' = {}
  /\ AfterDelivery
  /\ UNCHANGED <<node, want, db, cache, restored, gateVars, hb, ranVars, faultVars>>

\* A POST fails, is backed off, or its settlement fails: radar-api may have
\* seen some batches, and some of those may be settled.
DrainDeliveryFails ==
  /\ MayDeliver
  /\ \E seen \in SUBSET outbox : \E settled \in SUBSET seen :
       Reported(seen) /\ outbox' = outbox \ settled
  /\ AfterDelivery
  /\ UNCHANGED <<node, want, db, cache, restored, gateVars, hb, ranVars, faultVars>>

\* Mutant: DELETE ... WHERE probe_id = ?, without the run id.
RetireRowsOfProbe(d, runs) ==
  [d EXCEPT !.pend = SelectSeq(@, LAMBDA r : \A q \in ToSet(runs) : ProbeOf[q] # ProbeOf[r]),
            !.done = @ \union ToSet(runs)]

\* The rows of pend that are not of runs.
Without(pend, runs) ==
  Fold(LAMBDA kept, r : IF Contains(runs, r) THEN kept ELSE Append(kept, r), <<>>, pend)

\* Mutant: the completion is not remembered.
RetireRowsForgetful(d, runs) == [d EXCEPT !.pend = Without(@, runs)]

\* The runs' last one of probe p, or what is remembered now.
LastOf(runs, p, else) ==
  LET mine == {i \in 1 .. Len(runs) : ProbeOf[runs[i]] = p}
  IN  IF mine = {} THEN else ELSE runs[Max(mine)]

\* CompleteTriggers: the pending rows go, the completions stay, and each
\* probe still in the table remembers its latest run.
RetireRows(d, runs) ==
  [d EXCEPT !.pend = Without(@, runs),
            !.done = @ \union ToSet(runs),
            !.last = [p \in Probes |-> IF p \in DBProbes THEN LastOf(runs, p, @[p]) ELSE @[p]]]

\* finishTriggers(durable = true); a failed transaction is only logged.
CompleteTriggers ==
  /\ sch.pc = "complete"
  /\ \/ NoFault /\ db' = IF UseStore THEN RetireRows(db, sch.runs) ELSE db
     \/ UseStore /\ Fault /\ UNCHANGED db
  /\ retired' = retired \union Taken
  /\ sch' = [sch EXCEPT !.pc = "mark"]
  /\ UNCHANGED <<node, serverVars, cache, restored, gateVars, hb, outbox, ran, skipped, evicted, crashes>>

\* One critical section per trigger.
MarkTriggerComplete ==
  /\ sch.pc = "mark"
  /\ LET p == ProbeOf[Head(sch.runs)] IN
     cache' = IF p \in cache.probes THEN [cache EXCEPT !.last[p] = Head(sch.runs)] ELSE cache
  /\ sch' = IF Len(sch.runs) = 1 THEN IdleSch ELSE [sch EXCEPT !.runs = Tail(@)]
  /\ UNCHANGED <<node, serverVars, db, restored, gateVars, hb, outbox, ranVars, faultVars>>

-----------------------------------------------------------------------------
(* The process dies and Run starts again: the assignment is loaded, then   *)
(* the pending triggers; either read may fail.                             *)

Booted(load) ==
  IF UseStore /\ load /\ db.hash # None
    THEN [NewCache EXCEPT !.hash = db.hash, !.probes = db.hash, !.last = db.last]
    ELSE NewCache

Crash(load, restore) ==
  /\ crashes < node.crashes
  /\ crashes' = crashes + 1
  /\ ~(load /\ restore) => UseStore
  /\ IF load /\ restore THEN NoFault ELSE Fault
  /\ cache' = IF UseStore /\ restore THEN QueueTriggers(Booted(load), db.pend) ELSE Booted(load)
  /\ restored' = restore
  /\ ready' = FALSE
  /\ status' = "active"
  /\ hb' = IdleHB
  /\ sch' = IdleSch
  /\ outbox' = IF node.mode = "none" THEN {} ELSE outbox
  /\ UNCHANGED <<node, serverVars, db, ranVars>>

-----------------------------------------------------------------------------
Heartbeat ==
  \/ PendingTriggers \/ RestorePendingTriggers
  \/ \E st \in {"active", "paused", ""} : HeartbeatAnswered(st)
  \/ HeartbeatFails \/ SaveAssignment \/ SyncAssignment \/ ApplyTriggeredEvents
  \/ \E r \in Runs : RecordTrigger(r)
  \/ ApplyTriggeredEvent \/ BeatDone

Scheduler ==
  \/ TakeTriggers
  \/ \E got \in SUBSET Runs, scheduled \in BOOLEAN : ExecuteTriggers(got, scheduled)
  \/ ReportResults \/ PostResults \/ PostResultsFails
  \/ DrainDelivery \/ DrainDeliveryFails
  \/ CompleteTriggers \/ MarkTriggerComplete

Next ==
  \/ \E r \in Runs : Click(r)
  \/ \E P \in SUBSET Probes : Reassign(P)
  \/ Heartbeat
  \/ Scheduler
  \/ \E load, restore \in BOOLEAN : Crash(load, restore)

Spec == Init /\ [][Next]_vars

\* The steps of each loop that wait for nobody; at each of its places a loop
\* has at most one of them to take.
HeartbeatLocal ==
  \/ PendingTriggers \/ RestorePendingTriggers \/ SaveAssignment \/ SyncAssignment
  \/ ApplyTriggeredEvents \/ (\E r \in Runs : RecordTrigger(r)) \/ ApplyTriggeredEvent \/ BeatDone
SchedulerLocal ==
  \/ \E got \in SUBSET Runs, scheduled \in BOOLEAN : ExecuteTriggers(got, scheduled)
  \/ ReportResults \/ CompleteTriggers \/ MarkTriggerComplete

\* Both loops keep ticking; radar-api answers, with the node active, again and
\* again; the disk fails node.errors times at most.
FairSpec ==
  /\ Spec
  /\ WF_vars(HeartbeatLocal) /\ WF_vars(SchedulerLocal)
  /\ SF_vars(HeartbeatAnswered("active"))
  /\ SF_vars(TakeTriggers) /\ SF_vars(PostResults) /\ SF_vars(DrainDelivery)

-----------------------------------------------------------------------------
(* Properties                                                              *)

Assignments == (SUBSET Probes) \union {None}
DBType == [hash : Assignments, last : [Probes -> Runs \union {None}],
           pend : Seq(Runs), done : SUBSET Runs]
CacheType == [hash : Assignments, probes : SUBSET Probes,
              last : [Probes -> Runs \union {None}], queue : Seq(Runs), turned : SUBSET Runs]
HBType == [pc : {"idle", "restore", "send", "sync", "replace", "replace_keeping_hash", "events", "apply"},
           events : SUBSET Runs, cur : Runs \union {None}, probes : Assignments,
           status : {"active", "paused", ""}, read : Seq(Runs)]
SchType == [pc : {"idle", "check", "report", "post", "deliver", "complete", "mark"},
            runs : Seq(Runs), got : SUBSET Runs]

\* The shape of the tables, the cache and the two goroutines; the queue never
\* outgrows its cap, no table and no queue holds a run twice, and a goroutine
\* that has come to use an assignment, a trigger or a batch has one.
TypeOK ==
  /\ node \in Nodes
  /\ trig \in [Runs -> {"new", "open", "reported"}]
  /\ want \subseteq Probes
  /\ db \in DBType /\ IsInjective(db.pend)
  /\ cache \in CacheType /\ IsInjective(cache.queue) /\ Len(cache.queue) <= MaxPending
  /\ restored \in BOOLEAN /\ ready \in BOOLEAN
  /\ status \in {"active", "paused"}
  /\ hb \in HBType
  /\ hb.pc = "apply" => hb.cur # None
  /\ hb.pc \in {"replace", "replace_keeping_hash"} => hb.probes # None
  /\ sch \in SchType /\ (sch.pc # "idle" => sch.runs # <<>>)
  /\ outbox \subseteq Runs
  /\ ran \in [Runs -> 0 .. MaxRan]
  /\ skipped \subseteq Runs /\ retired \subseteq Runs /\ evicted \subseteq Runs
  /\ crashes \in 0 .. node.crashes /\ errors \in 0 .. node.errors

\* With the store, redelivery on every heartbeat, late answers, reassignments
\* and requeues never make the node execute a run twice: each extra execution needs a
\* crash or a disk error of its own (RecordTrigger's "a late redelivery
\* cannot execute it again").
RunOncePerFault == UseStore => \A r \in Runs : ran[r] <= 1 + crashes + errors

\* A trigger is retired only when its results are on disk or at radar-api, or
\* when its checks yielded none; only the spool's own eviction, which is
\* logged, can undo that later.
RetiredOnlyWhenDurable ==
  \A r \in retired : r \in outbox \union skipped \union evicted \/ trig[r] = "reported"

\* Persisted before it reaches the scheduler: as long as the disk works, a
\* trigger that is queued or being executed has its pending row, so a crash at
\* any point loses none.
QueuedIsPersisted ==
  UseStore /\ errors = 0 =>
    \A r \in Runs :
      Queued(cache, r) \/ (r \in Taken /\ sch.pc \in {"check", "report", "deliver"})
        => Contains(db.pend, r)

\* The hash advertised to radar-api is one whose assignment the database
\* holds: a failed save is retried instead of "the database silently going
\* stale" (cache.go, replaceAssignmentKeepingHash).
AdvertisedIsPersisted ==
  UseStore /\ cache.hash # None /\ hb.pc # "replace" => db.hash = cache.hash

\* Every trigger radar-api opens is reported in the end, whatever crashes, fails
\* to be read or posted and contends with it, unless its checks were skipped or
\* the spool's byte budget evicted its results - or the full queue turned it
\* away, for as long as it has not been let in again (cache.go:194).
EventuallyReported ==
  \A r \in Runs : (trig[r] = "open") ~>
    (trig[r] = "reported" \/ r \in skipped \union evicted \union cache.turned)

\* A trigger the full queue turned away is "deferring to durable replay"
\* (src/internal/agent/cache.go:195): its pending row is replayed in the end.
EventuallyReplayed ==
  \A r \in Runs : Contains(db.pend, r) ~> ran[r] > 0 \/ r \in skipped
=============================================================================
