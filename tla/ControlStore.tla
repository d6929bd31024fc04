---------------------------- MODULE ControlStore ----------------------------
(***************************************************************************)
(* The control side of the local SQLite store (internal/store): opening    *)
(* the file, the journal of assignments, triggers and completions, the     *)
(* tables projected from it, the pruning of that journal, and the          *)
(* `store rebuild` command that derives the tables from it again.          *)
(*                                                                         *)
(* Any number of processes (the agent, `radar-node store ...` commands)    *)
(* open the same file.  One SQL statement or transaction is one step; a    *)
(* Rebuild is replayed event by event under SQLite's write lock, and a     *)
(* crash in the middle rolls it back.  Result rows are ResultStore's and   *)
(* last_run_at_ms is Scheduler's; of results only the sequence numbers     *)
(* they take matter here.                                                  *)
(***************************************************************************)
EXTENDS Integers, FiniteSets

CONSTANTS
  Triggers,    \* (probe_id, run_id) pairs
  Probes,
  ProbeOf,     \* the probe of each trigger
  Processes,   \* everything that may open the database
  Agent,       \* the process that records; it never rebuilds
  Maintainers, \* the processes that run Maintain
  Origins,     \* node identities
  Requested,   \* the Options.Origin values each process may pass
  NoTrigger, NoHash, NoOrigin, NoProcess,
  MaxSeq,      \* bound: journal rows ever inserted
  MaxGap,      \* bound: sequence numbers lost to duplicate results
  Tick,        \* how far the wall clock moves in one step
  MaxTime,     \* bound: the wall clock
  MaxSteps,    \* bound: times the wall clock is set back
  MaxCrashes,  \* bound: processes that die
  Retention,   \* opts.Retention, set
  PruneChunk   \* rows per DELETE (pruneChunk)

ASSUME ControlAssumption ==
  /\ NoTrigger \notin Triggers /\ \A P \in SUBSET Probes : P # NoHash
  /\ NoOrigin \notin Origins /\ NoProcess \notin Processes
  /\ ProbeOf \in [Triggers -> Probes]
  /\ Agent \in Processes /\ Maintainers \subseteq Processes
  /\ Requested \in [Processes -> SUBSET (Origins \union {NoOrigin})]
  /\ MaxSeq \in Nat \ {0} /\ MaxGap \in Nat /\ MaxTime \in Nat \ {0}
  /\ MaxSteps \in Nat /\ MaxCrashes \in Nat
  /\ Tick \in Nat \ {0} /\ Retention \in Nat \ {0} /\ PruneChunk \in Nat \ {0}

VARIABLES
  version,     \* PRAGMA user_version
  origin,      \* meta 'origin'
  created,     \* the file is there and not empty
  journal,     \* the journal's rows by rowid
  nextSeq,     \* AUTOINCREMENT of journal.seq
  nextOrigin,  \* sequences.next_seq
  pending,     \* pending_triggers: event_seq, 0 for no row
  completed,   \* completed_triggers: completed_at_ms, 0 for no row
  probes,      \* meta 'probe_hash' and the probes table
  handle,      \* each process's *Store: how far Open has come, its origin
  maint,       \* each process's Maintain call
  tx,          \* the Rebuild transaction
  queue,       \* triggers the agent holds in memory
  restored,    \* agent.triggersRestored
  now,         \* the local wall clock
  faults,      \* crashes and clock steps so far
  hist         \* history: see NoHistory

dbVars  == <<version, origin, created, journal, nextSeq, nextOrigin, pending, completed, probes>>
vars == <<dbVars, handle, maint, tx, queue, restored, now, faults, hist>>

Seqs  == 1 .. MaxSeq
Times == 1 .. MaxTime
schemaVersion == 2

Kinds == {"none", "assignment", "trigger", "trigger_done"}

Row(kind, at, trig, P) == [kind |-> kind, at |-> at, trig |-> trig, probes |-> P]
NoRow == Row("none", 0, NoTrigger, {})

Of(kind) == {s \in Seqs : journal[s].kind = kind}
Control == Of("assignment") \union Of("trigger") \union Of("trigger_done")

Newest(S) == CHOOSE s \in S : \A t \in S : t <= s

\* Mutant: the DELETE takes its rows from the other end.
NewestRows(S, n) == {s \in S : Cardinality({t \in S : t > s}) < n}

\* ORDER BY seq LIMIT n
Oldest(S, n) == {s \in S : Cardinality({t \in S : t < s}) < n}

\* The assignment the probes table holds: probe_hash is a digest of it.
Assigned(table) == IF table.hash = NoHash THEN {} ELSE table.hash

TablesOf(queued, done, hash, last) ==
  [pending |-> queued, completed |-> done, hash |-> hash, last |-> last]
NoTables == TablesOf([t \in Triggers |-> 0], [t \in Triggers |-> 0],
                     NoHash, [p \in Probes |-> NoTrigger])
Transaction(who, pos, tables) == [who |-> who, pos |-> pos, tables |-> tables]
IdleTx == Transaction(NoProcess, 0, NoTables)
Handle(pc, o, v) == [pc |-> pc, origin |-> o, version |-> v]
Closed == Handle("closed", NoOrigin, 0)
MaintainAt(pc, cutoff) == [pc |-> pc, cutoff |-> cutoff]
IdleMaint == MaintainAt("idle", 0)

\* lost: pending triggers whose event a version-1 binary pruned; astray: the
\* queue row was corrupt and dropped, the completion carries an earlier time
\* than the trigger, or a lost trigger shields the event; owed: completed
\* within the retention period and not to be run again, unless a lost trigger
\* shields an earlier completion; authors: the origins rows were inserted under.
History(lost, astray, owed, authors) ==
  [lost |-> lost, astray |-> astray, owed |-> owed, authors |-> authors]
NoHistory == History({}, {}, {}, {})

-----------------------------------------------------------------------------
(* Initial states: no file yet, or one a version-1 binary left behind      *)

FreshFile ==
  /\ version = 0 /\ origin = NoOrigin /\ created = FALSE
  /\ journal = [s \in Seqs |-> NoRow] /\ nextSeq = 1 /\ nextOrigin = 1
  /\ pending = NoTables.pending
  /\ hist = NoHistory

\* Version 1 queued a trigger under its origin sequence, ahead of its rowid by
\* the gap, and protected the row with that rowid: any other may be gone.
OldRow(ts) == IF ts = {} THEN NoRow ELSE Row("trigger", 1, CHOOSE t \in ts : TRUE, {})

\* A file with n rows, the events of the queued triggers.
OldFile(o, n, gap, queued, row, lost) ==
  /\ \A t, u \in queued : row[t] = row[u] => t = u
  /\ \A s \in 1 .. n : \E t \in queued : row[t] = s
  /\ \A t \in lost, u \in queued : row[t] # row[u] + gap
  /\ version = 1 /\ origin = o /\ created = TRUE
  /\ journal = [s \in Seqs |-> OldRow({t \in queued \ lost : row[t] = s})]
  /\ nextSeq = n + 1 /\ nextOrigin = n + 1 + gap
  /\ pending = [t \in Triggers |-> IF t \in queued THEN row[t] + gap ELSE 0]
  /\ hist = History(lost, {}, {}, {o})

VersionOneFile ==
  \E o \in Origins, n \in 0 .. MaxSeq, gap \in 0 .. MaxGap, queued \in SUBSET Triggers :
  \E row \in [queued -> 1 .. n], lost \in SUBSET queued : OldFile(o, n, gap, queued, row, lost)

Init ==
  /\ FreshFile \/ VersionOneFile
  /\ completed = NoTables.completed
  /\ probes = [hash |-> NoHash, last |-> NoTables.last]
  /\ handle = [p \in Processes |-> Closed]
  /\ maint = [p \in Processes |-> IdleMaint]
  /\ tx = IdleTx
  /\ queue = {} /\ restored = FALSE
  /\ now = 1
  /\ faults = [crashes |-> 0, steps |-> 0]

-----------------------------------------------------------------------------
(* Open                                                                    *)

Unlocked == tx.who = NoProcess

\* The file is created, and user_version read on its own.  Without an origin a
\* missing or empty file is refused.
Open(p, o) ==
  /\ handle[p].pc = "closed"
  /\ o = NoOrigin => created
  /\ created' = TRUE
  /\ handle' = [handle EXCEPT ![p] = Handle("schema", o, version)]
  /\ UNCHANGED <<version, origin, journal, nextSeq, nextOrigin, pending, completed, probes,
                 maint, tx, queue, restored, now, faults, hist>>

\* The newest event of a trigger, as the migration looks it up.
EventsOf(t) == {s \in Of("trigger") : journal[s].trig = t}

DonesOf(t) == {s \in Of("trigger_done") : journal[s].trig = t}

\* Mutant: the migration only records the new version.
MigrateV1ToV2Skipped == UNCHANGED pending

\* migrateV1ToV2: the queue is repointed at rowids where the event still exists.
MigrateV1ToV2 ==
  pending' = [t \in Triggers |->
    IF pending[t] # 0 /\ EventsOf(t) # {} THEN Newest(EventsOf(t)) ELSE pending[t]]

\* initSchema acts on the version Open read, in one transaction; creating the
\* tables (IF NOT EXISTS) leaves those of another process alone.
InitSchema(p) ==
  /\ handle[p].pc = "schema" /\ (handle[p].version = schemaVersion \/ Unlocked)
  /\ version' = schemaVersion
  /\ IF handle[p].version = 1 THEN MigrateV1ToV2 ELSE UNCHANGED pending
  /\ handle' = [handle EXCEPT ![p] = Handle("meta", @.origin, 0)]
  /\ UNCHANGED <<origin, created, journal, nextSeq, nextOrigin, completed, probes,
                 maint, tx, queue, restored, now, faults, hist>>

\* initMeta reads the origin: bound, refused, or to be inserted.
InitMeta(p) ==
  /\ handle[p].pc = "meta"
  /\ handle' = [handle EXCEPT ![p] =
       IF origin = NoOrigin /\ handle[p].origin # NoOrigin THEN Handle("insert", @.origin, 0)
       ELSE IF origin # NoOrigin /\ handle[p].origin \in {NoOrigin, origin}
         THEN Handle("open", origin, 0)
       ELSE Closed]
  /\ UNCHANGED <<dbVars, maint, tx, queue, restored, now, faults, hist>>

\* Mutant: INSERT ... ON CONFLICT DO NOTHING, and the error is not seen.
BindOriginAnyway(p) ==
  /\ origin' = IF origin = NoOrigin THEN handle[p].origin ELSE origin
  /\ handle' = [handle EXCEPT ![p] = Handle("open", @.origin, 0)]

\* The first INSERT wins; a second one violates the primary key.
BindOrigin(p) ==
  IF origin = NoOrigin
    THEN /\ origin' = handle[p].origin
         /\ handle' = [handle EXCEPT ![p] = Handle("open", @.origin, 0)]
    ELSE /\ UNCHANGED origin
         /\ handle' = [handle EXCEPT ![p] = Closed]

InsertMeta(p) ==
  /\ handle[p].pc = "insert" /\ Unlocked
  /\ BindOrigin(p)
  /\ UNCHANGED <<version, created, journal, nextSeq, nextOrigin, pending, completed, probes,
                 maint, tx, queue, restored, now, faults, hist>>

-----------------------------------------------------------------------------
(* The agent: assignments, results, triggers                               *)

CanWrite(p) == handle[p].pc = "open" /\ Unlocked

\* The origin a new row carries joins the file's authors.
Signed == hist.authors \union {handle[Agent].origin}

\* nextOriginSeq, and one journal row under the number it returned.
Insert(row) ==
  /\ nextSeq <= MaxSeq
  /\ journal' = [journal EXCEPT ![nextSeq] = row]
  /\ nextSeq' = nextSeq + 1
  /\ nextOrigin' = nextOrigin + 1

\* The journal row, the new probes table and its hash in one transaction;
\* probes that stay assigned keep their schedule state.
SaveAssignment(P) ==
  /\ CanWrite(Agent)
  /\ Insert(Row("assignment", now, NoTrigger, P))
  /\ probes' = [hash |-> P,
                last |-> [p \in Probes |-> IF p \in P THEN probes.last[p] ELSE NoTrigger]]
  /\ hist' = History(hist.lost, hist.astray, hist.owed, Signed)
  /\ UNCHANGED <<version, origin, created, pending, completed, handle, maint, tx, queue, restored, now, faults>>

\* RecordResults with a duplicate in its batch: ON CONFLICT DO NOTHING, but the
\* origin sequence number is taken.
RecordDuplicate ==
  /\ CanWrite(Agent)
  /\ nextOrigin - nextSeq < MaxGap
  /\ nextOrigin' = nextOrigin + 1
  /\ UNCHANGED <<version, origin, created, journal, nextSeq, pending, completed, probes,
                 handle, maint, tx, queue, restored, now, faults, hist>>

\* triggerAlreadySeenTx
Seen(t) == completed[t] # 0 \/ pending[t] # 0 \/ probes.last[ProbeOf[t]] = t

\* Mutant: the queue row names the event by its origin sequence, as version 1 did.
EventSeqOrigin == nextOrigin

\* LastInsertId: the rowid of the event just inserted.
EventSeq == nextSeq

\* A trigger seen for the first time: journal row and queue row together.
RecordTrigger(t) ==
  /\ CanWrite(Agent) /\ ~Seen(t)
  /\ Insert(Row("trigger", now, t, {}))
  /\ pending' = [pending EXCEPT ![t] = EventSeq]
  /\ queue' = queue \union {t}
  /\ hist' = History(hist.lost, hist.astray \ {t}, hist.owed \ {t}, Signed)
  /\ UNCHANGED <<version, origin, created, completed, probes, handle, maint, tx, restored, now, faults>>

\* The transaction failed: the agent applies the trigger in memory all the same.
RecordTriggerFails(t) ==
  /\ handle[Agent].pc = "open"
  /\ queue' = queue \union {t}
  /\ UNCHANGED <<dbVars, handle, maint, tx, restored, now, faults, hist>>

\* PendingTriggers at startup; a row whose snapshot does not parse is deleted.
PendingTriggers(corrupt) ==
  LET held == {t \in Triggers : pending[t] # 0} IN
  /\ handle[Agent].pc = "open" /\ ~restored /\ (corrupt # {} => Unlocked)
  /\ corrupt \subseteq held
  /\ queue' = queue \union (held \ corrupt)
  /\ restored' = TRUE
  /\ pending' = [t \in Triggers |-> IF t \in corrupt THEN 0 ELSE pending[t]]
  /\ hist' = History(hist.lost \ corrupt, hist.astray \union corrupt, hist.owed, hist.authors)
  /\ UNCHANGED <<version, origin, created, journal, nextSeq, nextOrigin, completed, probes,
                 handle, maint, tx, now, faults>>

\* completeTriggerTx on a set of tables.
Complete(tables, t, at) ==
  TablesOf([tables.pending EXCEPT ![t] = 0], [tables.completed EXCEPT ![t] = at], tables.hash,
           IF ProbeOf[t] \in Assigned(tables) THEN [tables.last EXCEPT ![ProbeOf[t]] = t]
           ELSE tables.last)

Tables == TablesOf(pending, completed, probes.hash, probes.last)

\* The completion is recorded even for a trigger that was only in memory.
Completion(t) == Complete(Tables, t, now)

\* The queue row of a trigger whose event version 1 lost still holds an origin
\* sequence number, and pruning spares the row that has it as its rowid.
Shielded(rows) == \E u \in hist.lost : pending[u] \in rows

\* One trigger of a CompleteTriggers batch; a batch is several in one transaction.
CompleteTriggers(t) ==
  /\ CanWrite(Agent) /\ t \in queue
  /\ Insert(Row("trigger_done", now, t, {}))
  /\ pending' = Completion(t).pending
  /\ completed' = Completion(t).completed
  /\ probes' = [hash |-> Completion(t).hash, last |-> Completion(t).last]
  /\ queue' = queue \ {t}
  /\ hist' = History(
       hist.lost \ {t},
       IF Shielded(EventsOf(t)) \/ \E s \in EventsOf(t) : journal[s].at > now
         THEN hist.astray \union {t} ELSE hist.astray \ {t},
       IF Shielded(DonesOf(t)) \/ \E p \in Processes : maint[p].cutoff > now
         THEN hist.owed \ {t} ELSE hist.owed \union {t},
       Signed)
  /\ UNCHANGED <<version, origin, created, handle, maint, tx, restored, now, faults>>

-----------------------------------------------------------------------------
(* Maintain, after its rollup pass                                         *)

MaintainStart(p) ==
  /\ p \in Maintainers /\ handle[p].pc = "open" /\ maint[p].pc = "idle"
  /\ maint' = [maint EXCEPT ![p] = MaintainAt("retain", now - Retention)]
  /\ hist' = History(hist.lost, hist.astray,
                     {t \in hist.owed : completed[t] >= now - Retention}, hist.authors)
  /\ UNCHANGED <<dbVars, handle, tx, queue, restored, now, faults>>

\* Mutant: a trigger's event goes with the others.
PrunableAny == Of("trigger") \union Of("trigger_done")

\* Trigger events no queue row points to.
Prunable == {s \in Of("trigger") \union Of("trigger_done") : \A t \in Triggers : pending[t] # s}

Delete(rows) == journal' = [s \in Seqs |-> IF s \in rows THEN NoRow ELSE journal[s]]

Goto(p, pc) == maint' = [maint EXCEPT ![p] = MaintainAt(pc, @.cutoff)]

\* One DELETE of the retention loop; a short one ends it.
PruneExpired(p) ==
  LET rows == Oldest({s \in Prunable : journal[s].at < maint[p].cutoff}, PruneChunk) IN
  /\ CanWrite(p) /\ maint[p].pc = "retain"
  /\ Delete(rows)
  /\ Goto(p, IF Cardinality(rows) < PruneChunk THEN "completed" ELSE "retain")
  /\ UNCHANGED <<version, origin, created, nextSeq, nextOrigin, pending, completed, probes,
                 handle, tx, queue, restored, now, faults, hist>>

PruneCompleted(p) ==
  /\ CanWrite(p) /\ maint[p].pc = "completed"
  /\ completed' = [t \in Triggers |-> IF completed[t] < maint[p].cutoff THEN 0 ELSE completed[t]]
  /\ maint' = [maint EXCEPT ![p] = MaintainAt("collapse", 0)]
  /\ UNCHANGED <<version, origin, created, journal, nextSeq, nextOrigin, pending, probes,
                 handle, tx, queue, restored, now, faults, hist>>

\* Mutant: the oldest assignment is the one that stays.
SupersededByOldest == {s \in Of("assignment") : \E t \in Of("assignment") : t < s}

\* Every assignment but the newest.
Superseded == {s \in Of("assignment") : \E t \in Of("assignment") : s < t}

CollapseAssignments(p) ==
  /\ CanWrite(p) /\ maint[p].pc = "collapse"
  /\ Delete(Superseded)
  /\ Goto(p, "size")
  /\ UNCHANGED <<version, origin, created, nextSeq, nextOrigin, pending, completed, probes,
                 handle, tx, queue, restored, now, faults, hist>>

\* Over the byte budget: the oldest prunable rows of any age.
PruneForSize(p) ==
  /\ CanWrite(p) /\ maint[p].pc = "size"
  /\ Prunable # {}
  /\ Delete(Oldest(Prunable, PruneChunk))
  /\ UNCHANGED <<version, origin, created, nextSeq, nextOrigin, pending, completed, probes,
                 handle, maint, tx, queue, restored, now, faults, hist>>

\* Within the budget, out of time, or failed.
MaintainEnds(p) ==
  /\ maint[p].pc # "idle"
  /\ maint' = [maint EXCEPT ![p] = IdleMaint]
  /\ UNCHANGED <<dbVars, handle, tx, queue, restored, now, faults, hist>>

-----------------------------------------------------------------------------
(* Rebuild                                                                 *)

\* The tables are emptied; SQLite's write lock is held from here on.
RebuildStart(p) ==
  /\ p # Agent /\ CanWrite(p)
  /\ tx' = Transaction(p, 0, NoTables)
  /\ UNCHANGED <<dbVars, handle, maint, queue, restored, now, faults, hist>>

\* ORDER BY seq: the next control event.
Ahead == {s \in Control : s > tx.pos}

\* Mutant: a completion only takes the trigger off the queue.
ReplayedForgetful(s) ==
  LET row == journal[s]  tables == tx.tables IN
  CASE row.kind = "assignment" ->
         TablesOf(tables.pending, tables.completed, row.probes, NoTables.last)
    [] row.kind = "trigger" ->
         IF tables.pending[row.trig] # 0 THEN tables
         ELSE TablesOf([tables.pending EXCEPT ![row.trig] = s], tables.completed, tables.hash, tables.last)
    [] OTHER ->
         TablesOf([tables.pending EXCEPT ![row.trig] = 0], tables.completed, tables.hash, tables.last)

\* One event on the transaction's own tables.  queueTriggerTx leaves a row that
\* is already there; an assignment starts from probes without any state.
Replayed(s) ==
  LET row == journal[s]  tables == tx.tables IN
  CASE row.kind = "assignment" ->
         TablesOf(tables.pending, tables.completed, row.probes, NoTables.last)
    [] row.kind = "trigger" ->
         IF tables.pending[row.trig] # 0 THEN tables
         ELSE TablesOf([tables.pending EXCEPT ![row.trig] = s], tables.completed, tables.hash, tables.last)
    [] OTHER -> Complete(tables, row.trig, row.at)

RebuildEvent ==
  /\ ~Unlocked
  /\ \E s \in Ahead :
       /\ \A u \in Ahead : s <= u
       /\ tx' = Transaction(tx.who, s, Replayed(s))
  /\ UNCHANGED <<dbVars, handle, maint, queue, restored, now, faults, hist>>

RebuildCommit ==
  /\ ~Unlocked /\ Ahead = {}
  /\ pending' = tx.tables.pending
  /\ completed' = tx.tables.completed
  /\ probes' = [hash |-> tx.tables.hash, last |-> tx.tables.last]
  /\ tx' = IdleTx
  /\ hist' = History({}, {t \in hist.astray : tx.tables.completed[t] # 0},
                     {t \in hist.owed : DonesOf(t) # {}}, hist.authors)
  /\ UNCHANGED <<version, origin, created, journal, nextSeq, nextOrigin, handle, maint, queue, restored, now, faults>>

\* An error rolls the transaction back.
RebuildFails ==
  /\ ~Unlocked
  /\ tx' = IdleTx
  /\ UNCHANGED <<dbVars, handle, maint, queue, restored, now, faults, hist>>

-----------------------------------------------------------------------------
\* Close, or the process dies: its transaction is rolled back.
Exit(p) ==
  /\ handle[p].pc # "closed"
  /\ faults.crashes < MaxCrashes
  /\ faults' = [faults EXCEPT !.crashes = @ + 1]
  /\ handle' = [handle EXCEPT ![p] = Closed]
  /\ maint' = [maint EXCEPT ![p] = IdleMaint]
  /\ tx' = IF tx.who = p THEN IdleTx ELSE tx
  /\ queue' = IF p = Agent THEN {} ELSE queue
  /\ restored' = (restored /\ p # Agent)
  /\ UNCHANGED <<dbVars, now, hist>>

ClockTick ==
  /\ now + Tick <= MaxTime
  /\ now' = now + Tick
  /\ UNCHANGED <<dbVars, handle, maint, tx, queue, restored, faults, hist>>

\* NTP, or a board that boots without a clock.
ClockSetBack ==
  /\ faults.steps < MaxSteps /\ now > Tick
  /\ faults' = [faults EXCEPT !.steps = @ + 1]
  /\ now' = now - Tick
  /\ UNCHANGED <<dbVars, handle, maint, tx, queue, restored, hist>>

Next ==
  \/ \E p \in Processes :
       \/ \E o \in Requested[p] : Open(p, o)
       \/ InitSchema(p) \/ InitMeta(p) \/ InsertMeta(p) \/ Exit(p)
       \/ MaintainStart(p) \/ PruneCompleted(p) \/ CollapseAssignments(p) \/ MaintainEnds(p)
       \/ PruneExpired(p) \/ PruneForSize(p) \/ RebuildStart(p)
  \/ RebuildEvent \/ RebuildCommit \/ RebuildFails
  \/ \E P \in SUBSET Probes : SaveAssignment(P)
  \/ RecordDuplicate
  \/ \E t \in Triggers : RecordTrigger(t) \/ RecordTriggerFails(t) \/ CompleteTriggers(t)
  \/ \E corrupt \in SUBSET Triggers : PendingTriggers(corrupt)
  \/ ClockTick \/ ClockSetBack

Spec == Init /\ [][Next]_vars

-----------------------------------------------------------------------------
(* Properties                                                              *)

RowType == [kind : Kinds, at : 0 .. MaxTime,
            trig : Triggers \union {NoTrigger}, probes : SUBSET Probes]
TableType == [pending : [Triggers -> Nat], completed : [Triggers -> 0 .. MaxTime],
              hash : (SUBSET Probes) \union {NoHash}, last : [Probes -> Triggers \union {NoTrigger}]]
HandleType == [pc : {"closed", "schema", "meta", "insert", "open"},
               origin : Origins \union {NoOrigin}, version : 0 .. 2]

\* The shape of the tables, of each open handle and of a Rebuild in progress.
TypeOK ==
  /\ version \in 0 .. 2 /\ origin \in Origins \union {NoOrigin} /\ created \in BOOLEAN
  /\ journal \in [Seqs -> RowType]
  /\ nextSeq \in 1 .. MaxSeq + 1 /\ nextOrigin \in Nat
  /\ Tables \in TableType
  /\ handle \in [Processes -> HandleType]
  /\ \A p \in Processes : handle[p].pc = "open" => handle[p].origin \in Origins
  /\ \A p \in Processes : maint[p].pc \in {"idle", "retain", "completed", "collapse", "size"}
  /\ tx.who \in Processes \union {NoProcess} /\ tx.pos \in 0 .. MaxSeq /\ tx.tables \in TableType
  /\ queue \subseteq Triggers /\ restored \in BOOLEAN
  /\ now \in Times

\* "maintenance protects pending trigger events by journal rowid"
\* (store.go, migrateV1ToV2): no pruning, Rebuild, migration or crash leaves a
\* queued trigger without its own event in the journal, except one a
\* version-1 binary had lost already.
PendingEventKept ==
  version = schemaVersion => \A t \in Triggers \ hist.lost :
    pending[t] # 0 => pending[t] \in EventsOf(t)

\* What replaying the journal would queue: triggers with no later completion.
Requeued ==
  {t \in Triggers : \E s \in EventsOf(t) :
     \A d \in DonesOf(t) : d < s}

\* "journals the completion so Rebuild can reproduce the queue exactly"
\* (triggers.go, CompleteTriggers): whatever has been pruned, the journal
\* still yields the queue.  Exempt are triggers whose corrupt row was dropped,
\* whose completion carries an earlier time than the trigger (retention then
\* deletes the completion first), whose event version 1 had lost, or whose
\* event the queue row of such a lost one shields.
QueueReproducible ==
  version = schemaVersion => \A t \in Triggers \ (hist.lost \union hist.astray) :
    t \in Requeued <=> pending[t] # 0

\* "Only the newest assignment is needed to rebuild current state"
\* (maintenance.go): the journal's newest assignment is the one in force.
AssignmentReproducible ==
  IF Of("assignment") = {} THEN probes.hash = NoHash
  ELSE probes.hash = journal[Newest(Of("assignment"))].probes

\* "a completed run is remembered so a late redelivery cannot execute it
\* again" (triggers.go, RecordTrigger): across crashes, reassignments and
\* Rebuilds, until the retention period is over.  Exempt is a Rebuild that
\* finds no completion event of the trigger: it has been pruned for size.
CompletedRemembered == \A t \in hist.owed : Seen(t)

\* "a copied database can never silently mix two nodes' histories" (store.go,
\* Options): every row was inserted under the origin the file is bound to,
\* whoever raced to create it.
OneAuthor == hist.authors \subseteq {origin}
=============================================================================
