------------------------- MODULE ControlStore_proof -------------------------
(***************************************************************************)
(* ControlStore for any triggers, probes, origins, processes and bounds:   *)
(* the tables keep their shape, a file has one author, a queued trigger    *)
(* keeps its event, the newest assignment is the one in force, the journal *)
(* yields the queue, and a completed run is remembered.                    *)
(***************************************************************************)
EXTENDS ControlStore, FiniteSetTheorems, WellFoundedInduction, TLAPS

MaintPcs == {"idle", "retain", "completed", "collapse", "size"}
MaintType == [pc : MaintPcs, cutoff : Int]
TxType == [who : Processes \union {NoProcess}, pos : 0 .. MaxSeq, tables : TableType]
ProbesType == [hash : (SUBSET Probes) \union {NoHash}, last : [Probes -> Triggers \union {NoTrigger}]]
HistType == [lost : SUBSET Triggers, astray : SUBSET Triggers, owed : SUBSET Triggers,
             authors : SUBSET Origins]

\* TypeOK, table by table and with the records it looks into.
Shape ==
  /\ version \in 0 .. 2 /\ origin \in Origins \union {NoOrigin} /\ created \in BOOLEAN
  /\ journal \in [Seqs -> RowType]
  /\ \A s \in Of("trigger") \union Of("trigger_done") : journal[s].trig \in Triggers
  /\ nextSeq \in 1 .. MaxSeq + 1 /\ nextOrigin \in Nat
  /\ pending \in [Triggers -> Nat] /\ completed \in [Triggers -> 0 .. MaxTime]
  /\ probes \in ProbesType
  /\ handle \in [Processes -> HandleType]
  /\ maint \in [Processes -> MaintType]
  /\ tx \in TxType
  /\ queue \subseteq Triggers /\ restored \in BOOLEAN
  /\ now \in Times
  /\ hist \in HistType

\* A handle is open on a file of the current schema, under the file's origin.
Opened ==
  /\ \A p \in Processes :
       /\ handle[p].pc \in {"meta", "insert", "open"} => version = schemaVersion
       /\ handle[p].pc = "schema" /\ handle[p].version = 0 => version # 1
       /\ handle[p].pc = "schema" /\ handle[p].version = schemaVersion => version = schemaVersion
       /\ handle[p].pc = "insert" => handle[p].origin # NoOrigin
       /\ handle[p].pc = "open" => handle[p].origin = origin /\ origin # NoOrigin
  /\ ~Unlocked => version = schemaVersion

\* AUTOINCREMENT: rows are below the next number.
SeqOrder == \A s \in Seqs : s >= nextSeq => journal[s] = NoRow

\* What version 1 left: a queued trigger has an event somewhere.
Unmigrated ==
  /\ version # schemaVersion =>
       \A t \in Triggers \ hist.lost : pending[t] # 0 => EventsOf(t) # {}
  /\ version = 0 => \A t \in Triggers : pending[t] = 0

\* Hash is that of the newest assignment among the rows of S.
HashOf(S, hash) == IF S = {} THEN hash = NoHash ELSE hash = journal[Newest(S)].probes

\* A Rebuild has replayed the journal up to its position.
Replaying ==
  ~Unlocked =>
    /\ \A t \in Triggers : tx.tables.pending[t] # 0 => tx.tables.pending[t] \in EventsOf(t)
    /\ HashOf({s \in Of("assignment") : s <= tx.pos}, tx.tables.hash)

IInv ==
  /\ Shape /\ Opened /\ SeqOrder /\ Unmigrated /\ Replaying
  /\ OneAuthor /\ PendingEventKept /\ AssignmentReproducible

-----------------------------------------------------------------------------
(* Facts about the operators                                               *)

\* A non-empty set of rowids has a newest one.
LEMMA NewestIs ==
  ASSUME NEW S, S \subseteq Seqs, S # {}
  PROVE  Newest(S) \in S /\ \A s \in S : s <= Newest(S)
  <1>. DEFINE T == {MaxSeq - s : s \in S}
  <1>1. S \subseteq Nat /\ MaxSeq \in Nat /\ \A s \in S : s <= MaxSeq
    BY ControlAssumption DEF Seqs
  <1>2. T \subseteq Nat /\ T # {}
    BY <1>1
  <1>. HIDE DEF T
  <1>3. PICK x \in T : \A y \in T : ~ (<<y, x>> \in OpToRel(<, Nat))
    BY <1>2, NatLessThanWellFounded, WFMin, Zenon
  <1>4. \A y \in T : ~ (y < x)
    BY <1>2, <1>3 DEF OpToRel
  <1>5. PICK m \in S : x = MaxSeq - m
    BY <1>3 DEF T
  <1>6. \A s \in S : s <= m
    <2>1. SUFFICES ASSUME NEW s \in S PROVE s <= m
      OBVIOUS
    <2>2. MaxSeq - s \in T
      BY DEF T
    <2>3. ~(MaxSeq - s < x) /\ s \in Nat /\ m \in Nat
      BY <1>1, <1>4, <2>2
    <2>. QED
      BY <2>3, <1>1, <1>5
  <1>. QED
    BY <1>6 DEF Newest

\* The newest of a set is the only element above all others.
LEMMA NewestUnique ==
  ASSUME NEW S, S \subseteq Seqs, NEW m \in S, \A s \in S : s <= m
  PROVE  Newest(S) = m
  <1>1. PICK n \in S : n = Newest(S)
    BY NewestIs
  <1>2. \A s \in S : s <= n
    BY <1>1, NewestIs
  <1>3. S \subseteq Int
    BY ControlAssumption DEF Seqs
  <1>4. n = m
    BY <1>2, <1>3
  <1>. QED
    BY <1>1, <1>4

\* An empty row is one, and it is of no kind.
LEMMA NoRowType == NoRow \in RowType /\ NoRow.kind = "none"
  <1>1. 0 \in 0 .. MaxTime
    BY ControlAssumption
  <1>. QED
    BY <1>1 DEF NoRow, Row, RowType, Kinds

\* The rows the agent inserts.
LEMMA NewRowType ==
  ASSUME NEW k \in Kinds, NEW t \in Triggers \union {NoTrigger}, NEW P \in SUBSET Probes, NEW at \in Times
  PROVE  Row(k, at, t, P) \in RowType
  BY ControlAssumption DEF Row, RowType, Times

\* The tables a Rebuild starts from.
LEMMA NoTablesType == NoTables \in TableType /\ IdleTx \in TxType /\ IdleTx.who = NoProcess
  <1>1. 0 \in 0 .. MaxTime /\ 0 \in 0 .. MaxSeq
    BY ControlAssumption
  <1>2. NoTables \in TableType
    <2>1. /\ [t \in Triggers |-> 0] \in [Triggers -> Nat]
          /\ [t \in Triggers |-> 0] \in [Triggers -> 0 .. MaxTime]
          /\ [p \in Probes |-> NoTrigger] \in [Probes -> Triggers \union {NoTrigger}]
      BY <1>1
    <2>. QED
      BY <2>1 DEF NoTables, TablesOf, TableType
  <1>. QED
    BY <1>1, <1>2 DEF IdleTx, Transaction, TxType

\* Completing a trigger changes tables into tables.
LEMMA CompleteIs ==
  ASSUME NEW T \in TableType, NEW t \in Triggers, NEW at \in 0 .. MaxTime
  PROVE  /\ Complete(T, t, at) \in TableType
         /\ Complete(T, t, at).pending = [T.pending EXCEPT ![t] = 0]
         /\ Complete(T, t, at).completed = [T.completed EXCEPT ![t] = at]
         /\ Complete(T, t, at).hash = T.hash
  <1>. DEFINE L == IF ProbeOf[t] \in Assigned(T) THEN [T.last EXCEPT ![ProbeOf[t]] = t] ELSE T.last
  <1>1. L \in [Probes -> Triggers \union {NoTrigger}]
    BY ControlAssumption DEF TableType
  <1>2. Complete(T, t, at) = [pending |-> [T.pending EXCEPT ![t] = 0],
                              completed |-> [T.completed EXCEPT ![t] = at],
                              hash |-> T.hash, last |-> L]
    BY DEF Complete, TablesOf
  <1>3. [T.pending EXCEPT ![t] = 0] \in [Triggers -> Nat]
    BY DEF TableType
  <1>4. [T.completed EXCEPT ![t] = at] \in [Triggers -> 0 .. MaxTime]
    BY DEF TableType
  <1>. HIDE DEF L
  <1>. QED
    BY <1>1, <1>2, <1>3, <1>4 DEF TableType

\* Shape is TypeOK and more.
LEMMA ShapeType ==
  ASSUME Shape, Opened
  PROVE  TypeOK /\ Tables \in TableType
  <1>1. Tables \in TableType
    BY DEF Shape, Tables, TablesOf, TableType, ProbesType
  <1>2. \A p \in Processes : handle[p].pc = "open" => handle[p].origin \in Origins
    BY DEF Shape, Opened
  <1>. QED
    BY <1>1, <1>2 DEF TypeOK, Shape, TxType, MaintType, MaintPcs

\* A history of the right sets.
LEMMA HistoryType ==
  ASSUME NEW L \in SUBSET Triggers, NEW A \in SUBSET Triggers, NEW O \in SUBSET Triggers,
         NEW W \in SUBSET Origins
  PROVE  /\ History(L, A, O, W) \in HistType
         /\ History(L, A, O, W).lost = L /\ History(L, A, O, W).authors = W
  BY DEF History, HistType

-----------------------------------------------------------------------------
(* Shape                                                                   *)

\* One more row, and the numbers behind it.
LEMMA InsertShape ==
  ASSUME Shape, NEW k \in Kinds, NEW t \in Triggers \union {NoTrigger}, NEW P \in SUBSET Probes,
         k \in {"trigger", "trigger_done"} => t \in Triggers, Insert(Row(k, now, t, P))
  PROVE  /\ journal' \in [Seqs -> RowType] /\ nextSeq' \in 1 .. MaxSeq + 1 /\ nextOrigin' \in Nat
         /\ (\A s \in Of("trigger") \union Of("trigger_done") : journal[s].trig \in Triggers)'
         /\ nextSeq \in Seqs
         /\ \A s \in Seqs : s # nextSeq => journal'[s] = journal[s]
         /\ journal'[nextSeq] = [kind |-> k, at |-> now, trig |-> t, probes |-> P]
  <1>1. nextSeq \in Seqs /\ nextSeq' \in 1 .. MaxSeq + 1
    BY ControlAssumption DEF Shape, Insert, Seqs
  <1>. DEFINE new == Row(k, now, t, P)
  <1>3. new \in RowType
    BY NewRowType DEF Shape
  <1>4. journal' = [journal EXCEPT ![nextSeq] = new]
    BY DEF Insert
  <1>5. new.kind = k /\ new.trig = t
    BY DEF Row
  <1>6. nextOrigin' \in Nat
    BY DEF Shape, Insert
  <1>7. new = [kind |-> k, at |-> now, trig |-> t, probes |-> P]
    BY DEF Row
  <1>. HIDE DEF new
  <1>8. /\ journal' \in [Seqs -> RowType] /\ journal'[nextSeq] = new
        /\ \A s \in Seqs : s # nextSeq => journal'[s] = journal[s]
    BY <1>1, <1>3, <1>4 DEF Shape
  <1>9. ASSUME NEW s \in Seqs, journal'[s].kind \in {"trigger", "trigger_done"}
        PROVE  journal'[s].trig \in Triggers
    <2>1. CASE s = nextSeq
      BY <1>5, <1>8, <1>9, <2>1
    <2>2. CASE s # nextSeq
      BY <1>8, <1>9, <2>2 DEF Shape, Of
    <2>. QED
      BY <2>1, <2>2
  <1>. QED
    BY <1>1, <1>6, <1>7, <1>8, <1>9 DEF Of

\* Fewer rows.
LEMMA DeleteShape ==
  ASSUME Shape, NEW rows, Delete(rows)
  PROVE  /\ journal' \in [Seqs -> RowType]
         /\ (\A s \in Of("trigger") \union Of("trigger_done") : journal[s].trig \in Triggers)'
         /\ \A s \in Seqs : journal'[s] = IF s \in rows THEN NoRow ELSE journal[s]
  <1>1. \A s \in Seqs : journal'[s] = IF s \in rows THEN NoRow ELSE journal[s]
    BY DEF Delete
  <1>2. journal' \in [Seqs -> RowType]
    BY NoRowType DEF Shape, Delete
  <1>3. ASSUME NEW s \in Seqs, journal'[s].kind \in {"trigger", "trigger_done"}
        PROVE  journal'[s].trig \in Triggers
    BY <1>1, <1>3, NoRowType DEF Shape, Of
  <1>. QED
    BY <1>1, <1>2, <1>3 DEF Of

\* Opening a file and closing it leave its tables in shape.
LEMMA HandleShape ==
  ASSUME Shape, NEW p \in Processes,
         \/ \E o \in Requested[p] : Open(p, o)
         \/ InitSchema(p) \/ InitMeta(p) \/ InsertMeta(p) \/ Exit(p)
  PROVE  Shape'
  <1>. USE DEF Shape, Of
  <1>1. ASSUME NEW h \in HandleType, handle' = [handle EXCEPT ![p] = h]
        PROVE  handle' \in [Processes -> HandleType]
    BY <1>1
  <1>2. ASSUME NEW pc \in {"closed", "schema", "meta", "insert", "open"},
               NEW o \in Origins \union {NoOrigin}, NEW v \in 0 .. 2
        PROVE  Handle(pc, o, v) \in HandleType
    BY DEF Handle, HandleType
  <1>3. Closed \in HandleType
    BY <1>2 DEF Closed
  <1>4. handle[p].origin \in Origins \union {NoOrigin}
    BY DEF HandleType
  <1>5. ASSUME NEW o \in Requested[p], Open(p, o) PROVE Shape'
    <2>1. o \in Origins \union {NoOrigin}
      BY ControlAssumption
    <2>2. Handle("schema", o, version) \in HandleType
      BY <1>2, <2>1
    <2>. QED
      BY <1>1, <1>5, <2>2 DEF Open
  <1>6. CASE InitSchema(p)
    <2>1. Handle("meta", handle[p].origin, 0) \in HandleType
      BY <1>2, <1>4
    <2>2. handle' \in [Processes -> HandleType]
      BY <1>1, <1>6, <2>1 DEF InitSchema
    <2>3. pending' \in [Triggers -> Nat]
      <3>1. CASE MigrateV1ToV2
        <4>1. ASSUME NEW t \in Triggers, EventsOf(t) # {} PROVE Newest(EventsOf(t)) \in Nat
          <5>1. EventsOf(t) \subseteq Seqs /\ Seqs \subseteq Nat
            BY ControlAssumption DEF EventsOf, Of, Seqs
          <5>. QED
            BY <4>1, <5>1, NewestIs
        <4>. QED
          BY <3>1, <4>1 DEF MigrateV1ToV2
      <3>. QED
        BY <3>1, <1>6 DEF InitSchema
    <2>4. version' \in 0 .. 2
      BY <1>6 DEF InitSchema, schemaVersion
    <2>. QED
      BY <1>6, <2>2, <2>3, <2>4 DEF InitSchema
  <1>7. CASE InitMeta(p)
    <2>1. Handle("insert", handle[p].origin, 0) \in HandleType /\ Handle("open", origin, 0) \in HandleType
      BY <1>2, <1>4
    <2>2. handle' \in [Processes -> HandleType]
      BY <1>3, <1>7, <2>1 DEF InitMeta
    <2>. QED
      BY <1>7, <2>2 DEF InitMeta, dbVars
  <1>8. CASE InsertMeta(p)
    <2>1. Handle("open", handle[p].origin, 0) \in HandleType
      BY <1>2, <1>4
    <2>2. origin' \in Origins \union {NoOrigin} /\ handle' \in [Processes -> HandleType]
      BY <1>3, <1>4, <1>8, <2>1 DEF InsertMeta, BindOrigin
    <2>. QED
      BY <1>8, <2>2 DEF InsertMeta
  <1>9. CASE Exit(p)
    <2>1. IdleMaint \in MaintType
      BY DEF IdleMaint, MaintainAt, MaintType, MaintPcs
    <2>. QED
      BY <1>1, <1>3, <1>9, <2>1, NoTablesType DEF Exit, dbVars
  <1>. QED
    BY <1>5, <1>6, <1>7, <1>8, <1>9

\* So do the agent's writes.
LEMMA AgentShape ==
  ASSUME Shape, Opened,
         \/ \E P \in SUBSET Probes : SaveAssignment(P)
         \/ RecordDuplicate
         \/ \E t \in Triggers : RecordTrigger(t) \/ RecordTriggerFails(t) \/ CompleteTriggers(t)
         \/ \E corrupt \in SUBSET Triggers : PendingTriggers(corrupt)
  PROVE  Shape'
  <1>1. Agent \in Processes
    BY ControlAssumption
  <1>2. CanWrite(Agent) => handle[Agent].origin \in Origins
    BY <1>1 DEF Shape, Opened, CanWrite
  <1>3. /\ hist.lost \subseteq Triggers /\ hist.astray \subseteq Triggers
        /\ hist.owed \subseteq Triggers /\ hist.authors \subseteq Origins
    BY DEF Shape, HistType
  <1>4. CanWrite(Agent) => Signed \in SUBSET Origins
    BY <1>2, <1>3 DEF Signed
  <1>5. ASSUME NEW P \in SUBSET Probes, SaveAssignment(P) PROVE Shape'
    <2>1. "assignment" \in Kinds /\ "assignment" \notin {"trigger", "trigger_done"}
      BY DEF Kinds
    <2>2. /\ journal' \in [Seqs -> RowType] /\ nextSeq' \in 1 .. MaxSeq + 1 /\ nextOrigin' \in Nat
          /\ (\A s \in Of("trigger") \union Of("trigger_done") : journal[s].trig \in Triggers)'
      BY <1>5, <2>1, InsertShape DEF SaveAssignment
    <2>3. probes' \in ProbesType
      BY <1>5 DEF SaveAssignment, ProbesType, Shape
    <2>4. hist' \in HistType
      BY <1>3, <1>4, <1>5, HistoryType DEF SaveAssignment
    <2>. QED
      BY <1>5, <2>2, <2>3, <2>4 DEF SaveAssignment, Shape
  <1>6. CASE RecordDuplicate
    BY <1>6 DEF RecordDuplicate, Shape, Of
  <1>7. ASSUME NEW t \in Triggers, RecordTrigger(t) PROVE Shape'
    <2>1. "trigger" \in Kinds /\ {} \in SUBSET Probes
      BY DEF Kinds
    <2>2. /\ journal' \in [Seqs -> RowType] /\ nextSeq' \in 1 .. MaxSeq + 1 /\ nextOrigin' \in Nat
          /\ (\A s \in Of("trigger") \union Of("trigger_done") : journal[s].trig \in Triggers)'
      BY <1>7, <2>1, InsertShape DEF RecordTrigger
    <2>3. pending' \in [Triggers -> Nat] /\ queue' \subseteq Triggers
      <3>1. nextSeq \in Nat
        BY DEF Shape
      <3>. QED
        BY <1>7, <3>1 DEF RecordTrigger, Shape, EventSeq
    <2>4. hist' \in HistType
      <3>1. hist.astray \ {t} \in SUBSET Triggers /\ hist.owed \ {t} \in SUBSET Triggers
        BY <1>3
      <3>2. CanWrite(Agent) /\ hist' = History(hist.lost, hist.astray \ {t}, hist.owed \ {t}, Signed)
        BY <1>7 DEF RecordTrigger
      <3>. QED
        BY <1>3, <1>4, <3>1, <3>2, HistoryType
    <2>. QED
      BY <1>7, <2>2, <2>3, <2>4 DEF RecordTrigger, Shape
  <1>8. ASSUME NEW t \in Triggers, RecordTriggerFails(t) PROVE Shape'
    BY <1>8 DEF RecordTriggerFails, Shape, dbVars, Of
  <1>9. ASSUME NEW t \in Triggers, CompleteTriggers(t) PROVE Shape'
    <2>1. "trigger_done" \in Kinds /\ {} \in SUBSET Probes
      BY DEF Kinds
    <2>2. /\ journal' \in [Seqs -> RowType] /\ nextSeq' \in 1 .. MaxSeq + 1 /\ nextOrigin' \in Nat
          /\ (\A s \in Of("trigger") \union Of("trigger_done") : journal[s].trig \in Triggers)'
      BY <1>9, <2>1, InsertShape DEF CompleteTriggers
    <2>3. Completion(t) \in TableType
      <3>1. now \in 0 .. MaxTime
        BY DEF Shape, Times
      <3>. QED
        BY <3>1, ShapeType, CompleteIs DEF Completion
    <2>4. /\ pending' \in [Triggers -> Nat] /\ completed' \in [Triggers -> 0 .. MaxTime]
          /\ probes' \in ProbesType /\ queue' \subseteq Triggers
      BY <1>9, <2>3 DEF CompleteTriggers, TableType, ProbesType, Shape
    <2>5. hist' \in HistType
      <3>. DEFINE A == IF Shielded(EventsOf(t)) \/ \E s \in EventsOf(t) : journal[s].at > now
                         THEN hist.astray \union {t} ELSE hist.astray \ {t}
                  O == IF Shielded(DonesOf(t)) \/ \E p \in Processes : maint[p].cutoff > now
                         THEN hist.owed \ {t} ELSE hist.owed \union {t}
      <3>1. hist' = History(hist.lost \ {t}, A, O, Signed) /\ CanWrite(Agent)
        BY <1>9 DEF CompleteTriggers
      <3>2. A \in SUBSET Triggers /\ O \in SUBSET Triggers /\ hist.lost \ {t} \in SUBSET Triggers
        BY <1>3
      <3>. HIDE DEF A, O
      <3>. QED
        BY <1>4, <3>1, <3>2, HistoryType
    <2>. QED
      BY <1>9, <2>2, <2>4, <2>5 DEF CompleteTriggers, Shape
  <1>10. ASSUME NEW corrupt \in SUBSET Triggers, PendingTriggers(corrupt) PROVE Shape'
    <2>1. hist' \in HistType
      <3>1. hist.lost \ corrupt \in SUBSET Triggers /\ hist.astray \union corrupt \in SUBSET Triggers
        BY <1>3
      <3>2. hist' = History(hist.lost \ corrupt, hist.astray \union corrupt, hist.owed, hist.authors)
        BY <1>10 DEF PendingTriggers
      <3>. QED
        BY <1>3, <3>1, <3>2, HistoryType
    <2>2. pending' \in [Triggers -> Nat] /\ queue' \subseteq Triggers /\ restored' \in BOOLEAN
      BY <1>10 DEF PendingTriggers, Shape
    <2>. QED
      BY <1>10, <2>1, <2>2 DEF PendingTriggers, Shape, Of
  <1>. QED
    BY <1>5, <1>6, <1>7, <1>8, <1>9, <1>10

\* Replaying one control event turns tables into tables.
LEMMA ReplayedIs ==
  ASSUME Shape, NEW s \in Control
  PROVE  /\ Replayed(s) \in TableType
         /\ \A t \in Triggers : Replayed(s).pending[t] # 0 =>
              \/ Replayed(s).pending[t] = tx.tables.pending[t]
              \/ Replayed(s).pending[t] = s /\ s \in EventsOf(t)
         /\ Replayed(s).hash = IF journal[s].kind = "assignment" THEN journal[s].probes
                               ELSE tx.tables.hash
  <1>. DEFINE row == journal[s]
              T == tx.tables
  <1>1. s \in Seqs /\ row \in RowType /\ T \in TableType
    BY DEF Shape, Control, Of, TxType
  <1>2. row.kind \in {"assignment", "trigger", "trigger_done"}
    BY DEF Control, Of
  <1>3. row.kind # "assignment" => row.trig \in Triggers
    BY <1>1, <1>2 DEF Shape, Of
  <1>4. row.at \in 0 .. MaxTime /\ row.probes \in SUBSET Probes
    BY <1>1 DEF RowType
  <1>5. s \in Nat
    BY <1>1, ControlAssumption DEF Seqs
  <1>6. T.pending \in [Triggers -> Nat]
    BY <1>1 DEF TableType
  <1>7. CASE row.kind = "assignment"
    <2>1. Replayed(s) = TablesOf(T.pending, T.completed, row.probes, NoTables.last)
      BY <1>7 DEF Replayed
    <2>2. NoTables.last \in [Probes -> Triggers \union {NoTrigger}]
      BY NoTablesType DEF TableType
    <2>. QED
      BY <1>1, <1>4, <1>7, <2>1, <2>2 DEF TablesOf, TableType
  <1>8. CASE row.kind = "trigger"
    <2>1. s \in EventsOf(row.trig)
      BY <1>1, <1>8 DEF EventsOf, Of
    <2>2. CASE T.pending[row.trig] # 0
      <3>1. Replayed(s) = T
        BY <1>8, <2>2 DEF Replayed
      <3>. QED
        BY <1>1, <1>8, <3>1
    <2>3. CASE T.pending[row.trig] = 0
      <3>. DEFINE Q == [T.pending EXCEPT ![row.trig] = s]
      <3>1. Replayed(s) = TablesOf(Q, T.completed, T.hash, T.last)
        BY <1>8, <2>3 DEF Replayed
      <3>2. Q \in [Triggers -> Nat]
        BY <1>5, <1>6
      <3>3. \A t \in Triggers : Q[t] = IF t = row.trig THEN s ELSE T.pending[t]
        BY <1>6
      <3>. HIDE DEF Q
      <3>4. Replayed(s) \in TableType /\ Replayed(s).pending = Q /\ Replayed(s).hash = T.hash
        BY <1>1, <3>1, <3>2 DEF TablesOf, TableType
      <3>. QED
        BY <1>8, <2>1, <3>3, <3>4
    <2>. QED
      BY <2>2, <2>3
  <1>9. CASE row.kind = "trigger_done"
    <2>1. Replayed(s) = Complete(T, row.trig, row.at)
      BY <1>9 DEF Replayed
    <2>2. /\ Replayed(s) \in TableType /\ Replayed(s).hash = T.hash
          /\ Replayed(s).pending = [T.pending EXCEPT ![row.trig] = 0]
      <3>1. row.trig \in Triggers /\ row.at \in 0 .. MaxTime /\ T \in TableType
        BY <1>1, <1>3, <1>4, <1>9
      <3>. HIDE DEF row, T
      <3>2. /\ Complete(T, row.trig, row.at) \in TableType
            /\ Complete(T, row.trig, row.at).hash = T.hash
            /\ Complete(T, row.trig, row.at).pending = [T.pending EXCEPT ![row.trig] = 0]
        BY <3>1, CompleteIs, Zenon
      <3>. QED
        BY <2>1, <3>2, Zenon
    <2>. QED
      BY <1>3, <1>6, <1>9, <2>2
  <1>. QED
    BY <1>2, <1>7, <1>8, <1>9

\* Maintain, Rebuild and the clock keep the shape too.
LEMMA MaintShape ==
  ASSUME Shape, NEW p \in Processes,
         \/ MaintainStart(p) \/ PruneCompleted(p) \/ CollapseAssignments(p) \/ MaintainEnds(p)
         \/ PruneExpired(p) \/ PruneForSize(p) \/ RebuildStart(p)
  PROVE  Shape'
  <1>1. /\ hist.lost \subseteq Triggers /\ hist.astray \subseteq Triggers
        /\ hist.owed \subseteq Triggers /\ hist.authors \subseteq Origins
    BY DEF Shape, HistType
  <1>2. ASSUME NEW pc \in MaintPcs, NEW c \in Int, maint' = [maint EXCEPT ![p] = MaintainAt(pc, c)]
        PROVE  maint' \in [Processes -> MaintType]
    <2>1. MaintainAt(pc, c) \in MaintType
      BY DEF MaintainAt, MaintType
    <2>. QED
      BY <1>2, <2>1 DEF Shape
  <1>3. maint[p].cutoff \in Int
    BY DEF Shape, MaintType
  <1>4. ASSUME NEW pc \in MaintPcs, Goto(p, pc)
        PROVE  maint' \in [Processes -> MaintType]
    BY <1>2, <1>3, <1>4 DEF Goto
  <1>5. \A pc \in {"idle", "retain", "completed", "collapse", "size"} : pc \in MaintPcs
    BY DEF MaintPcs
  <1>6. CASE MaintainStart(p)
    <2>1. now - Retention \in Int
      BY ControlAssumption DEF Shape, Times
    <2>2. maint' \in [Processes -> MaintType]
      BY <1>2, <1>5, <1>6, <2>1 DEF MaintainStart
    <2>3. {t \in hist.owed : completed[t] >= now - Retention} \in SUBSET Triggers
      BY <1>1
    <2>4. hist' \in HistType
      BY <1>1, <1>6, <2>3, HistoryType DEF MaintainStart
    <2>. QED
      BY <1>6, <2>2, <2>4 DEF MaintainStart, Shape, dbVars, Of
  <1>7. CASE PruneCompleted(p)
    <2>1. maint' \in [Processes -> MaintType]
      <3>1. maint' = [maint EXCEPT ![p] = MaintainAt("collapse", 0)]
        BY <1>7 DEF PruneCompleted
      <3>2. "collapse" \in MaintPcs /\ 0 \in Int
        BY <1>5
      <3>. QED
        BY <1>2, <3>1, <3>2
    <2>2. 0 \in 0 .. MaxTime
      BY ControlAssumption
    <2>3. completed' \in [Triggers -> 0 .. MaxTime]
      BY <1>7, <2>2 DEF PruneCompleted, Shape
    <2>. QED
      BY <1>7, <2>1, <2>3 DEF PruneCompleted, Shape, Of
  <1>8. CASE CollapseAssignments(p)
    <2>1. maint' \in [Processes -> MaintType]
      BY <1>4, <1>5, <1>8 DEF CollapseAssignments
    <2>2. /\ journal' \in [Seqs -> RowType]
          /\ (\A s \in Of("trigger") \union Of("trigger_done") : journal[s].trig \in Triggers)'
      BY <1>8, DeleteShape DEF CollapseAssignments
    <2>. QED
      BY <1>8, <2>1, <2>2 DEF CollapseAssignments, Shape
  <1>9. CASE MaintainEnds(p)
    <2>1. maint' \in [Processes -> MaintType]
      <3>1. maint' = [maint EXCEPT ![p] = MaintainAt("idle", 0)]
        BY <1>9 DEF MaintainEnds, IdleMaint
      <3>2. "idle" \in MaintPcs /\ 0 \in Int
        BY <1>5
      <3>. QED
        BY <1>2, <3>1, <3>2
    <2>. QED
      BY <1>9, <2>1 DEF MaintainEnds, Shape, dbVars, Of
  <1>10. CASE PruneExpired(p)
    <2>1. maint' \in [Processes -> MaintType]
      BY <1>4, <1>5, <1>10 DEF PruneExpired
    <2>2. /\ journal' \in [Seqs -> RowType]
          /\ (\A s \in Of("trigger") \union Of("trigger_done") : journal[s].trig \in Triggers)'
      BY <1>10, DeleteShape DEF PruneExpired
    <2>. QED
      BY <1>10, <2>1, <2>2 DEF PruneExpired, Shape
  <1>11. CASE PruneForSize(p)
    <2>1. /\ journal' \in [Seqs -> RowType]
          /\ (\A s \in Of("trigger") \union Of("trigger_done") : journal[s].trig \in Triggers)'
      BY <1>11, DeleteShape DEF PruneForSize
    <2>. QED
      BY <1>11, <2>1 DEF PruneForSize, Shape
  <1>12. CASE RebuildStart(p)
    <2>1. tx' \in TxType
      <3>1. 0 \in 0 .. MaxSeq
        BY ControlAssumption
      <3>. QED
        BY <1>12, <3>1, NoTablesType DEF RebuildStart, Transaction, TxType
    <2>. QED
      BY <1>12, <2>1 DEF RebuildStart, Shape, dbVars, Of
  <1>. QED
    BY <1>6, <1>7, <1>8, <1>9, <1>10, <1>11, <1>12

LEMMA RebuildShape ==
  ASSUME Shape, RebuildEvent \/ RebuildCommit \/ RebuildFails \/ ClockTick \/ ClockSetBack
  PROVE  Shape'
  <1>1. CASE RebuildEvent
    <2>1. PICK s \in Ahead : tx' = Transaction(tx.who, s, Replayed(s))
      BY <1>1 DEF RebuildEvent
    <2>2. s \in Control /\ s \in 0 .. MaxSeq
      BY ControlAssumption DEF Ahead, Control, Of, Seqs
    <2>3. Replayed(s) \in TableType
      BY <2>2, ReplayedIs
    <2>4. tx.who \in Processes \union {NoProcess}
      BY DEF Shape, TxType
    <2>5. tx' \in TxType
      BY <2>1, <2>2, <2>3, <2>4 DEF Transaction, TxType
    <2>. QED
      BY <1>1, <2>5 DEF RebuildEvent, Shape, dbVars, Of
  <1>2. CASE RebuildCommit
    <2>1. tx.tables \in TableType
      BY DEF Shape, TxType
    <2>2. /\ pending' \in [Triggers -> Nat] /\ completed' \in [Triggers -> 0 .. MaxTime]
          /\ probes' \in ProbesType
      BY <1>2, <2>1 DEF RebuildCommit, TableType, ProbesType
    <2>3. hist' \in HistType
      <3>. DEFINE A == {t \in hist.astray : tx.tables.completed[t] # 0}
                  O == {t \in hist.owed : DonesOf(t) # {}}
      <3>1. A \in SUBSET Triggers /\ O \in SUBSET Triggers /\ {} \in SUBSET Triggers
            /\ hist.authors \in SUBSET Origins
        BY DEF Shape, HistType
      <3>2. hist' = History({}, A, O, hist.authors)
        BY <1>2 DEF RebuildCommit
      <3>. HIDE DEF A, O
      <3>. QED
        BY <3>1, <3>2, HistoryType
    <2>. QED
      BY <1>2, <2>2, <2>3, NoTablesType DEF RebuildCommit, Shape, Of
  <1>3. CASE RebuildFails
    BY <1>3, NoTablesType DEF RebuildFails, Shape, dbVars, Of
  <1>4. CASE ClockTick
    <2>1. now' \in Times
      BY <1>4, ControlAssumption DEF ClockTick, Shape, Times
    <2>. QED
      BY <1>4, <2>1 DEF ClockTick, Shape, dbVars, Of
  <1>5. CASE ClockSetBack
    <2>1. now' \in Times
      BY <1>5, ControlAssumption DEF ClockSetBack, Shape, Times
    <2>. QED
      BY <1>5, <2>1 DEF ClockSetBack, Shape, dbVars, Of
  <1>. QED
    BY <1>1, <1>2, <1>3, <1>4, <1>5

-----------------------------------------------------------------------------
(* What kinds of steps do to the rest of the invariant                     *)

\* Steps that touch neither the journal nor what is projected from it.
LEMMA FileUntouched ==
  ASSUME IInv, UNCHANGED <<version, origin, journal, nextSeq, pending, probes>>,
         hist'.lost = hist.lost, hist'.authors = hist.authors
  PROVE  SeqOrder' /\ Unmigrated' /\ OneAuthor' /\ PendingEventKept' /\ AssignmentReproducible'
  <1>1. SeqOrder /\ Unmigrated /\ OneAuthor /\ PendingEventKept /\ AssignmentReproducible
    BY DEF IInv
  <1>2. SeqOrder' /\ OneAuthor'
    BY <1>1 DEF SeqOrder, OneAuthor
  <1>3. \A t \in Triggers : EventsOf(t)' = EventsOf(t)
    BY DEF EventsOf, Of
  <1>4. Unmigrated' /\ PendingEventKept'
    BY <1>1, <1>3 DEF Unmigrated, PendingEventKept
  <1>5. AssignmentReproducible'
    BY <1>1 DEF AssignmentReproducible, Of
  <1>. QED
    BY <1>2, <1>4, <1>5

\* A Rebuild is not disturbed while it holds the lock.
LEMMA ReplayUntouched ==
  ASSUME Replaying, (journal' = journal /\ tx' = tx) \/ tx'.who = NoProcess
  PROVE  Replaying'
  <1>1. CASE tx'.who = NoProcess
    BY <1>1 DEF Replaying, Unlocked
  <1>2. CASE journal' = journal /\ tx' = tx
    BY <1>2 DEF Replaying, Unlocked, HashOf, EventsOf, Of
  <1>. QED
    BY <1>1, <1>2

\* Handles stay open on the same file.
LEMMA HandlesUntouched ==
  ASSUME Opened, UNCHANGED <<version, origin, handle>>, tx'.who = tx.who \/ tx'.who = NoProcess
  PROVE  Opened'
  BY DEF Opened, Unlocked

\* A writer has the current schema, and no Rebuild is in progress.
LEMMA WriterIsCurrent ==
  ASSUME IInv, NEW p \in Processes, handle[p].pc = "open"
  PROVE  version = schemaVersion /\ handle[p].origin = origin /\ origin \in Origins
  BY DEF IInv, Shape, Opened

\* A new row hides nothing: its number was free.
LEMMA InsertKeeps ==
  ASSUME IInv, NEW k \in Kinds, NEW t \in Triggers \union {NoTrigger}, NEW P \in SUBSET Probes,
         k \in {"trigger", "trigger_done"} => t \in Triggers,
         CanWrite(Agent), Insert(Row(k, now, t, P)), UNCHANGED <<version, origin, handle, tx>>
  PROVE  /\ Opened' /\ SeqOrder' /\ Replaying' /\ version = schemaVersion
         /\ Signed \subseteq {origin}
         /\ \A u \in Triggers : EventsOf(u) \subseteq EventsOf(u)'
         /\ k = "trigger" => nextSeq \in EventsOf(t)'
         /\ k = "assignment" => /\ Of("assignment")' # {} 
                                /\ journal'[Newest(Of("assignment")')].probes = P
         /\ k # "assignment" => /\ Of("assignment")' = Of("assignment")
                                /\ \A s \in Of("assignment") : journal'[s] = journal[s]
  <1>1. /\ Shape /\ Opened /\ SeqOrder /\ Replaying /\ OneAuthor /\ Agent \in Processes
        /\ handle[Agent].pc = "open" /\ tx.who = NoProcess
    BY ControlAssumption DEF IInv, CanWrite, Unlocked
  <1>2. /\ journal' \in [Seqs -> RowType] /\ nextSeq \in Seqs
        /\ \A s \in Seqs : s # nextSeq => journal'[s] = journal[s]
        /\ journal'[nextSeq] = [kind |-> k, at |-> now, trig |-> t, probes |-> P]
    BY <1>1, InsertShape
  <1>3. /\ journal'[nextSeq].kind = k /\ journal'[nextSeq].trig = t /\ journal'[nextSeq].probes = P
    BY <1>2
  <1>4. Seqs \subseteq Int /\ nextSeq \in Int /\ nextSeq' = nextSeq + 1
    BY ControlAssumption, <1>2 DEF Seqs, Insert
  <1>5. journal[nextSeq].kind = "none"
    BY <1>1, <1>2, <1>4, NoRowType DEF SeqOrder
  <1>6. \A s \in Seqs : journal[s].kind # "none" => journal'[s] = journal[s]
    BY <1>2, <1>5
  <1>7. Opened'
    BY <1>1, HandlesUntouched
  <1>8. SeqOrder'
    <2>1. SUFFICES ASSUME NEW s \in Seqs, s >= nextSeq' PROVE journal'[s] = NoRow
      BY DEF SeqOrder
    <2>2. s # nextSeq /\ s >= nextSeq
      BY <1>4, <2>1
    <2>. QED
      BY <1>1, <1>2, <2>2 DEF SeqOrder
  <1>9. Replaying'
    BY <1>1, ReplayUntouched
  <1>10. version = schemaVersion /\ Signed \subseteq {origin}
    BY <1>1, WriterIsCurrent DEF Signed, OneAuthor
  <1>11. \A u \in Triggers : EventsOf(u) \subseteq EventsOf(u)'
    BY <1>6 DEF EventsOf, Of
  <1>12. k = "trigger" => nextSeq \in EventsOf(t)'
    BY <1>2, <1>3 DEF EventsOf, Of
  <1>13. ASSUME k = "assignment"
         PROVE  Of("assignment")' # {} /\ journal'[Newest(Of("assignment")')].probes = P
    <2>1. nextSeq \in Of("assignment")' /\ Of("assignment")' \subseteq Seqs
      BY <1>2, <1>3, <1>13 DEF Of
    <2>2. ASSUME NEW s \in Of("assignment")' PROVE s <= nextSeq
      <3>1. s \in Seqs /\ journal'[s].kind = "assignment"
        BY <2>2 DEF Of
      <3>2. ASSUME s > nextSeq PROVE FALSE
        <4>1. journal[s] = NoRow /\ journal'[s] = journal[s]
          BY <1>1, <1>2, <1>4, <3>1, <3>2 DEF SeqOrder
        <4>. QED
          BY <3>1, <4>1, NoRowType
      <3>3. s \in Int /\ nextSeq \in Int
        BY <1>4, <3>1
      <3>4. ~ (s > nextSeq)
        BY <3>2, <1>4
      <3>. QED
        BY <3>3, <3>4
    <2>3. Newest(Of("assignment")') = nextSeq
      BY <2>1, <2>2, NewestUnique
    <2>. QED
      BY <1>3, <2>1, <2>3
  <1>14. ASSUME k # "assignment"
         PROVE  Of("assignment")' = Of("assignment") /\ \A s \in Of("assignment") : journal'[s] = journal[s]
    <2>1. \A s \in Of("assignment") : journal'[s] = journal[s]
      BY <1>6 DEF Of
    <2>2. \A s \in Seqs : journal'[s].kind = "assignment" <=> journal[s].kind = "assignment"
      BY <1>2, <1>3, <1>5, <1>14
    <2>. QED
      BY <2>1, <2>2 DEF Of
  <1>. QED
    BY <1>7, <1>8, <1>9, <1>10, <1>11, <1>12, <1>13, <1>14

\* Deleting rows no queue row names, and no assignment but a superseded one.
LEMMA DeleteKeeps ==
  ASSUME IInv, NEW p \in Processes, CanWrite(p), NEW rows, Delete(rows),
         \A t \in Triggers : pending[t] \in EventsOf(t) => pending[t] \notin rows,
         \A s \in rows \intersect Of("assignment") : \E u \in Of("assignment") : s < u,
         UNCHANGED <<version, origin, nextSeq, pending, probes, handle, tx, hist>>
  PROVE  /\ Opened' /\ SeqOrder' /\ Unmigrated' /\ Replaying'
         /\ OneAuthor' /\ PendingEventKept' /\ AssignmentReproducible'
  <1>1. /\ Shape /\ Opened /\ SeqOrder /\ Replaying /\ OneAuthor /\ PendingEventKept /\ Unmigrated
        /\ AssignmentReproducible /\ handle[p].pc = "open" /\ tx.who = NoProcess
    BY DEF IInv, CanWrite, Unlocked
  <1>2. \A s \in Seqs : journal'[s] = IF s \in rows THEN NoRow ELSE journal[s]
    BY <1>1, DeleteShape
  <1>3. version = schemaVersion
    BY <1>1, WriterIsCurrent
  <1>4. Opened' /\ Replaying' /\ OneAuthor'
    BY <1>1, HandlesUntouched, ReplayUntouched DEF OneAuthor
  <1>5. SeqOrder'
    BY <1>1, <1>2 DEF SeqOrder
  <1>6. Unmigrated'
    BY <1>3 DEF Unmigrated, schemaVersion
  <1>7. PendingEventKept'
    <2>1. ASSUME NEW t \in Triggers, pending[t] \in EventsOf(t) PROVE pending[t] \in EventsOf(t)'
      BY <1>2, <2>1 DEF EventsOf, Of
    <2>. QED
      BY <1>1, <1>3, <2>1 DEF PendingEventKept
  <1>8. AssignmentReproducible'
    <2>. DEFINE A == Of("assignment")
    <2>1. A' \subseteq A /\ A \subseteq Seqs
      <3>1. \A s \in Seqs : journal'[s].kind = "assignment" => journal[s].kind = "assignment"
        BY <1>2, NoRowType
      <3>. QED
        BY <3>1 DEF Of
    <2>2. CASE A = {}
      BY <1>1, <2>1, <2>2 DEF AssignmentReproducible
    <2>3. CASE A # {}
      <3>1. PICK m \in A : m = Newest(A) /\ \A s \in A : s <= m
        BY <2>1, <2>3, NewestIs
      <3>2. A \subseteq Int
        BY <2>1, ControlAssumption DEF Seqs
      <3>3. m \notin rows
        BY <3>1, <3>2
      <3>4. m \in A' /\ journal'[m] = journal[m]
        <4>1. m \in Seqs /\ journal[m].kind = "assignment"
          BY DEF Of
        <4>2. journal'[m] = journal[m]
          BY <1>2, <3>3, <4>1
        <4>. QED
          BY <4>1, <4>2 DEF Of
      <3>5. Newest(A') = m
        <4>1. A' \subseteq Seqs /\ \A s \in A' : s <= m
          BY <2>1, <3>1
        <4>. QED
          BY <3>4, <4>1, NewestUnique
      <3>6. probes.hash = journal[m].probes
        BY <1>1, <2>3, <3>1 DEF AssignmentReproducible
      <3>. QED
        BY <3>4, <3>5, <3>6 DEF AssignmentReproducible
    <2>. QED
      BY <2>2, <2>3
  <1>. QED
    BY <1>4, <1>5, <1>6, <1>7, <1>8

-----------------------------------------------------------------------------
(* The steps                                                               *)

\* Everything but Shape.
Rest == /\ Opened /\ SeqOrder /\ Unmigrated /\ Replaying
        /\ OneAuthor /\ PendingEventKept /\ AssignmentReproducible

\* Opening: user_version only grows, and a handle remembers what it read.
LEMMA OpenStep ==
  ASSUME IInv, NEW p \in Processes, NEW o \in Requested[p], Open(p, o)
  PROVE  Rest'
  <1>1. Opened /\ Replaying /\ handle \in [Processes -> HandleType]
    BY DEF IInv, Shape
  <1>2. UNCHANGED <<version, origin, journal, nextSeq, pending, probes, tx, hist>>
    BY DEF Open
  <1>3. handle' = [handle EXCEPT ![p] = Handle("schema", o, version)]
    BY DEF Open
  <1>4. /\ handle'[p].pc = "schema" /\ handle'[p].version = version
        /\ \A q \in Processes : q # p => handle'[q] = handle[q]
    BY <1>1, <1>3 DEF Handle
  <1>5. Opened'
    <2>1. ASSUME NEW q \in Processes
          PROVE  /\ handle'[q].pc \in {"meta", "insert", "open"} => version' = schemaVersion
                 /\ handle'[q].pc = "schema" /\ handle'[q].version = 0 => version' # 1
                 /\ handle'[q].pc = "schema" /\ handle'[q].version = schemaVersion
                      => version' = schemaVersion
                 /\ handle'[q].pc = "insert" => handle'[q].origin # NoOrigin
                 /\ handle'[q].pc = "open" => handle'[q].origin = origin' /\ origin' # NoOrigin
      <3>1. CASE q = p
        BY <1>2, <1>4, <3>1
      <3>2. CASE q # p
        BY <1>1, <1>2, <1>4, <3>2 DEF Opened
      <3>. QED
        BY <3>1, <3>2
    <2>2. (~Unlocked)' => version' = schemaVersion
      BY <1>1, <1>2 DEF Opened, Unlocked
    <2>. QED
      BY <2>1, <2>2 DEF Opened
  <1>. QED
    BY <1>1, <1>2, <1>5, FileUntouched, ReplayUntouched DEF Rest

\* The migration: a queued trigger is repointed at its event, or was lost.
LEMMA InitSchemaStep ==
  ASSUME IInv, NEW p \in Processes, InitSchema(p)
  PROVE  Rest'
  <1>1. /\ Shape /\ Opened /\ Replaying /\ SeqOrder /\ OneAuthor /\ Unmigrated
        /\ PendingEventKept /\ AssignmentReproducible /\ handle \in [Processes -> HandleType]
    BY DEF IInv, Shape
  <1>2. UNCHANGED <<origin, journal, nextSeq, probes, tx, hist>> /\ version' = schemaVersion
    BY DEF InitSchema
  <1>3. handle' = [handle EXCEPT ![p] = Handle("meta", handle[p].origin, 0)]
    BY DEF InitSchema
  <1>4. /\ handle'[p].pc = "meta"
        /\ \A q \in Processes : q # p => handle'[q] = handle[q]
    BY <1>1, <1>3 DEF Handle
  <1>5. Opened'
    <2>1. ASSUME NEW q \in Processes
          PROVE  /\ handle'[q].pc = "insert" => handle'[q].origin # NoOrigin
                 /\ handle'[q].pc = "open" => handle'[q].origin = origin' /\ origin' # NoOrigin
      <3>1. CASE q = p
        BY <1>4, <3>1
      <3>2. CASE q # p
        BY <1>1, <1>2, <1>4, <3>2 DEF Opened
      <3>. QED
        BY <3>1, <3>2
    <2>. QED
      BY <1>2, <2>1 DEF Opened, schemaVersion
  <1>6. Replaying' /\ SeqOrder' /\ OneAuthor'
    BY <1>1, <1>2, ReplayUntouched DEF SeqOrder, OneAuthor
  <1>7. AssignmentReproducible'
    BY <1>1, <1>2 DEF AssignmentReproducible, Of
  <1>8. Unmigrated'
    BY <1>2 DEF Unmigrated, schemaVersion
  <1>9. \A t \in Triggers : EventsOf(t)' = EventsOf(t)
    BY <1>2 DEF EventsOf, Of
  <1>10. PendingEventKept'
    <2>1. SUFFICES ASSUME NEW t \in Triggers, t \notin hist.lost, pending'[t] # 0
                   PROVE  pending'[t] \in EventsOf(t)
      BY <1>2, <1>9 DEF PendingEventKept
    <2>2. CASE handle[p].version = 1
      <3>1. pending'[t] = IF pending[t] # 0 /\ EventsOf(t) # {} THEN Newest(EventsOf(t)) ELSE pending[t]
        BY <2>2 DEF InitSchema, MigrateV1ToV2
      <3>2. pending[t] # 0 => EventsOf(t) # {}
        BY <1>1, <2>1 DEF Unmigrated, PendingEventKept
      <3>3. EventsOf(t) \subseteq Seqs
        BY DEF EventsOf, Of
      <3>. QED
        BY <2>1, <3>1, <3>2, <3>3, NewestIs
    <2>3. CASE handle[p].version # 1
      <3>1. pending' = pending
        BY <2>3 DEF InitSchema
      <3>2. handle[p].version \in 0 .. 2 /\ version \in 0 .. 2
        BY <1>1 DEF HandleType, Shape
      <3>3. handle[p].pc = "schema"
        BY DEF InitSchema
      <3>4. version # 1
        BY <1>1, <2>3, <3>2, <3>3 DEF Opened, schemaVersion
      <3>5. version # 0
        BY <1>1, <2>1, <3>1 DEF Unmigrated
      <3>6. version = schemaVersion
        BY <3>2, <3>4, <3>5 DEF schemaVersion
      <3>. QED
        BY <1>1, <2>1, <3>1, <3>6 DEF PendingEventKept
    <2>. QED
      BY <2>2, <2>3
  <1>. QED
    BY <1>5, <1>6, <1>7, <1>8, <1>10 DEF Rest

\* initMeta reads: a handle opens under the file's origin or not at all.
LEMMA InitMetaStep ==
  ASSUME IInv, NEW p \in Processes, InitMeta(p)
  PROVE  Rest'
  <1>1. Opened /\ Replaying /\ handle \in [Processes -> HandleType]
    BY DEF IInv, Shape
  <1>2. UNCHANGED <<version, origin, journal, nextSeq, pending, probes, tx, hist>>
    BY DEF InitMeta, dbVars
  <1>3. handle[p].pc = "meta"
    BY DEF InitMeta
  <1>4. \A q \in Processes : q # p => handle'[q] = handle[q]
    BY <1>1 DEF InitMeta
  <1>5. \/ handle'[p].pc = "insert" /\ handle'[p].origin # NoOrigin
        \/ handle'[p].pc = "open" /\ handle'[p].origin = origin /\ origin # NoOrigin
        \/ handle'[p].pc = "closed"
    BY <1>1 DEF InitMeta, Handle, Closed
  <1>6. version = schemaVersion
    BY <1>1, <1>3 DEF Opened
  <1>7. Opened'
    <2>1. ASSUME NEW q \in Processes
          PROVE  /\ handle'[q].pc = "insert" => handle'[q].origin # NoOrigin
                 /\ handle'[q].pc = "open" => handle'[q].origin = origin' /\ origin' # NoOrigin
      <3>1. CASE q = p
        BY <1>2, <1>5, <3>1
      <3>2. CASE q # p
        BY <1>1, <1>2, <1>4, <3>2 DEF Opened
      <3>. QED
        BY <3>1, <3>2
    <2>. QED
      BY <1>2, <1>6, <2>1 DEF Opened, schemaVersion
  <1>. QED
    BY <1>1, <1>2, <1>7, FileUntouched, ReplayUntouched DEF Rest

\* The first INSERT binds the file, which nobody has written to yet.
LEMMA InsertMetaStep ==
  ASSUME IInv, NEW p \in Processes, InsertMeta(p)
  PROVE  Rest'
  <1>1. /\ Shape /\ Opened /\ Replaying /\ OneAuthor /\ handle \in [Processes -> HandleType]
        /\ hist.authors \subseteq Origins
    BY DEF IInv, Shape, HistType
  <1>2. UNCHANGED <<version, journal, nextSeq, pending, probes, tx, hist>>
    BY DEF InsertMeta
  <1>3. handle[p].pc = "insert" /\ handle[p].origin # NoOrigin /\ version = schemaVersion
    BY <1>1 DEF InsertMeta, Opened
  <1>4. \A q \in Processes : q # p => handle'[q] = handle[q]
    BY <1>1 DEF InsertMeta, BindOrigin
  <1>5. CASE origin = NoOrigin
    <2>1. /\ origin' = handle[p].origin
          /\ handle'[p].pc = "open" /\ handle'[p].origin = handle[p].origin
      BY <1>1, <1>5 DEF InsertMeta, BindOrigin, Handle
    <2>2. ASSUME NEW q \in Processes
          PROVE  /\ handle'[q].pc = "insert" => handle'[q].origin # NoOrigin
                 /\ handle'[q].pc = "open" => handle'[q].origin = origin' /\ origin' # NoOrigin
      <3>1. CASE q = p
        BY <1>3, <2>1, <3>1
      <3>2. CASE q # p
        BY <1>1, <1>4, <1>5, <3>2 DEF Opened
      <3>. QED
        BY <3>1, <3>2
    <2>3. Opened'
      BY <1>2, <1>3, <2>2 DEF Opened, schemaVersion
    <2>4. hist.authors = {}
      BY <1>1, <1>5, ControlAssumption DEF OneAuthor
    <2>5. OneAuthor'
      BY <1>2, <2>4 DEF OneAuthor
    <2>6. SeqOrder /\ Unmigrated /\ PendingEventKept /\ AssignmentReproducible
      BY DEF IInv
    <2>7. SeqOrder' /\ AssignmentReproducible'
      BY <1>2, <2>6 DEF SeqOrder, AssignmentReproducible, Of
    <2>8. Unmigrated' /\ PendingEventKept'
      BY <1>2, <2>6 DEF Unmigrated, PendingEventKept, EventsOf, Of
    <2>. QED
      BY <1>1, <1>2, <2>3, <2>5, <2>7, <2>8, ReplayUntouched DEF Rest
  <1>6. CASE origin # NoOrigin
    <2>1. origin' = origin /\ handle'[p].pc = "closed"
      BY <1>1, <1>6 DEF InsertMeta, BindOrigin, Handle, Closed
    <2>2. ASSUME NEW q \in Processes
          PROVE  /\ handle'[q].pc = "insert" => handle'[q].origin # NoOrigin
                 /\ handle'[q].pc = "open" => handle'[q].origin = origin' /\ origin' # NoOrigin
      <3>1. CASE q = p
        BY <2>1, <3>1
      <3>2. CASE q # p
        BY <1>1, <1>4, <2>1, <3>2 DEF Opened
      <3>. QED
        BY <3>1, <3>2
    <2>3. Opened'
      BY <1>2, <1>3, <2>2 DEF Opened, schemaVersion
    <2>. QED
      BY <1>1, <1>2, <2>1, <2>3, FileUntouched, ReplayUntouched DEF Rest
  <1>. QED
    BY <1>5, <1>6

\* A process ends: its handle is closed, its Rebuild rolled back.
LEMMA ExitStep ==
  ASSUME IInv, NEW p \in Processes, Exit(p)
  PROVE  Rest'
  <1>1. Opened /\ Replaying /\ handle \in [Processes -> HandleType]
    BY DEF IInv, Shape
  <1>2. UNCHANGED <<version, origin, journal, nextSeq, pending, probes, hist>>
    BY DEF Exit, dbVars
  <1>3. tx' = tx \/ tx'.who = NoProcess
    BY NoTablesType DEF Exit
  <1>4. \A q \in Processes : handle'[q] = handle[q] \/ handle'[q].pc = "closed"
    BY <1>1 DEF Exit, Closed, Handle
  <1>5. Opened'
    <2>1. ASSUME NEW q \in Processes
          PROVE  /\ handle'[q].pc \in {"meta", "insert", "open"} => version' = schemaVersion
                 /\ handle'[q].pc = "schema" /\ handle'[q].version = 0 => version' # 1
                 /\ handle'[q].pc = "schema" /\ handle'[q].version = schemaVersion
                      => version' = schemaVersion
                 /\ handle'[q].pc = "insert" => handle'[q].origin # NoOrigin
                 /\ handle'[q].pc = "open" => handle'[q].origin = origin' /\ origin' # NoOrigin
      <3>1. CASE handle'[q].pc = "closed"
        BY <3>1
      <3>2. CASE handle'[q] = handle[q]
        BY <1>1, <1>2, <3>2 DEF Opened
      <3>. QED
        BY <1>4, <3>1, <3>2
    <2>2. (~Unlocked)' => version' = schemaVersion
      BY <1>1, <1>2, <1>3 DEF Opened, Unlocked
    <2>. QED
      BY <2>1, <2>2 DEF Opened
  <1>. QED
    BY <1>1, <1>2, <1>3, <1>5, FileUntouched, ReplayUntouched DEF Rest

\* The agent's writes.
LEMMA SaveAssignmentStep ==
  ASSUME IInv, NEW P \in SUBSET Probes, SaveAssignment(P)
  PROVE  Rest'
  <1>1. PendingEventKept /\ Unmigrated /\ Shape /\ hist \in HistType
    BY DEF IInv, Shape
  <1>2. "assignment" \in Kinds /\ "assignment" \notin {"trigger", "trigger_done"}
    BY DEF Kinds
  <1>3. /\ CanWrite(Agent) /\ Insert(Row("assignment", now, NoTrigger, P))
        /\ UNCHANGED <<version, origin, handle, tx, pending>>
    BY DEF SaveAssignment
  <1>4. /\ Opened' /\ SeqOrder' /\ Replaying' /\ version = schemaVersion
        /\ Signed \subseteq {origin}
        /\ \A u \in Triggers : EventsOf(u) \subseteq EventsOf(u)'
        /\ Of("assignment")' # {}
        /\ journal'[Newest(Of("assignment")')].probes = P
    BY <1>2, <1>3, InsertKeeps
  <1>5. hist'.lost = hist.lost /\ hist'.authors = Signed
    BY DEF SaveAssignment, History
  <1>6. probes'.hash = P
    BY DEF SaveAssignment
  <1>7. PendingEventKept'
    BY <1>1, <1>3, <1>4, <1>5 DEF PendingEventKept
  <1>8. Unmigrated' /\ OneAuthor' /\ AssignmentReproducible'
    BY <1>3, <1>4, <1>5, <1>6 DEF Unmigrated, OneAuthor, AssignmentReproducible, schemaVersion
  <1>. QED
    BY <1>4, <1>7, <1>8 DEF Rest

LEMMA RecordTriggerStep ==
  ASSUME IInv, NEW t \in Triggers, RecordTrigger(t)
  PROVE  Rest'
  <1>1. /\ PendingEventKept /\ Unmigrated /\ AssignmentReproducible /\ Shape
        /\ pending \in [Triggers -> Nat]
    BY DEF IInv, Shape
  <1>2. "trigger" \in Kinds /\ {} \in SUBSET Probes /\ "trigger" # "assignment"
    BY DEF Kinds
  <1>3. /\ CanWrite(Agent) /\ Insert(Row("trigger", now, t, {}))
        /\ UNCHANGED <<version, origin, handle, tx, probes>>
    BY DEF RecordTrigger
  <1>4. /\ Opened' /\ SeqOrder' /\ Replaying' /\ version = schemaVersion
        /\ Signed \subseteq {origin}
        /\ \A u \in Triggers : EventsOf(u) \subseteq EventsOf(u)'
        /\ nextSeq \in EventsOf(t)'
        /\ Of("assignment")' = Of("assignment")
        /\ \A s \in Of("assignment") : journal'[s] = journal[s]
    BY <1>2, <1>3, InsertKeeps
  <1>5. hist'.lost = hist.lost /\ hist'.authors = Signed
    BY DEF RecordTrigger, History
  <1>6. pending' = [pending EXCEPT ![t] = nextSeq]
    BY DEF RecordTrigger, EventSeq
  <1>7. PendingEventKept'
    <2>1. SUFFICES ASSUME NEW u \in Triggers, u \notin hist.lost, pending'[u] # 0
                   PROVE  pending'[u] \in EventsOf(u)'
      BY <1>5 DEF PendingEventKept
    <2>2. CASE u = t
      BY <1>1, <1>4, <1>6, <2>2
    <2>3. CASE u # t
      BY <1>1, <1>4, <1>6, <2>1, <2>3 DEF PendingEventKept
    <2>. QED
      BY <2>2, <2>3
  <1>8. Unmigrated' /\ OneAuthor'
    BY <1>3, <1>4, <1>5 DEF Unmigrated, OneAuthor, schemaVersion
  <1>9. AssignmentReproducible'
    <2>1. Of("assignment") \subseteq Seqs
      BY DEF Of
    <2>2. Of("assignment") # {} => Newest(Of("assignment")) \in Of("assignment")
      BY <2>1, NewestIs
    <2>. QED
      BY <1>1, <1>3, <1>4, <2>2 DEF AssignmentReproducible
  <1>. QED
    BY <1>4, <1>7, <1>8, <1>9 DEF Rest

LEMMA CompleteTriggersStep ==
  ASSUME IInv, NEW t \in Triggers, CompleteTriggers(t)
  PROVE  Rest'
  <1>1. /\ PendingEventKept /\ Unmigrated /\ AssignmentReproducible /\ Shape /\ Opened
        /\ pending \in [Triggers -> Nat] /\ now \in 0 .. MaxTime
    BY DEF IInv, Shape, Times
  <1>2. "trigger_done" \in Kinds /\ {} \in SUBSET Probes /\ "trigger_done" # "assignment"
    BY DEF Kinds
  <1>3. /\ CanWrite(Agent) /\ Insert(Row("trigger_done", now, t, {}))
        /\ UNCHANGED <<version, origin, handle, tx>>
    BY DEF CompleteTriggers
  <1>4. /\ Opened' /\ SeqOrder' /\ Replaying' /\ version = schemaVersion
        /\ Signed \subseteq {origin}
        /\ \A u \in Triggers : EventsOf(u) \subseteq EventsOf(u)'
        /\ Of("assignment")' = Of("assignment")
        /\ \A s \in Of("assignment") : journal'[s] = journal[s]
    BY <1>2, <1>3, InsertKeeps
  <1>5. hist'.lost = hist.lost \ {t} /\ hist'.authors = Signed
    BY DEF CompleteTriggers, History
  <1>6. Tables \in TableType
    BY <1>1, ShapeType
  <1>7. /\ Completion(t).pending = [Tables.pending EXCEPT ![t] = 0]
        /\ Completion(t).hash = Tables.hash
    BY <1>1, <1>6, CompleteIs, Zenon DEF Completion
  <1>8. Tables.pending = pending /\ Tables.hash = probes.hash
    BY DEF Tables, TablesOf
  <1>9. pending' = [pending EXCEPT ![t] = 0] /\ probes'.hash = probes.hash
    BY <1>7, <1>8 DEF CompleteTriggers
  <1>10. PendingEventKept'
    <2>1. SUFFICES ASSUME NEW u \in Triggers, u \notin hist.lost \ {t}, pending'[u] # 0
                   PROVE  pending'[u] \in EventsOf(u)'
      BY <1>5 DEF PendingEventKept
    <2>2. u # t /\ pending'[u] = pending[u] /\ u \notin hist.lost
      BY <1>1, <1>9, <2>1
    <2>. QED
      BY <1>1, <1>4, <2>1, <2>2 DEF PendingEventKept
  <1>11. Unmigrated' /\ OneAuthor'
    BY <1>3, <1>4, <1>5 DEF Unmigrated, OneAuthor, schemaVersion
  <1>12. AssignmentReproducible'
    <2>1. Of("assignment") \subseteq Seqs
      BY DEF Of
    <2>2. Of("assignment") # {} => Newest(Of("assignment")) \in Of("assignment")
      BY <2>1, NewestIs
    <2>. QED
      BY <1>1, <1>4, <1>9, <2>2 DEF AssignmentReproducible
  <1>. QED
    BY <1>4, <1>10, <1>11, <1>12 DEF Rest

LEMMA PendingTriggersStep ==
  ASSUME IInv, NEW corrupt \in SUBSET Triggers, PendingTriggers(corrupt)
  PROVE  Rest'
  <1>1. /\ PendingEventKept /\ Unmigrated /\ AssignmentReproducible /\ Shape /\ Opened
        /\ SeqOrder /\ Replaying /\ OneAuthor /\ Agent \in Processes
    BY ControlAssumption DEF IInv
  <1>2. UNCHANGED <<version, origin, journal, nextSeq, probes, handle, tx>>
    BY DEF PendingTriggers
  <1>3. version = schemaVersion
    BY <1>1, WriterIsCurrent DEF PendingTriggers
  <1>4. hist'.lost = hist.lost \ corrupt /\ hist'.authors = hist.authors
    BY DEF PendingTriggers, History
  <1>5. pending' = [t \in Triggers |-> IF t \in corrupt THEN 0 ELSE pending[t]]
    BY DEF PendingTriggers
  <1>6. Opened' /\ Replaying' /\ SeqOrder' /\ OneAuthor'
    BY <1>1, <1>2, <1>4, HandlesUntouched, ReplayUntouched DEF SeqOrder, OneAuthor
  <1>7. AssignmentReproducible' /\ Unmigrated'
    BY <1>1, <1>2, <1>3 DEF AssignmentReproducible, Of, Unmigrated, schemaVersion
  <1>8. PendingEventKept'
    <2>1. \A t \in Triggers : EventsOf(t)' = EventsOf(t)
      BY <1>2 DEF EventsOf, Of
    <2>2. SUFFICES ASSUME NEW u \in Triggers, u \notin hist.lost \ corrupt, pending'[u] # 0
                   PROVE  pending'[u] \in EventsOf(u)
      BY <1>4, <2>1 DEF PendingEventKept
    <2>3. u \notin corrupt /\ pending'[u] = pending[u] /\ u \notin hist.lost
      BY <1>5, <2>2
    <2>. QED
      BY <1>1, <1>3, <2>2, <2>3 DEF PendingEventKept
  <1>. QED
    BY <1>6, <1>7, <1>8 DEF Rest

\* Pruning: the queue's events and the newest assignment are out of its reach.
LEMMA MaintStep ==
  ASSUME IInv, NEW p \in Processes,
         \/ MaintainStart(p) \/ PruneCompleted(p) \/ CollapseAssignments(p) \/ MaintainEnds(p)
         \/ PruneExpired(p) \/ PruneForSize(p)
  PROVE  Rest'
  <1>1. Opened /\ Replaying
    BY DEF IInv
  <1>2. \A s \in Prunable : s \notin Of("assignment") /\ \A t \in Triggers : pending[t] # s
    BY DEF Prunable, Of
  <1>3. \A S, n : Oldest(S, n) \subseteq S
    BY DEF Oldest
  <1>4. ASSUME NEW rows, rows \subseteq Prunable, CanWrite(p), Delete(rows),
               UNCHANGED <<version, origin, nextSeq, pending, probes, handle, tx, hist>>
        PROVE  Rest'
    <2>1. /\ \A t \in Triggers : pending[t] \in EventsOf(t) => pending[t] \notin rows
          /\ \A s \in rows \intersect Of("assignment") : \E u \in Of("assignment") : s < u
      BY <1>2, <1>4
    <2>. QED
      BY <1>4, <2>1, DeleteKeeps DEF Rest
  <1>5. CASE MaintainStart(p)
    <2>1. hist'.lost = hist.lost /\ hist'.authors = hist.authors
      BY <1>5 DEF MaintainStart, History
    <2>. QED
      BY <1>1, <1>5, <2>1, FileUntouched, HandlesUntouched, ReplayUntouched
      DEF MaintainStart, dbVars, Rest
  <1>6. CASE PruneCompleted(p)
    BY <1>1, <1>6, FileUntouched, HandlesUntouched, ReplayUntouched DEF PruneCompleted, Rest
  <1>7. CASE MaintainEnds(p)
    BY <1>1, <1>7, FileUntouched, HandlesUntouched, ReplayUntouched DEF MaintainEnds, dbVars, Rest
  <1>8. CASE PruneExpired(p)
    <2>. DEFINE old == {s \in Prunable : journal[s].at < maint[p].cutoff}
    <2>1. Oldest(old, PruneChunk) \subseteq Prunable
      BY <1>3
    <2>2. /\ CanWrite(p) /\ Delete(Oldest(old, PruneChunk))
          /\ UNCHANGED <<version, origin, nextSeq, pending, probes, handle, tx, hist>>
      BY <1>8 DEF PruneExpired
    <2>. QED
      BY <1>4, <2>1, <2>2
  <1>9. CASE PruneForSize(p)
    <2>1. Oldest(Prunable, PruneChunk) \subseteq Prunable
      BY <1>3
    <2>2. /\ CanWrite(p) /\ Delete(Oldest(Prunable, PruneChunk))
          /\ UNCHANGED <<version, origin, nextSeq, pending, probes, handle, tx, hist>>
      BY <1>9 DEF PruneForSize
    <2>. QED
      BY <1>4, <2>1, <2>2
  <1>10. CASE CollapseAssignments(p)
    <2>1. /\ CanWrite(p) /\ Delete(Superseded)
          /\ UNCHANGED <<version, origin, nextSeq, pending, probes, handle, tx, hist>>
      BY <1>10 DEF CollapseAssignments
    <2>2. /\ \A t \in Triggers : pending[t] \in EventsOf(t) => pending[t] \notin Superseded
          /\ \A s \in Superseded \intersect Of("assignment") : \E u \in Of("assignment") : s < u
      BY DEF Superseded, EventsOf, Of
    <2>. QED
      BY <2>1, <2>2, DeleteKeeps DEF Rest
  <1>. QED
    BY <1>5, <1>6, <1>7, <1>8, <1>9, <1>10

\* Rebuild: the tables it derives are those of the journal up to its position.
LEMMA RebuildEventStep ==
  ASSUME IInv, RebuildEvent
  PROVE  Rest'
  <1>1. Shape /\ Opened /\ Replaying /\ ~Unlocked
    BY DEF IInv, RebuildEvent
  <1>2. PICK s \in Ahead : /\ \A u \in Ahead : s <= u
                           /\ tx' = Transaction(tx.who, s, Replayed(s))
    BY DEF RebuildEvent
  <1>3. UNCHANGED <<version, origin, journal, nextSeq, pending, probes, handle, hist>>
    BY DEF RebuildEvent, dbVars
  <1>4. tx'.who = tx.who /\ tx'.pos = s /\ tx'.tables = Replayed(s)
    BY <1>2 DEF Transaction
  <1>5. s \in Control /\ s \in Seqs /\ s > tx.pos
    BY DEF Ahead, Control, Of
  <1>6. Seqs \subseteq Int /\ tx.pos \in Int
    BY <1>1, ControlAssumption DEF Seqs, Shape, TxType
  <1>7. \A t \in Triggers : EventsOf(t)' = EventsOf(t)
    BY <1>3 DEF EventsOf, Of
  <1>8. ASSUME NEW t \in Triggers, Replayed(s).pending[t] # 0
        PROVE  Replayed(s).pending[t] \in EventsOf(t)
    <2>1. \/ Replayed(s).pending[t] = tx.tables.pending[t]
          \/ Replayed(s).pending[t] = s /\ s \in EventsOf(t)
      BY <1>1, <1>5, <1>8, ReplayedIs
    <2>. QED
      BY <1>1, <1>8, <2>1 DEF Replaying
  <1>. DEFINE A == {u \in Of("assignment") : u <= tx.pos}
              B == {u \in Of("assignment") : u <= s}
  <1>9. A \subseteq Seqs /\ B \subseteq Seqs
    BY DEF Of
  <1>10. \A u \in B : u # s => u \in A
    <2>1. SUFFICES ASSUME NEW u \in B, u # s, ~ (u <= tx.pos) PROVE FALSE
      OBVIOUS
    <2>2. u \in Control /\ u <= s /\ u \in Int /\ s \in Int
      BY <1>5, <1>6, <1>9, <2>1 DEF Control
    <2>3. u \in Ahead
      BY <1>6, <2>1, <2>2 DEF Ahead
    <2>. QED
      BY <1>2, <2>1, <2>2, <2>3
  <1>11. A \subseteq B
    <2>1. \A u \in A : u \in Of("assignment") /\ u \in Int /\ u <= tx.pos
      BY <1>6, <1>9
    <2>2. s \in Int
      BY <1>5, <1>6
    <2>3. \A u \in A : u <= s
      BY <1>5, <1>6, <2>1, <2>2
    <2>. QED
      BY <2>1, <2>3
  <1>12. Replayed(s).hash = IF journal[s].kind = "assignment" THEN journal[s].probes ELSE tx.tables.hash
    BY <1>1, <1>5, ReplayedIs
  <1>13. HashOf(B, Replayed(s).hash)
    <2>1. CASE journal[s].kind = "assignment"
      <3>1. s \in B
        BY <1>5, <1>6, <2>1 DEF Of
      <3>2. \A u \in B : u <= s
        OBVIOUS
      <3>. HIDE DEF B
      <3>3. Newest(B) = s
        BY <1>9, <3>1, <3>2, NewestUnique
      <3>. QED
        BY <1>12, <2>1, <3>1, <3>3 DEF HashOf
    <2>2. CASE journal[s].kind # "assignment"
      <3>1. s \notin B
        BY <2>2 DEF Of
      <3>2. HashOf(A, tx.tables.hash)
        BY <1>1 DEF Replaying
      <3>. HIDE DEF A, B
      <3>3. A = B
        BY <1>10, <1>11, <3>1
      <3>. QED
        BY <1>12, <2>2, <3>2, <3>3
    <2>. QED
      BY <2>1, <2>2
  <1>14. Replaying'
    <2>1. {u \in Of("assignment") : u <= tx.pos}' = B
      BY <1>3, <1>4 DEF Of
    <2>2. IF B = {} THEN Replayed(s).hash = NoHash ELSE Replayed(s).hash = journal[Newest(B)].probes
      BY <1>13 DEF HashOf
    <2>. HIDE DEF B
    <2>3. HashOf({u \in Of("assignment") : u <= tx.pos}, tx.tables.hash)'
      BY <1>3, <1>4, <2>1, <2>2 DEF HashOf
    <2>. QED
      BY <1>4, <1>7, <1>8, <2>3 DEF Replaying
  <1>15. Opened'
    BY <1>1, <1>3, <1>4, HandlesUntouched
  <1>. QED
    BY <1>3, <1>14, <1>15, FileUntouched DEF Rest

LEMMA RebuildStep ==
  ASSUME IInv, RebuildCommit \/ RebuildFails \/ \E p \in Processes : RebuildStart(p)
  PROVE  Rest'
  <1>1. /\ Shape /\ Opened /\ Replaying /\ SeqOrder /\ OneAuthor
    BY DEF IInv
  <1>2. CASE RebuildFails
    <2>1. tx'.who = NoProcess
      BY <1>2, NoTablesType DEF RebuildFails
    <2>. QED
      BY <1>1, <1>2, <2>1, FileUntouched, HandlesUntouched, ReplayUntouched DEF RebuildFails, dbVars, Rest
  <1>3. ASSUME NEW p \in Processes, RebuildStart(p) PROVE Rest'
    <2>1. UNCHANGED <<version, origin, journal, nextSeq, pending, probes, handle, hist>>
      BY <1>3 DEF RebuildStart, dbVars
    <2>2. tx'.who = p /\ tx'.pos = 0 /\ tx'.tables = NoTables
      BY <1>3 DEF RebuildStart, Transaction
    <2>3. version = schemaVersion
      BY <1>3, WriterIsCurrent DEF RebuildStart, CanWrite
    <2>4. Opened'
      <3>1. \A q \in Processes : handle'[q] = handle[q]
        BY <2>1
      <3>. QED
        BY <1>1, <2>1, <2>3 DEF Opened
    <2>5. Replaying'
      <3>1. NoTables.hash = NoHash /\ \A t \in Triggers : NoTables.pending[t] = 0
        BY DEF NoTables, TablesOf
      <3>2. \A s \in Of("assignment") : ~ (s <= 0)
        BY ControlAssumption DEF Of, Seqs
      <3>3. {s \in Of("assignment") : s <= tx.pos}' = {}
        BY <2>1, <2>2, <3>2 DEF Of
      <3>. QED
        BY <2>2, <3>1, <3>3 DEF Replaying, HashOf
    <2>. QED
      BY <2>1, <2>4, <2>5, FileUntouched DEF Rest
  <1>4. CASE RebuildCommit
    <2>1. UNCHANGED <<version, origin, journal, nextSeq, handle>> /\ tx'.who = NoProcess
      BY <1>4, NoTablesType DEF RebuildCommit
    <2>2. pending' = tx.tables.pending /\ probes'.hash = tx.tables.hash
      BY <1>4 DEF RebuildCommit
    <2>3. hist'.authors = hist.authors
      BY <1>4 DEF RebuildCommit, History
    <2>4. Opened' /\ Replaying' /\ SeqOrder' /\ OneAuthor'
      BY <1>1, <2>1, <2>3, HandlesUntouched, ReplayUntouched DEF SeqOrder, OneAuthor
    <2>5. version = schemaVersion /\ ~Unlocked
      BY <1>1, <1>4 DEF RebuildCommit, Opened
    <2>6. Unmigrated'
      BY <2>1, <2>5 DEF Unmigrated, schemaVersion
    <2>7. PendingEventKept'
      <3>1. \A t \in Triggers : EventsOf(t)' = EventsOf(t)
        BY <2>1 DEF EventsOf, Of
      <3>. QED
        BY <1>1, <2>2, <2>5, <3>1 DEF PendingEventKept, Replaying
    <2>8. AssignmentReproducible'
      <3>1. \A s \in Of("assignment") : s <= tx.pos
        <4>1. SUFFICES ASSUME NEW s \in Of("assignment"), ~ (s <= tx.pos) PROVE FALSE
          OBVIOUS
        <4>2. s \in Int /\ tx.pos \in Int
          BY <1>1, ControlAssumption DEF Of, Seqs, Shape, TxType
        <4>3. s \in Ahead
          BY <4>1, <4>2 DEF Ahead, Control
        <4>. QED
          BY <1>4, <4>3 DEF RebuildCommit
      <3>2. {s \in Of("assignment") : s <= tx.pos} = Of("assignment")
        BY <3>1
      <3>3. HashOf(Of("assignment"), tx.tables.hash)
        BY <1>1, <2>5, <3>2 DEF Replaying
      <3>4. Of("assignment")' = Of("assignment")
        BY <2>1 DEF Of
      <3>. QED
        BY <2>1, <2>2, <3>3, <3>4 DEF AssignmentReproducible, HashOf
    <2>. QED
      BY <2>4, <2>6, <2>7, <2>8 DEF Rest
  <1>. QED
    BY <1>2, <1>3, <1>4

-----------------------------------------------------------------------------
(* The queue and the completions against the journal                       *)

\* A file version 1 left has completed nothing and dropped nothing.
Early ==
  version # schemaVersion =>
    Of("trigger_done") = {} /\ \A t \in Triggers : pending[t] = 0 => EventsOf(t) = {}

\* A lost trigger is queued and has no row at all.
LostGone == \A t \in hist.lost : pending[t] # 0 /\ EventsOf(t) = {} /\ DonesOf(t) = {}

\* A completion carries a time.
Timed == \A d \in Of("trigger_done") : journal[d].at # 0

\* A queued trigger has no later completion; the others' events have one that
\* is no older than they are, and pruning may take each of them.
Settled ==
  version = schemaVersion => \A t \in Triggers \ (hist.lost \union hist.astray) :
    IF pending[t] # 0 THEN \A d \in DonesOf(t) : d < pending[t]
    ELSE \A s \in EventsOf(t) :
           /\ \A u \in Triggers : pending[u] # s
           /\ \E d \in DonesOf(t) : s < d /\ journal[s].at <= journal[d].at

\* The queue a Rebuild has derived is that of the journal up to its position.
Requeuing ==
  ~Unlocked => \A t \in Triggers :
    IF tx.tables.pending[t] # 0
      THEN \A d \in DonesOf(t) : d <= tx.pos => d < tx.tables.pending[t]
      ELSE \A s \in EventsOf(t) : s <= tx.pos => \E d \in DonesOf(t) : s < d /\ d <= tx.pos

\* So are the completions.
Recompleting ==
  ~Unlocked => \A t \in Triggers :
    \/ tx.tables.completed[t] = 0 /\ \A d \in DonesOf(t) : d > tx.pos
    \/ \E m \in DonesOf(t) : /\ m <= tx.pos /\ tx.tables.completed[t] = journal[m].at
                             /\ \A d \in DonesOf(t) : d <= tx.pos => d <= m

\* A completion that is owed is in its table for longer than any pruning under
\* way reaches, and its event goes last of the trigger's.
Last(t, m) ==
  /\ journal[m].at = completed[t]
  /\ \A d \in DonesOf(t) : d = m \/ (d < m /\ \A u \in Triggers : pending[u] # d)
Owed ==
  \A t \in hist.owed :
    /\ completed[t] # 0 /\ \A p \in Processes : maint[p].cutoff <= completed[t]
    /\ DonesOf(t) # {} => \E m \in DonesOf(t) : Last(t, m)

Queued == Early /\ LostGone /\ Timed /\ Settled
Derived == Requeuing /\ Recompleting
Kept == Queued /\ Derived /\ Owed

\* The oldest of a set are the lower ones.
LEMMA OldestIsLower ==
  ASSUME NEW S \in SUBSET Seqs, NEW n \in Nat, NEW d \in Oldest(S, n), NEW s \in S, s < d
  PROVE  s \in Oldest(S, n)
  <1>. DEFINE A == {t \in S : t < s}
              B == {t \in S : t < d}
  <1>1. S \subseteq Int /\ IsFiniteSet(Seqs) /\ d \in S
    BY ControlAssumption, FS_Interval DEF Seqs, Oldest
  <1>2. A \subseteq B
    <2>1. SUFFICES ASSUME NEW t \in S, t < s PROVE t < d
      OBVIOUS
    <2>2. t \in Int /\ s \in Int /\ d \in Int
      BY <1>1
    <2>. QED
      BY <2>1, <2>2
  <1>3. IsFiniteSet(B) /\ Cardinality(B) < n
    BY <1>1, FS_Subset DEF Oldest
  <1>. HIDE DEF A, B
  <1>4. IsFiniteSet(A) /\ Cardinality(A) <= Cardinality(B)
    BY <1>2, <1>3, FS_Subset
  <1>5. Cardinality(A) \in Nat /\ Cardinality(B) \in Nat
    BY <1>3, <1>4, FS_CardinalityType
  <1>6. Cardinality(A) < n
    BY <1>3, <1>4, <1>5
  <1>. QED
    BY <1>6 DEF A, Oldest

\* Rows are numbers, and no row is two things.
LEMMA RowsApart ==
  ASSUME NEW t \in Triggers
  PROVE  /\ EventsOf(t) \subseteq Seqs /\ DonesOf(t) \subseteq Seqs
         /\ EventsOf(t) \subseteq Int /\ DonesOf(t) \subseteq Int
         /\ 0 \notin EventsOf(t) /\ 0 \notin DonesOf(t)
         /\ DonesOf(t) \subseteq Of("trigger_done")
         /\ \A u \in Triggers : /\ EventsOf(t) \intersect DonesOf(u) = {}
                                /\ t # u => /\ EventsOf(t) \intersect EventsOf(u) = {}
                                            /\ DonesOf(t) \intersect DonesOf(u) = {}
  <1>1. EventsOf(t) \subseteq Seqs /\ DonesOf(t) \subseteq Seqs /\ DonesOf(t) \subseteq Of("trigger_done")
    BY DEF EventsOf, DonesOf, Of
  <1>2. Seqs \subseteq Int /\ 0 \notin Seqs
    BY ControlAssumption DEF Seqs
  <1>3. \A u \in Triggers : /\ EventsOf(t) \intersect DonesOf(u) = {}
                            /\ t # u => /\ EventsOf(t) \intersect EventsOf(u) = {}
                                        /\ DonesOf(t) \intersect DonesOf(u) = {}
    BY DEF EventsOf, DonesOf, Of
  <1>. QED
    BY <1>1, <1>2, <1>3

\* A queue row names its own event, or that of nobody if version 1 lost it.
LEMMA QueueNames ==
  ASSUME IInv, version = schemaVersion, NEW u \in Triggers, u \notin hist.lost,
         NEW t \in Triggers
  PROVE  /\ \A s \in EventsOf(t) : t # u => pending[u] # s
         /\ \A d \in DonesOf(t) : pending[u] # d
  <1>1. pending[u] = 0 \/ pending[u] \in EventsOf(u)
    BY DEF IInv, PendingEventKept
  <1>. QED
    BY <1>1, RowsApart

\* What an insert does to the rows of each trigger.
LEMMA InsertRows ==
  ASSUME IInv, NEW k \in Kinds, NEW t \in Triggers \union {NoTrigger}, NEW P \in SUBSET Probes,
         k \in {"trigger", "trigger_done"} => t \in Triggers, Insert(Row(k, now, t, P)),
         k # "none"
  PROVE  /\ nextSeq \in Seqs /\ nextSeq \in Int
         /\ journal'[nextSeq].at = now
         /\ \A u \in Triggers :
              /\ \A s \in EventsOf(u) \union DonesOf(u) : s < nextSeq /\ journal'[s] = journal[s]
              /\ EventsOf(u)' = IF k = "trigger" /\ u = t THEN EventsOf(u) \union {nextSeq} ELSE EventsOf(u)
              /\ DonesOf(u)' = IF k = "trigger_done" /\ u = t THEN DonesOf(u) \union {nextSeq} ELSE DonesOf(u)
  <1>1. Shape /\ SeqOrder /\ Seqs \subseteq Int
    BY ControlAssumption DEF IInv, Seqs
  <1>2. /\ journal' \in [Seqs -> RowType] /\ nextSeq \in Seqs
        /\ \A s \in Seqs : s # nextSeq => journal'[s] = journal[s]
        /\ journal'[nextSeq] = [kind |-> k, at |-> now, trig |-> t, probes |-> P]
    BY <1>1, InsertShape
  <1>3. journal'[nextSeq].kind = k /\ journal'[nextSeq].trig = t /\ journal'[nextSeq].at = now
    BY <1>2
  <1>4. \A s \in Seqs : journal[s].kind # "none" => s < nextSeq
    BY <1>1, <1>2, NoRowType DEF SeqOrder
  <1>5. journal[nextSeq].kind = "none" /\ nextSeq \in Int
    BY <1>1, <1>2, <1>4
  <1>6. ASSUME NEW u \in Triggers
        PROVE  /\ \A s \in EventsOf(u) \union DonesOf(u) : s < nextSeq /\ journal'[s] = journal[s]
               /\ EventsOf(u)' = IF k = "trigger" /\ u = t THEN EventsOf(u) \union {nextSeq} ELSE EventsOf(u)
               /\ DonesOf(u)' = IF k = "trigger_done" /\ u = t THEN DonesOf(u) \union {nextSeq} ELSE DonesOf(u)
    <2>1. \A s \in EventsOf(u) \union DonesOf(u) : s < nextSeq /\ journal'[s] = journal[s]
      BY <1>2, <1>4, <1>5 DEF EventsOf, DonesOf, Of
    <2>2. EventsOf(u)' = IF k = "trigger" /\ u = t THEN EventsOf(u) \union {nextSeq} ELSE EventsOf(u)
      BY <1>2, <1>3, <1>5 DEF EventsOf, Of
    <2>3. DonesOf(u)' = IF k = "trigger_done" /\ u = t THEN DonesOf(u) \union {nextSeq} ELSE DonesOf(u)
      BY <1>2, <1>3, <1>5 DEF DonesOf, Of
    <2>. QED
      BY <2>1, <2>2, <2>3
  <1>. QED
    BY <1>2, <1>3, <1>5, <1>6

\* What steps that leave the journal, the queue and its history alone keep.
LEMMA QueuedUntouched ==
  ASSUME Queued, UNCHANGED <<version, journal, pending>>,
         hist'.lost = hist.lost, hist'.astray = hist.astray
  PROVE  Queued'
  <1>1. Early /\ LostGone /\ Timed /\ Settled
    BY DEF Queued
  <1>2. /\ \A k : Of(k)' = Of(k)
        /\ \A t : EventsOf(t)' = EventsOf(t) /\ DonesOf(t)' = DonesOf(t)
    BY DEF EventsOf, DonesOf, Of
  <1>3. Early' /\ LostGone' /\ Timed'
    BY <1>1, <1>2 DEF Early, LostGone, Timed
  <1>4. Settled'
    BY <1>1, <1>2 DEF Settled
  <1>. QED
    BY <1>3, <1>4 DEF Queued

LEMMA DerivedUntouched ==
  ASSUME Derived, (journal' = journal /\ tx' = tx) \/ tx'.who = NoProcess
  PROVE  Derived'
  <1>1. CASE tx'.who = NoProcess
    BY <1>1 DEF Derived, Requeuing, Recompleting, Unlocked
  <1>2. CASE journal' = journal /\ tx' = tx
    <2>1. \A t : EventsOf(t)' = EventsOf(t) /\ DonesOf(t)' = DonesOf(t)
      BY <1>2 DEF EventsOf, DonesOf, Of
    <2>2. Requeuing /\ Recompleting
      BY DEF Derived
    <2>3. Requeuing'
      BY <1>2, <2>1, <2>2 DEF Requeuing, Unlocked
    <2>4. Recompleting'
      BY <1>2, <2>1, <2>2 DEF Recompleting, Unlocked
    <2>. QED
      BY <2>3, <2>4 DEF Derived
  <1>. QED
    BY <1>1, <1>2

\* A completion stays owed while its rows and its table row stay, no queue row
\* comes to name one of its rows, and no cutoff passes it.
LEMMA OwedKept ==
  ASSUME Owed, NEW t \in hist.owed, completed'[t] = completed[t], DonesOf(t)' = DonesOf(t),
         \A d \in DonesOf(t) : /\ journal'[d] = journal[d]
                               /\ \A u \in Triggers : pending'[u] = d => pending[u] = d,
         \A p \in Processes : maint'[p].cutoff <= completed[t]
  PROVE  /\ completed'[t] # 0 /\ \A p \in Processes : maint'[p].cutoff <= completed'[t]
         /\ DonesOf(t)' # {} => \E m \in DonesOf(t)' : Last(t, m)'
  <1>1. completed[t] # 0
    BY DEF Owed
  <1>2. ASSUME NEW m \in DonesOf(t), Last(t, m) PROVE Last(t, m)'
    <2>1. journal'[m].at = completed'[t]
      BY <1>2 DEF Last
    <2>2. \A d \in DonesOf(t) : d = m \/ (d < m /\ \A u \in Triggers : pending'[u] # d)
      BY <1>2 DEF Last
    <2>. QED
      BY <2>1, <2>2 DEF Last
  <1>. QED
    BY <1>1, <1>2 DEF Owed

\* Steps that touch none of it.
LEMMA OwedUntouched ==
  ASSUME IInv, Owed, UNCHANGED <<journal, pending, completed>>, hist'.owed \subseteq hist.owed,
         \A p \in Processes : maint'[p].cutoff = maint[p].cutoff \/ maint'[p].cutoff = 0
  PROVE  Owed'
  <1>1. completed \in [Triggers -> 0 .. MaxTime] /\ hist.owed \subseteq Triggers
    BY DEF IInv, Shape, HistType
  <1>2. ASSUME NEW t \in hist.owed
        PROVE  /\ completed'[t] # 0 /\ \A p \in Processes : maint'[p].cutoff <= completed'[t]
               /\ DonesOf(t)' # {} => \E m \in DonesOf(t)' : Last(t, m)'
    <2>1. DonesOf(t)' = DonesOf(t)
      BY DEF DonesOf, Of
    <2>2. 0 <= completed[t]
      BY <1>1, <1>2
    <2>3. \A p \in Processes : maint'[p].cutoff <= completed[t]
      BY <2>2 DEF Owed
    <2>. QED
      BY <2>1, <2>3, OwedKept
  <1>. QED
    BY <1>2 DEF Owed

\* The migration points queue rows at events only.
LEMMA InitSchemaKept ==
  ASSUME IInv, Kept, NEW p \in Processes, InitSchema(p)
  PROVE  Kept'
  <1>1. Early /\ LostGone /\ Timed /\ Settled /\ Derived /\ Owed
    BY DEF Kept, Queued
  <1>2. /\ UNCHANGED <<journal, completed, maint, tx, hist>> /\ version' = schemaVersion
    BY DEF InitSchema
  <1>3. /\ \A k : Of(k)' = Of(k)
        /\ \A t : EventsOf(t)' = EventsOf(t) /\ DonesOf(t)' = DonesOf(t)
    BY <1>2 DEF EventsOf, DonesOf, Of
  <1>4. ASSUME NEW t \in Triggers
        PROVE  \/ pending'[t] = pending[t]
               \/ /\ pending[t] # 0 /\ pending'[t] \in EventsOf(t)
                  /\ \A s \in EventsOf(t) : s <= pending'[t]
    <2>1. CASE handle[p].version = 1
      <3>1. pending'[t] = IF pending[t] # 0 /\ EventsOf(t) # {} THEN Newest(EventsOf(t)) ELSE pending[t]
        BY <2>1 DEF InitSchema, MigrateV1ToV2
      <3>. QED
        BY <3>1, RowsApart, NewestIs
    <2>2. CASE handle[p].version # 1
      BY <2>2 DEF InitSchema
    <2>. QED
      BY <2>1, <2>2
  <1>5. \A t \in Triggers : pending'[t] = 0 <=> pending[t] = 0
    BY <1>4, RowsApart
  <1>6. Early' /\ LostGone' /\ Timed'
    <2>1. hist.lost \subseteq Triggers
      BY DEF IInv, Shape, HistType
    <2>. QED
      BY <1>1, <1>2, <1>3, <1>5, <2>1 DEF Early, LostGone, Timed
  <1>7. Settled'
    <2>1. SUFFICES ASSUME NEW t \in Triggers, t \notin hist.lost, t \notin hist.astray
                   PROVE  IF pending'[t] # 0 THEN \A d \in DonesOf(t) : d < pending'[t]
                          ELSE \A s \in EventsOf(t) :
                                 /\ \A u \in Triggers : pending'[u] # s
                                 /\ \E d \in DonesOf(t) : s < d /\ journal[s].at <= journal[d].at
      BY <1>2, <1>3 DEF Settled
    <2>2. CASE version # schemaVersion
      <3>1. DonesOf(t) = {} /\ (pending[t] = 0 => EventsOf(t) = {})
        BY <1>1, <2>2, RowsApart DEF Early
      <3>. QED
        BY <1>5, <3>1
    <2>3. CASE version = schemaVersion
      <3>1. CASE pending[t] # 0
        <4>1. pending[t] \in EventsOf(t) /\ \A d \in DonesOf(t) : d < pending[t]
          BY <1>1, <2>1, <2>3, <3>1 DEF IInv, PendingEventKept, Settled
        <4>2. pending[t] <= pending'[t] /\ pending'[t] \in EventsOf(t)
          BY <1>4, <4>1, RowsApart
        <4>3. \A d \in DonesOf(t) : d < pending'[t]
          <5>1. SUFFICES ASSUME NEW d \in DonesOf(t) PROVE d < pending'[t]
            OBVIOUS
          <5>2. d \in Int /\ pending[t] \in Int /\ pending'[t] \in Int
            BY <4>1, <4>2, RowsApart
          <5>. QED
            BY <4>1, <4>2, <5>2
        <4>. QED
          BY <1>5, <3>1, <4>3
      <3>2. CASE pending[t] = 0
        <4>1. ASSUME NEW s \in EventsOf(t), NEW u \in Triggers PROVE pending'[u] # s
          <5>1. pending[u] # s
            BY <1>1, <2>1, <2>3, <3>2 DEF Settled
          <5>2. CASE u = t
            BY <1>5, <3>2, <5>2, RowsApart
          <5>3. CASE u # t
            BY <1>4, <5>1, <5>3, RowsApart
          <5>. QED
            BY <5>2, <5>3
        <4>2. \A s \in EventsOf(t) : \E d \in DonesOf(t) : s < d /\ journal[s].at <= journal[d].at
          BY <1>1, <2>1, <2>3, <3>2 DEF Settled
        <4>. QED
          BY <1>5, <3>2, <4>1, <4>2
      <3>. QED
        BY <3>1, <3>2
    <2>. QED
      BY <2>2, <2>3
  <1>8. Derived'
    BY <1>1, <1>2, DerivedUntouched
  <1>9. Owed'
    <2>1. hist.owed \subseteq Triggers
      BY DEF IInv, Shape, HistType
    <2>2. ASSUME NEW t \in hist.owed
          PROVE  /\ completed'[t] # 0 /\ \A q \in Processes : maint'[q].cutoff <= completed'[t]
                 /\ DonesOf(t)' # {} => \E m \in DonesOf(t)' : Last(t, m)'
      <3>1. \A d \in DonesOf(t) : \A u \in Triggers : pending'[u] = d => pending[u] = d
        BY <1>4, <2>1, RowsApart
      <3>2. \A q \in Processes : maint'[q].cutoff <= completed[t]
        BY <1>1, <1>2 DEF Owed
      <3>. QED
        BY <1>1, <1>2, <1>3, <3>1, <3>2, OwedKept
    <2>. QED
      BY <1>2, <2>2 DEF Owed
  <1>. QED
    BY <1>6, <1>7, <1>8, <1>9 DEF Kept, Queued

\* A new row has the time of its insertion.
LEMMA InsertTimed ==
  ASSUME IInv, Timed, NEW k \in Kinds, NEW t \in Triggers \union {NoTrigger}, NEW P \in SUBSET Probes,
         k \in {"trigger", "trigger_done"} => t \in Triggers, Insert(Row(k, now, t, P))
  PROVE  Timed'
  <1>1. /\ nextSeq \in Seqs /\ \A s \in Seqs : s # nextSeq => journal'[s] = journal[s]
        /\ journal'[nextSeq] = [kind |-> k, at |-> now, trig |-> t, probes |-> P]
    BY InsertShape DEF IInv
  <1>2. journal'[nextSeq].at = now /\ now # 0
    BY <1>1 DEF IInv, Shape, Times
  <1>. QED
    BY <1>1, <1>2 DEF Timed, Of

\* The agent's writes.
LEMMA SaveAssignmentKept ==
  ASSUME IInv, Kept, NEW P \in SUBSET Probes, SaveAssignment(P)
  PROVE  Kept'
  <1>1. Early /\ LostGone /\ Timed /\ Settled /\ Derived /\ Owed
    BY DEF Kept, Queued
  <1>2. "assignment" \in Kinds /\ "assignment" \notin {"trigger", "trigger_done", "none"}
    BY DEF Kinds
  <1>3. /\ CanWrite(Agent) /\ Insert(Row("assignment", now, NoTrigger, P))
        /\ UNCHANGED <<version, pending, completed, maint, tx>>
    BY DEF SaveAssignment
  <1>4. hist'.lost = hist.lost /\ hist'.astray = hist.astray /\ hist'.owed = hist.owed
    BY DEF SaveAssignment, History
  <1>5. /\ hist.lost \subseteq Triggers /\ hist.owed \subseteq Triggers
        /\ version = schemaVersion
    BY <1>3, ControlAssumption, WriterIsCurrent DEF IInv, Shape, HistType, CanWrite
  <1>6. \A u \in Triggers :
          /\ \A s \in EventsOf(u) \union DonesOf(u) : journal'[s] = journal[s]
          /\ EventsOf(u)' = EventsOf(u) /\ DonesOf(u)' = DonesOf(u)
    BY <1>2, <1>3, InsertRows
  <1>7. Early' /\ LostGone'
    BY <1>1, <1>3, <1>4, <1>5, <1>6 DEF Early, LostGone, schemaVersion
  <1>8. Timed'
    BY <1>1, <1>3, <1>2, InsertTimed
  <1>9. Settled'
    BY <1>1, <1>3, <1>4, <1>6 DEF Settled
  <1>10. Derived'
    BY <1>1, <1>3, DerivedUntouched DEF CanWrite, Unlocked
  <1>11. Owed'
    <2>1. ASSUME NEW t \in hist.owed
          PROVE  /\ completed'[t] # 0 /\ \A q \in Processes : maint'[q].cutoff <= completed'[t]
                 /\ DonesOf(t)' # {} => \E m \in DonesOf(t)' : Last(t, m)'
      <3>1. \A q \in Processes : maint'[q].cutoff <= completed[t]
        BY <1>1, <1>3 DEF Owed
      <3>2. \A d \in DonesOf(t) : journal'[d] = journal[d] /\ DonesOf(t)' = DonesOf(t)
        BY <1>5, <1>6
      <3>. QED
        BY <1>1, <1>3, <1>5, <1>6, <3>1, <3>2, OwedKept
    <2>. QED
      BY <1>4, <2>1 DEF Owed
  <1>. QED
    BY <1>7, <1>8, <1>9, <1>10, <1>11 DEF Kept, Queued

\* A trigger is queued under a number above every completion's.
LEMMA RecordTriggerKept ==
  ASSUME IInv, Kept, NEW t \in Triggers, RecordTrigger(t)
  PROVE  Kept'
  <1>1. Early /\ LostGone /\ Timed /\ Settled /\ Derived /\ Owed
    BY DEF Kept, Queued
  <1>2. "trigger" \in Kinds /\ {} \in SUBSET Probes /\ "trigger" \notin {"trigger_done", "none"}
    BY DEF Kinds
  <1>3. /\ CanWrite(Agent) /\ Insert(Row("trigger", now, t, {}))
        /\ UNCHANGED <<version, completed, maint, tx>>
        /\ pending' = [pending EXCEPT ![t] = nextSeq] /\ pending[t] = 0
    BY DEF RecordTrigger, EventSeq, Seen
  <1>4. hist'.lost = hist.lost /\ hist'.astray = hist.astray \ {t} /\ hist'.owed = hist.owed \ {t}
    BY DEF RecordTrigger, History
  <1>5. /\ hist.lost \subseteq Triggers /\ hist.owed \subseteq Triggers
        /\ version = schemaVersion /\ pending \in [Triggers -> Nat]
    BY <1>3, ControlAssumption, WriterIsCurrent DEF IInv, Shape, HistType, CanWrite
  <1>6. /\ nextSeq \in Seqs /\ nextSeq \in Int
        /\ \A u \in Triggers :
             /\ \A s \in EventsOf(u) \union DonesOf(u) : s < nextSeq /\ journal'[s] = journal[s]
             /\ EventsOf(u)' = IF u = t THEN EventsOf(u) \union {nextSeq} ELSE EventsOf(u)
             /\ DonesOf(u)' = DonesOf(u)
    BY <1>2, <1>3, InsertRows
  <1>7. \A u \in Triggers : pending'[u] = IF u = t THEN nextSeq ELSE pending[u]
    BY <1>3, <1>5
  <1>8. nextSeq # 0
    BY <1>6, ControlAssumption DEF Seqs
  <1>9. t \notin hist.lost
    BY <1>1, <1>3 DEF LostGone
  <1>10. Early' /\ LostGone'
    BY <1>1, <1>3, <1>4, <1>5, <1>6, <1>7, <1>9 DEF Early, LostGone, schemaVersion
  <1>11. Timed'
    BY <1>1, <1>2, <1>3, InsertTimed
  <1>12. Settled'
    <2>1. SUFFICES ASSUME NEW u \in Triggers, u \notin hist.lost, u \notin hist.astray \ {t}
                   PROVE  IF pending'[u] # 0 THEN \A d \in DonesOf(u)' : d < pending'[u]
                          ELSE \A s \in EventsOf(u)' :
                                 /\ \A w \in Triggers : pending'[w] # s
                                 /\ \E d \in DonesOf(u)' : s < d /\ journal'[s].at <= journal'[d].at
      BY <1>4 DEF Settled
    <2>2. CASE u = t
      BY <1>6, <1>7, <1>8, <2>2
    <2>3. CASE u # t
      <3>1. CASE pending[u] # 0
        BY <1>1, <1>5, <1>6, <1>7, <2>1, <2>3, <3>1 DEF Settled
      <3>2. CASE pending[u] = 0
        <4>1. ASSUME NEW s \in EventsOf(u), NEW w \in Triggers PROVE pending'[w] # s
          <5>1. pending[w] # s
            BY <1>1, <1>5, <2>1, <2>3, <3>2 DEF Settled
          <5>2. s < nextSeq
            BY <1>6
          <5>3. s # nextSeq
            BY <1>6, <5>2
          <5>. QED
            BY <1>7, <5>1, <5>3
        <4>2. ASSUME NEW s \in EventsOf(u)
              PROVE  \E d \in DonesOf(u) : s < d /\ journal'[s].at <= journal'[d].at
          <5>1. PICK d \in DonesOf(u) : s < d /\ journal[s].at <= journal[d].at
            BY <1>1, <1>5, <2>1, <2>3, <3>2 DEF Settled
          <5>. QED
            BY <1>6, <5>1
        <4>. QED
          BY <1>6, <1>7, <2>3, <3>2, <4>1, <4>2
      <3>. QED
        BY <3>1, <3>2
    <2>. QED
      BY <2>2, <2>3
  <1>13. Derived'
    BY <1>1, <1>3, DerivedUntouched DEF CanWrite, Unlocked
  <1>14. Owed'
    <2>1. ASSUME NEW u \in hist.owed
          PROVE  /\ completed'[u] # 0 /\ \A q \in Processes : maint'[q].cutoff <= completed'[u]
                 /\ DonesOf(u)' # {} => \E m \in DonesOf(u)' : Last(u, m)'
      <3>1. \A q \in Processes : maint'[q].cutoff <= completed[u]
        BY <1>1, <1>3 DEF Owed
      <3>2. ASSUME NEW d \in DonesOf(u), NEW w \in Triggers, pending'[w] = d PROVE pending[w] = d
        <4>1. d < nextSeq
          BY <1>5, <1>6
        <4>2. d # nextSeq
          BY <1>6, <4>1
        <4>. QED
          BY <1>7, <3>2, <4>2
      <3>3. DonesOf(u)' = DonesOf(u) /\ \A d \in DonesOf(u) : journal'[d] = journal[d]
        BY <1>5, <1>6
      <3>. QED
        BY <1>1, <1>3, <3>1, <3>2, <3>3, OwedKept
    <2>. QED
      BY <1>4, <2>1 DEF Owed
  <1>. QED
    BY <1>10, <1>11, <1>12, <1>13, <1>14 DEF Kept, Queued

\* A corrupt row leaves the queue, and its trigger is astray.
LEMMA PendingTriggersKept ==
  ASSUME IInv, Kept, NEW corrupt \in SUBSET Triggers, PendingTriggers(corrupt)
  PROVE  Kept'
  <1>1. Early /\ LostGone /\ Timed /\ Settled /\ Derived /\ Owed
    BY DEF Kept, Queued
  <1>2. UNCHANGED <<version, journal, completed, maint, tx>>
    BY DEF PendingTriggers
  <1>3. /\ hist'.lost = hist.lost \ corrupt /\ hist'.astray = hist.astray \union corrupt
        /\ hist'.owed = hist.owed
    BY DEF PendingTriggers, History
  <1>4. /\ hist.lost \subseteq Triggers /\ hist.owed \subseteq Triggers /\ version = schemaVersion
    BY ControlAssumption, WriterIsCurrent DEF IInv, Shape, HistType, PendingTriggers
  <1>5. \A t \in Triggers : pending'[t] = IF t \in corrupt THEN 0 ELSE pending[t]
    BY DEF PendingTriggers
  <1>6. /\ \A k : Of(k)' = Of(k)
        /\ \A t : EventsOf(t)' = EventsOf(t) /\ DonesOf(t)' = DonesOf(t)
    BY <1>2 DEF EventsOf, DonesOf, Of
  <1>7. Early' /\ LostGone' /\ Timed'
    BY <1>1, <1>2, <1>3, <1>4, <1>5, <1>6 DEF Early, LostGone, Timed, schemaVersion
  <1>8. Settled'
    <2>1. SUFFICES ASSUME NEW t \in Triggers, t \notin hist.lost, t \notin hist.astray, t \notin corrupt
                   PROVE  IF pending'[t] # 0 THEN \A d \in DonesOf(t) : d < pending'[t]
                          ELSE \A s \in EventsOf(t) :
                                 /\ \A u \in Triggers : pending'[u] # s
                                 /\ \E d \in DonesOf(t) : s < d /\ journal[s].at <= journal[d].at
      BY <1>2, <1>3, <1>6 DEF Settled
    <2>2. IF pending[t] # 0 THEN \A d \in DonesOf(t) : d < pending[t]
          ELSE \A s \in EventsOf(t) :
                 /\ \A u \in Triggers : pending[u] # s
                 /\ \E d \in DonesOf(t) : s < d /\ journal[s].at <= journal[d].at
      BY <1>1, <1>4, <2>1 DEF Settled
    <2>3. \A s \in EventsOf(t) : s # 0
      BY RowsApart
    <2>. QED
      BY <1>5, <2>1, <2>2, <2>3
  <1>9. Derived'
    BY <1>1, <1>2, DerivedUntouched
  <1>10. Owed'
    <2>1. ASSUME NEW t \in hist.owed
          PROVE  /\ completed'[t] # 0 /\ \A q \in Processes : maint'[q].cutoff <= completed'[t]
                 /\ DonesOf(t)' # {} => \E m \in DonesOf(t)' : Last(t, m)'
      <3>1. \A q \in Processes : maint'[q].cutoff <= completed[t]
        BY <1>1, <1>2 DEF Owed
      <3>2. \A d \in DonesOf(t) : \A u \in Triggers : pending'[u] = d => pending[u] = d
        BY <1>4, <1>5, RowsApart
      <3>. QED
        BY <1>1, <1>2, <1>6, <3>1, <3>2, OwedKept
    <2>. QED
      BY <1>3, <2>1 DEF Owed
  <1>. QED
    BY <1>7, <1>8, <1>9, <1>10 DEF Kept, Queued

\* A completion above every event of its trigger, and the last of its kind.
LEMMA CompleteTriggersKept ==
  ASSUME IInv, Kept, NEW t \in Triggers, CompleteTriggers(t)
  PROVE  Kept'
  <1>1. Early /\ LostGone /\ Timed /\ Settled /\ Derived /\ Owed
    BY DEF Kept, Queued
  <1>2. /\ "trigger_done" \in Kinds /\ {} \in SUBSET Probes
        /\ "trigger_done" \notin {"trigger", "none"}
    BY DEF Kinds
  <1>3. /\ CanWrite(Agent) /\ Insert(Row("trigger_done", now, t, {}))
        /\ UNCHANGED <<version, maint, tx>>
    BY DEF CompleteTriggers
  <1>4. /\ hist'.lost = hist.lost \ {t}
        /\ hist'.astray = IF Shielded(EventsOf(t)) \/ \E s \in EventsOf(t) : journal[s].at > now
                            THEN hist.astray \union {t} ELSE hist.astray \ {t}
        /\ hist'.owed = IF Shielded(DonesOf(t)) \/ \E p \in Processes : maint[p].cutoff > now
                          THEN hist.owed \ {t} ELSE hist.owed \union {t}
    BY DEF CompleteTriggers, History
  <1>5. /\ hist.lost \subseteq Triggers /\ hist.owed \subseteq Triggers
        /\ version = schemaVersion /\ pending \in [Triggers -> Nat]
        /\ completed \in [Triggers -> 0 .. MaxTime] /\ now \in 0 .. MaxTime /\ now # 0 /\ now \in Int
        /\ journal \in [Seqs -> RowType] /\ maint \in [Processes -> MaintType]
    BY <1>3, ControlAssumption, WriterIsCurrent DEF IInv, Shape, HistType, CanWrite, Times
  <1>6. /\ nextSeq \in Seqs /\ nextSeq \in Int /\ journal'[nextSeq].at = now
        /\ \A u \in Triggers :
             /\ \A s \in EventsOf(u) \union DonesOf(u) : s < nextSeq /\ journal'[s] = journal[s]
             /\ EventsOf(u)' = EventsOf(u)
             /\ DonesOf(u)' = IF u = t THEN DonesOf(u) \union {nextSeq} ELSE DonesOf(u)
    BY <1>2, <1>3, InsertRows
  <1>7. /\ pending' = [pending EXCEPT ![t] = 0] /\ completed' = [completed EXCEPT ![t] = now]
    <2>1. Tables \in TableType
      BY ShapeType DEF IInv
    <2>2. /\ Completion(t).pending = [Tables.pending EXCEPT ![t] = 0]
          /\ Completion(t).completed = [Tables.completed EXCEPT ![t] = now]
      BY <1>5, <2>1, CompleteIs, Zenon DEF Completion
    <2>3. Tables.pending = pending /\ Tables.completed = completed
      BY DEF Tables, TablesOf
    <2>. QED
      BY <2>2, <2>3 DEF CompleteTriggers
  <1>8. \A u \in Triggers : /\ pending'[u] = IF u = t THEN 0 ELSE pending[u]
                            /\ completed'[u] = IF u = t THEN now ELSE completed[u]
    BY <1>5, <1>7
  <1>9. Early' /\ LostGone'
    BY <1>1, <1>3, <1>4, <1>5, <1>6, <1>8 DEF Early, LostGone, schemaVersion
  <1>10. Timed'
    BY <1>1, <1>2, <1>3, InsertTimed
  <1>11. Settled'
    <2>1. SUFFICES ASSUME NEW u \in Triggers, u \notin hist'.lost, u \notin hist'.astray
                   PROVE  IF pending'[u] # 0 THEN \A d \in DonesOf(u)' : d < pending'[u]
                          ELSE \A s \in EventsOf(u)' :
                                 /\ \A w \in Triggers : pending'[w] # s
                                 /\ \E d \in DonesOf(u)' : s < d /\ journal'[s].at <= journal'[d].at
      BY DEF Settled
    <2>2. CASE u = t
      <3>1. ~Shielded(EventsOf(t)) /\ ~ \E s \in EventsOf(t) : journal[s].at > now
        BY <1>4, <2>1, <2>2
      <3>2. ASSUME NEW s \in EventsOf(t), NEW w \in Triggers PROVE pending'[w] # s
        <4>1. CASE w = t
          BY <1>8, <4>1, RowsApart
        <4>2. CASE w # t /\ w \in hist.lost
          BY <1>8, <3>1, <4>2 DEF Shielded
        <4>3. CASE w # t /\ w \notin hist.lost
          BY <1>5, <1>8, <4>3, QueueNames
        <4>. QED
          BY <4>1, <4>2, <4>3
      <3>3. ASSUME NEW s \in EventsOf(t)
            PROVE  s < nextSeq /\ journal'[s].at <= journal'[nextSeq].at
        <4>1. s < nextSeq /\ journal'[s] = journal[s]
          BY <1>6
        <4>2. ~ (journal[s].at > now)
          BY <3>1
        <4>3. journal[s].at \in Int
          BY <1>5, RowsApart DEF RowType
        <4>. QED
          BY <1>5, <1>6, <4>1, <4>2, <4>3
      <3>. QED
        BY <1>6, <1>8, <2>2, <3>2, <3>3
    <2>3. CASE u # t
      <3>0. u \notin hist.lost /\ u \notin hist.astray
        BY <1>4, <2>1, <2>3
      <3>1. CASE pending[u] # 0
        BY <1>1, <1>5, <1>6, <1>8, <2>3, <3>0, <3>1 DEF Settled
      <3>2. CASE pending[u] = 0
        <4>1. ASSUME NEW s \in EventsOf(u), NEW w \in Triggers PROVE pending'[w] # s
          <5>1. pending[w] # s /\ s # 0
            BY <1>1, <1>5, <3>0, <3>2, RowsApart DEF Settled
          <5>. QED
            BY <1>8, <5>1
        <4>2. ASSUME NEW s \in EventsOf(u)
              PROVE  \E d \in DonesOf(u) : s < d /\ journal'[s].at <= journal'[d].at
          <5>1. PICK d \in DonesOf(u) : s < d /\ journal[s].at <= journal[d].at
            BY <1>1, <1>5, <3>0, <3>2 DEF Settled
          <5>. QED
            BY <1>6, <5>1
        <4>. QED
          BY <1>6, <1>8, <2>3, <3>2, <4>1, <4>2
      <3>. QED
        BY <3>1, <3>2
    <2>. QED
      BY <2>2, <2>3
  <1>12. Derived'
    BY <1>1, <1>3, DerivedUntouched DEF CanWrite, Unlocked
  <1>13. Owed'
    <2>1. ASSUME NEW u \in hist'.owed
          PROVE  /\ completed'[u] # 0 /\ \A q \in Processes : maint'[q].cutoff <= completed'[u]
                 /\ DonesOf(u)' # {} => \E m \in DonesOf(u)' : Last(u, m)'
      <3>1. CASE u = t
        <4>1. ~Shielded(DonesOf(t)) /\ ~ \E p \in Processes : maint[p].cutoff > now
          BY <1>4, <2>1, <3>1
        <4>2. \A q \in Processes : maint'[q].cutoff <= now
          <5>1. \A q \in Processes : maint[q].cutoff \in Int
            BY <1>5 DEF MaintType
          <5>. QED
            BY <1>3, <1>5, <4>1, <5>1
        <4>3. ASSUME NEW d \in DonesOf(t)', d # nextSeq
              PROVE  d < nextSeq /\ \A w \in Triggers : pending'[w] # d
          <5>1. d \in DonesOf(t) /\ d < nextSeq
            BY <1>6, <4>3
          <5>2. ASSUME NEW w \in Triggers PROVE pending'[w] # d
            <6>1. CASE w = t
              BY <1>8, <5>1, <6>1, RowsApart
            <6>2. CASE w # t /\ w \in hist.lost
              BY <1>8, <4>1, <5>1, <6>2 DEF Shielded
            <6>3. CASE w # t /\ w \notin hist.lost
              BY <1>5, <1>8, <5>1, <6>3, QueueNames
            <6>. QED
              BY <6>1, <6>2, <6>3
          <5>. QED
            BY <5>1, <5>2
        <4>4. PICK n \in Seqs : n = nextSeq
          BY <1>6
        <4>5. journal'[n].at = completed'[t] /\ n \in DonesOf(t)'
          BY <1>6, <1>8, <4>4
        <4>6. Last(t, n)'
          BY <4>3, <4>4, <4>5 DEF Last
        <4>. QED
          BY <1>5, <1>8, <3>1, <4>2, <4>5, <4>6
      <3>2. CASE u # t
        <4>0. u \in hist.owed /\ u \in Triggers
          BY <1>4, <1>5, <2>1, <3>2
        <4>1. \A q \in Processes : maint'[q].cutoff <= completed[u]
          BY <1>1, <1>3, <4>0 DEF Owed
        <4>2. \A d \in DonesOf(u) : \A w \in Triggers : pending'[w] = d => pending[w] = d
          BY <1>8, <4>0, RowsApart
        <4>3. /\ DonesOf(u)' = DonesOf(u) /\ \A d \in DonesOf(u) : journal'[d] = journal[d]
              /\ completed'[u] = completed[u]
          BY <1>6, <1>8, <3>2, <4>0
        <4>. QED
          BY <1>1, <4>0, <4>1, <4>2, <4>3, OwedKept
      <3>. QED
        BY <3>1, <3>2
    <2>. QED
      BY <2>1 DEF Owed
  <1>. QED
    BY <1>9, <1>10, <1>11, <1>12, <1>13 DEF Kept, Queued

\* Pruning goes from the oldest up, so a completion never goes before the
\* events it completes, nor the last one before the others.
LEMMA PruneKept ==
  ASSUME IInv, Kept, NEW p \in Processes, CanWrite(p), NEW X, NEW n \in Nat, X \subseteq Prunable,
         Delete(Oldest(X, n)),
         UNCHANGED <<version, pending, completed, tx, hist>>,
         \A s \in Prunable : \A d \in X : journal[s].at <= journal[d].at => s \in X,
         X = Prunable \/ \A t \in hist.owed : \A d \in X : journal[d].at # completed[t],
         \A q \in Processes : maint'[q].cutoff = maint[q].cutoff
  PROVE  Kept'
  <1>. DEFINE rows == Oldest(X, n)
  <1>1. Early /\ LostGone /\ Timed /\ Settled /\ Derived /\ Owed
    BY DEF Kept, Queued
  <1>2. /\ hist.lost \subseteq Triggers /\ hist.owed \subseteq Triggers /\ version = schemaVersion
    BY WriterIsCurrent DEF IInv, Shape, HistType, CanWrite
  <1>3. \A s \in Seqs : journal'[s] = IF s \in rows THEN NoRow ELSE journal[s]
    BY DeleteShape DEF IInv
  <1>4. rows \subseteq X /\ X \in SUBSET Seqs
    BY DEF Oldest, Prunable, Of
  <1>5. \A d \in rows : \A s \in X : s < d => s \in rows
    BY <1>4, OldestIsLower
  <1>. HIDE DEF rows
  <1>6. /\ \A t \in Triggers : EventsOf(t)' = EventsOf(t) \ rows /\ DonesOf(t)' = DonesOf(t) \ rows
        /\ Of("trigger_done")' \subseteq Of("trigger_done")
    BY <1>3, NoRowType DEF EventsOf, DonesOf, Of
  <1>7. \A s \in Seqs \ rows : journal'[s] = journal[s]
    BY <1>3
  <1>8. Timed'
    BY <1>1, <1>3, NoRowType DEF Timed, Of
  <1>9. Early' /\ LostGone'
    BY <1>1, <1>2, <1>6 DEF Early, LostGone, schemaVersion
  <1>10. Settled'
    <2>1. SUFFICES ASSUME NEW t \in Triggers, t \notin hist.lost, t \notin hist.astray
                   PROVE  IF pending[t] # 0 THEN \A d \in DonesOf(t)' : d < pending[t]
                          ELSE \A s \in EventsOf(t)' :
                                 /\ \A u \in Triggers : pending[u] # s
                                 /\ \E d \in DonesOf(t)' : s < d /\ journal'[s].at <= journal'[d].at
      BY DEF Settled
    <2>2. CASE pending[t] # 0
      BY <1>1, <1>2, <1>6, <2>1, <2>2 DEF Settled
    <2>3. CASE pending[t] = 0
      <3>1. ASSUME NEW s \in EventsOf(t)'
            PROVE  /\ \A u \in Triggers : pending[u] # s
                   /\ \E d \in DonesOf(t)' : s < d /\ journal'[s].at <= journal'[d].at
        <4>1. s \in EventsOf(t) /\ s \notin rows
          BY <1>6
        <4>2. \A u \in Triggers : pending[u] # s
          BY <1>1, <1>2, <2>1, <2>3, <4>1 DEF Settled
        <4>3. PICK d \in DonesOf(t) : s < d /\ journal[s].at <= journal[d].at
          BY <1>1, <1>2, <2>1, <2>3, <4>1 DEF Settled
        <4>4. s \in Prunable
          BY <4>1, <4>2 DEF Prunable, EventsOf
        <4>5. d \notin rows
          BY <1>4, <1>5, <4>1, <4>3, <4>4
        <4>6. d \in DonesOf(t)' /\ journal'[s] = journal[s] /\ journal'[d] = journal[d]
          BY <1>6, <1>7, <4>1, <4>5, RowsApart
        <4>. QED
          BY <4>2, <4>3, <4>6
      <3>. QED
        BY <2>3, <3>1
    <2>. QED
      BY <2>2, <2>3
  <1>11. Derived'
    BY <1>1, DerivedUntouched DEF CanWrite, Unlocked
  <1>12. Owed'
    <2>1. ASSUME NEW t \in hist.owed
          PROVE  /\ completed[t] # 0 /\ \A q \in Processes : maint'[q].cutoff <= completed[t]
                 /\ DonesOf(t)' # {} => \E m \in DonesOf(t)' : Last(t, m)'
      <3>1. completed[t] # 0 /\ \A q \in Processes : maint'[q].cutoff <= completed[t]
        BY <1>1 DEF Owed
      <3>2. ASSUME DonesOf(t)' # {} PROVE \E m \in DonesOf(t)' : Last(t, m)'
        <4>0. t \in Triggers
          BY <1>2
        <4>1. PICK m \in DonesOf(t) : Last(t, m)
          BY <1>1, <1>6, <3>2, <4>0 DEF Owed
        <4>2. m \notin rows
          <5>1. SUFFICES ASSUME m \in rows PROVE FALSE
            OBVIOUS
          <5>2. X = Prunable
            BY <1>4, <4>1, <5>1 DEF Last
          <5>3. ASSUME NEW d \in DonesOf(t) PROVE d \in rows
            <6>1. CASE d = m
              BY <5>1, <6>1
            <6>2. CASE d # m
              <7>1. d < m /\ \A u \in Triggers : pending[u] # d
                BY <4>1, <6>2 DEF Last
              <7>2. d \in Prunable
                BY <7>1 DEF Prunable, DonesOf
              <7>. QED
                BY <1>5, <5>1, <5>2, <7>1, <7>2
            <6>. QED
              BY <6>1, <6>2
          <5>. QED
            BY <1>6, <3>2, <4>0, <5>3
        <4>3. m \in DonesOf(t)' /\ journal'[m] = journal[m]
          BY <1>6, <1>7, <4>0, <4>2, RowsApart
        <4>4. \A d \in DonesOf(t)' : d \in DonesOf(t)
          BY <1>6, <4>0
        <4>5. Last(t, m)'
          BY <4>1, <4>3, <4>4 DEF Last
        <4>. QED
          BY <4>3, <4>5
      <3>. QED
        BY <3>1, <3>2
    <2>. QED
      BY <2>1 DEF Owed
  <1>. QED
    BY <1>8, <1>9, <1>10, <1>11, <1>12 DEF Kept, Queued

\* Maintain.
LEMMA MaintKept ==
  ASSUME IInv, Kept, NEW p \in Processes,
         \/ MaintainStart(p) \/ PruneCompleted(p) \/ CollapseAssignments(p) \/ MaintainEnds(p)
         \/ PruneExpired(p) \/ PruneForSize(p)
  PROVE  Kept'
  <1>1. Queued /\ Derived /\ Owed /\ Early /\ LostGone /\ Timed /\ Settled
    BY DEF Kept, Queued
  <1>2. /\ hist.owed \subseteq Triggers /\ hist.lost \subseteq Triggers
        /\ completed \in [Triggers -> 0 .. MaxTime]
        /\ journal \in [Seqs -> RowType] /\ maint \in [Processes -> MaintType]
        /\ now \in Int /\ PruneChunk \in Nat /\ Retention \in Nat
    BY ControlAssumption DEF IInv, Shape, HistType, Times
  <1>3. \A q \in Processes : maint[q].cutoff \in Int
    BY <1>2 DEF MaintType
  <1>4. Prunable \subseteq Seqs
    BY DEF Prunable, Of
  <1>5. \A s \in Seqs : journal[s].at \in Int
    BY <1>2 DEF RowType
  <1>6. CASE MaintainStart(p)
    <2>1. /\ UNCHANGED <<version, journal, pending, completed, tx>>
          /\ hist'.lost = hist.lost /\ hist'.astray = hist.astray
          /\ hist'.owed = {t \in hist.owed : completed[t] >= now - Retention}
      BY <1>6 DEF MaintainStart, dbVars, History
    <2>2. \A q \in Processes : maint'[q].cutoff = IF q = p THEN now - Retention ELSE maint[q].cutoff
      BY <1>2, <1>6 DEF MaintainStart, MaintainAt
    <2>3. Queued' /\ Derived'
      BY <1>1, <2>1, QueuedUntouched, DerivedUntouched
    <2>4. ASSUME NEW t \in hist'.owed
          PROVE  /\ completed'[t] # 0 /\ \A q \in Processes : maint'[q].cutoff <= completed'[t]
                 /\ DonesOf(t)' # {} => \E m \in DonesOf(t)' : Last(t, m)'
      <3>1. t \in hist.owed /\ completed[t] >= now - Retention /\ DonesOf(t)' = DonesOf(t)
        BY <2>1 DEF DonesOf, Of
      <3>2. completed[t] \in Int
        BY <1>2, <3>1
      <3>3. \A q \in Processes : maint'[q].cutoff <= completed[t]
        BY <1>1, <1>2, <2>2, <3>1, <3>2 DEF Owed
      <3>. QED
        BY <1>1, <2>1, <3>1, <3>3, OwedKept
    <2>. QED
      BY <2>3, <2>4 DEF Kept, Owed
  <1>7. CASE PruneCompleted(p)
    <2>1. UNCHANGED <<version, journal, pending, tx, hist>>
      BY <1>7 DEF PruneCompleted
    <2>2. \A q \in Processes : maint'[q].cutoff = IF q = p THEN 0 ELSE maint[q].cutoff
      BY <1>2, <1>7 DEF PruneCompleted, MaintainAt
    <2>3. Queued' /\ Derived'
      BY <1>1, <2>1, QueuedUntouched, DerivedUntouched
    <2>4. ASSUME NEW t \in hist.owed
          PROVE  /\ completed'[t] # 0 /\ \A q \in Processes : maint'[q].cutoff <= completed'[t]
                 /\ DonesOf(t)' # {} => \E m \in DonesOf(t)' : Last(t, m)'
      <3>1. completed[t] \in Int /\ 0 <= completed[t] /\ maint[p].cutoff <= completed[t]
        BY <1>1, <1>2 DEF Owed
      <3>2. completed'[t] = completed[t]
        BY <1>2, <1>3, <1>7, <3>1 DEF PruneCompleted
      <3>3. \A q \in Processes : maint'[q].cutoff <= completed[t]
        BY <1>1, <2>2, <3>1 DEF Owed
      <3>4. DonesOf(t)' = DonesOf(t)
        BY <2>1 DEF DonesOf, Of
      <3>. QED
        BY <1>1, <2>1, <3>2, <3>3, <3>4, OwedKept
    <2>. QED
      BY <2>1, <2>3, <2>4 DEF Kept, Owed
  <1>8. CASE MaintainEnds(p)
    <2>1. UNCHANGED <<version, journal, pending, completed, tx, hist>>
      BY <1>8 DEF MaintainEnds, dbVars
    <2>2. \A q \in Processes : maint'[q].cutoff = maint[q].cutoff \/ maint'[q].cutoff = 0
      BY <1>2, <1>8 DEF MaintainEnds, IdleMaint, MaintainAt
    <2>. QED
      BY <1>1, <2>1, <2>2, QueuedUntouched, DerivedUntouched, OwedUntouched DEF Kept
  <1>9. ASSUME NEW pc, Goto(p, pc) PROVE \A q \in Processes : maint'[q].cutoff = maint[q].cutoff
    BY <1>2, <1>9 DEF Goto, MaintainAt
  <1>10. CASE PruneExpired(p)
    <2>. DEFINE X == {s \in Prunable : journal[s].at < maint[p].cutoff}
    <2>1. /\ CanWrite(p) /\ Delete(Oldest(X, PruneChunk))
          /\ UNCHANGED <<version, pending, completed, tx, hist>>
      BY <1>10 DEF PruneExpired
    <2>2. \A q \in Processes : maint'[q].cutoff = maint[q].cutoff
      BY <1>9, <1>10 DEF PruneExpired
    <2>3. ASSUME NEW s \in Prunable, NEW d \in X, journal[s].at <= journal[d].at PROVE s \in X
      <3>1. journal[s].at \in Int /\ journal[d].at \in Int /\ journal[d].at < maint[p].cutoff
        BY <1>4, <1>5
      <3>. QED
        BY <1>3, <2>3, <3>1
    <2>4. ASSUME NEW t \in hist.owed, NEW d \in X PROVE journal[d].at # completed[t]
      <3>1. maint[p].cutoff <= completed[t] /\ journal[d].at < maint[p].cutoff
        BY <1>1 DEF Owed
      <3>2. completed[t] \in Int /\ journal[d].at \in Int /\ maint[p].cutoff \in Int
        BY <1>2, <1>3, <1>4, <1>5
      <3>. QED
        BY <3>1, <3>2
    <2>5. X \subseteq Prunable
      OBVIOUS
    <2>. HIDE DEF X
    <2>. QED
      BY <1>2, <2>1, <2>2, <2>3, <2>4, <2>5, PruneKept
  <1>11. CASE PruneForSize(p)
    <2>1. /\ CanWrite(p) /\ Delete(Oldest(Prunable, PruneChunk))
          /\ UNCHANGED <<version, pending, completed, tx, hist, maint>>
      BY <1>11 DEF PruneForSize
    <2>. QED
      BY <1>2, <2>1, PruneKept
  <1>12. CASE CollapseAssignments(p)
    <2>1. /\ CanWrite(p) /\ Delete(Superseded)
          /\ UNCHANGED <<version, pending, completed, tx, hist>>
      BY <1>12 DEF CollapseAssignments
    <2>2. \A q \in Processes : maint'[q].cutoff = maint[q].cutoff
      BY <1>9, <1>12 DEF CollapseAssignments
    <2>3. \A s \in Seqs : journal'[s] = IF s \in Superseded THEN NoRow ELSE journal[s]
      BY <2>1, DeleteShape DEF IInv
    <2>4. \A s \in Seqs : journal[s].kind # "assignment" => journal'[s] = journal[s]
      BY <2>3 DEF Superseded, Of
    <2>5. \A s \in Seqs : journal[s].kind = "assignment" => journal'[s].kind \in {"assignment", "none"}
      BY <2>3, NoRowType
    <2>6. Of("trigger_done")' = Of("trigger_done") /\ Of("trigger")' = Of("trigger")
      BY <2>4, <2>5 DEF Of
    <2>7. \A s \in Of("trigger") \union Of("trigger_done") : journal'[s] = journal[s]
      BY <2>4 DEF Of
    <2>8. \A t \in Triggers : EventsOf(t)' = EventsOf(t) /\ DonesOf(t)' = DonesOf(t)
      BY <2>6, <2>7 DEF EventsOf, DonesOf
    <2>9. \A t \in Triggers : \A s \in EventsOf(t) \union DonesOf(t) : journal'[s] = journal[s]
      BY <2>7 DEF EventsOf, DonesOf
    <2>10. Early' /\ LostGone' /\ Timed'
      BY <1>1, <1>2, <2>1, <2>6, <2>7, <2>8 DEF Early, LostGone, Timed
    <2>11. Settled'
      BY <1>1, <2>1, <2>8, <2>9 DEF Settled
    <2>12. Derived'
      BY <1>1, <2>1, DerivedUntouched DEF CanWrite, Unlocked
    <2>13. ASSUME NEW t \in hist.owed
           PROVE  /\ completed'[t] # 0 /\ \A q \in Processes : maint'[q].cutoff <= completed'[t]
                  /\ DonesOf(t)' # {} => \E m \in DonesOf(t)' : Last(t, m)'
      <3>1. \A q \in Processes : maint'[q].cutoff <= completed[t]
        BY <1>1, <2>2 DEF Owed
      <3>2. DonesOf(t)' = DonesOf(t) /\ \A d \in DonesOf(t) : journal'[d] = journal[d]
        BY <1>2, <2>8, <2>9
      <3>. QED
        BY <1>1, <2>1, <3>1, <3>2, OwedKept
    <2>. QED
      BY <2>1, <2>10, <2>11, <2>12, <2>13 DEF Kept, Queued, Owed
  <1>. QED
    BY <1>6, <1>7, <1>8, <1>10, <1>11, <1>12

\* What replaying an event does to the queue and to the completions.
LEMMA ReplayedTables ==
  ASSUME Shape, NEW s \in Control, NEW t \in Triggers
  PROVE  /\ Replayed(s).pending[t] = IF s \in DonesOf(t) THEN 0
                                     ELSE IF s \in EventsOf(t) /\ tx.tables.pending[t] = 0 THEN s
                                     ELSE tx.tables.pending[t]
         /\ Replayed(s).completed[t] = IF s \in DonesOf(t) THEN journal[s].at ELSE tx.tables.completed[t]
  <1>. DEFINE row == journal[s]
              T == tx.tables
  <1>1. s \in Seqs /\ row \in RowType /\ T \in TableType
    BY DEF Shape, Control, Of, TxType
  <1>2. row.kind \in {"assignment", "trigger", "trigger_done"}
    BY DEF Control, Of
  <1>3. row.kind # "assignment" => row.trig \in Triggers
    BY <1>1, <1>2 DEF Shape, Of
  <1>4. row.at \in 0 .. MaxTime
    BY <1>1 DEF RowType
  <1>5. T.pending \in [Triggers -> Nat] /\ T.completed \in [Triggers -> 0 .. MaxTime]
    BY <1>1 DEF TableType
  <1>6. /\ s \in EventsOf(t) <=> row.kind = "trigger" /\ row.trig = t
        /\ s \in DonesOf(t) <=> row.kind = "trigger_done" /\ row.trig = t
    BY <1>1 DEF EventsOf, DonesOf, Of
  <1>7. CASE row.kind = "assignment"
    BY <1>6, <1>7 DEF Replayed, TablesOf
  <1>8. CASE row.kind = "trigger"
    <2>1. CASE T.pending[row.trig] # 0
      BY <1>6, <1>8, <2>1 DEF Replayed
    <2>2. CASE T.pending[row.trig] = 0
      <3>1. /\ Replayed(s).pending = [T.pending EXCEPT ![row.trig] = s]
            /\ Replayed(s).completed = T.completed
        BY <1>8, <2>2 DEF Replayed, TablesOf
      <3>. QED
        BY <1>3, <1>5, <1>6, <1>8, <2>2, <3>1
    <2>. QED
      BY <2>1, <2>2
  <1>9. CASE row.kind = "trigger_done"
    <2>1. Replayed(s) = Complete(T, row.trig, row.at)
      BY <1>9 DEF Replayed
    <2>2. /\ Replayed(s).pending = [T.pending EXCEPT ![row.trig] = 0]
          /\ Replayed(s).completed = [T.completed EXCEPT ![row.trig] = row.at]
      <3>1. row.trig \in Triggers /\ row.at \in 0 .. MaxTime /\ T \in TableType
        BY <1>1, <1>3, <1>4, <1>9
      <3>. HIDE DEF row, T
      <3>2. Complete(T, row.trig, row.at).pending = [T.pending EXCEPT ![row.trig] = 0]
        BY <3>1, CompleteIs, Zenon
      <3>3. Complete(T, row.trig, row.at).completed = [T.completed EXCEPT ![row.trig] = row.at]
        BY DEF Complete, TablesOf
      <3>. QED
        BY <2>1, <3>2, <3>3, Zenon
    <2>. QED
      BY <1>3, <1>5, <1>6, <1>9, <2>2
  <1>. QED
    BY <1>2, <1>7, <1>8, <1>9

\* Rebuild replays in order: what it has derived follows the journal.
LEMMA RebuildEventKept ==
  ASSUME IInv, Kept, RebuildEvent
  PROVE  Kept'
  <1>1. Queued /\ Owed /\ Requeuing /\ Recompleting /\ Shape /\ ~Unlocked
    BY DEF Kept, Derived, IInv, RebuildEvent
  <1>2. PICK s \in Ahead : /\ \A u \in Ahead : s <= u
                           /\ tx' = Transaction(tx.who, s, Replayed(s))
    BY DEF RebuildEvent
  <1>3. UNCHANGED <<version, journal, pending, completed, maint, hist>>
    BY DEF RebuildEvent, dbVars
  <1>4. tx'.who = tx.who /\ tx'.pos = s /\ tx'.tables = Replayed(s)
    BY <1>2 DEF Transaction
  <1>5. s \in Control /\ s > tx.pos /\ s \in Int /\ tx.pos \in Int /\ s # 0
    BY <1>1, ControlAssumption DEF Ahead, Control, Of, Seqs, Shape, TxType
  <1>6. Queued' /\ Owed'
    BY <1>1, <1>3, QueuedUntouched, OwedUntouched
  <1>7. \A t : EventsOf(t)' = EventsOf(t) /\ DonesOf(t)' = DonesOf(t)
    BY <1>3 DEF EventsOf, DonesOf, Of
  <1>8. ASSUME NEW t \in Triggers, NEW u \in EventsOf(t) \union DonesOf(t)
        PROVE  (u <= s <=> u <= tx.pos \/ u = s) /\ u \in Int
    <2>1. u \in Control /\ u \in Int
      BY RowsApart DEF Control, EventsOf, DonesOf
    <2>2. ASSUME u > tx.pos PROVE s <= u
      BY <1>2, <2>1, <2>2 DEF Ahead
    <2>. QED
      BY <1>5, <2>1, <2>2
  <1>9. Requeuing'
    <2>1. SUFFICES ASSUME NEW t \in Triggers
                   PROVE  IF Replayed(s).pending[t] # 0
                            THEN \A d \in DonesOf(t) : d <= s => d < Replayed(s).pending[t]
                            ELSE \A e \in EventsOf(t) : e <= s => \E d \in DonesOf(t) : e < d /\ d <= s
      BY <1>4, <1>7 DEF Requeuing
    <2>2. Replayed(s).pending[t] = IF s \in DonesOf(t) THEN 0
                                   ELSE IF s \in EventsOf(t) /\ tx.tables.pending[t] = 0 THEN s
                                   ELSE tx.tables.pending[t]
      BY <1>1, <1>5, ReplayedTables
    <2>3. EventsOf(t) \intersect DonesOf(t) = {}
      BY RowsApart
    <2>4. CASE s \in DonesOf(t)
      <3>1. \A e \in EventsOf(t) : e <= s => e < s
        <4>1. SUFFICES ASSUME NEW e \in EventsOf(t), e <= s PROVE e < s
          OBVIOUS
        <4>2. e # s /\ e \in Int
          BY <2>3, <2>4, RowsApart
        <4>. QED
          BY <1>5, <4>1, <4>2
      <3>. QED
        BY <1>5, <2>2, <2>4, <3>1
    <2>5. CASE s \notin DonesOf(t) /\ s \in EventsOf(t) /\ tx.tables.pending[t] = 0
      <3>1. \A d \in DonesOf(t) : d <= s => d < s
        <4>1. SUFFICES ASSUME NEW d \in DonesOf(t), d <= s PROVE d < s
          OBVIOUS
        <4>2. d # s /\ d \in Int
          BY <2>5, RowsApart
        <4>. QED
          BY <1>5, <4>1, <4>2
      <3>. QED
        BY <1>5, <2>2, <2>5, <3>1
    <2>6. CASE s \notin DonesOf(t) /\ tx.tables.pending[t] # 0
      <3>1. \A d \in DonesOf(t) : d <= s => d <= tx.pos
        BY <1>8, <2>6
      <3>. QED
        BY <1>1, <2>2, <2>6, <3>1 DEF Requeuing
    <2>7. CASE s \notin DonesOf(t) /\ s \notin EventsOf(t) /\ tx.tables.pending[t] = 0
      <3>1. SUFFICES ASSUME NEW e \in EventsOf(t), e <= s PROVE \E d \in DonesOf(t) : e < d /\ d <= s
        BY <2>2, <2>7
      <3>2. e <= tx.pos
        BY <1>8, <2>7, <3>1
      <3>3. PICK d \in DonesOf(t) : e < d /\ d <= tx.pos
        BY <1>1, <2>7, <3>2 DEF Requeuing
      <3>4. d <= s
        BY <1>8, <3>3
      <3>. QED
        BY <3>3, <3>4
    <2>. QED
      BY <2>4, <2>5, <2>6, <2>7
  <1>10. Recompleting'
    <2>1. SUFFICES ASSUME NEW t \in Triggers
                   PROVE  \/ Replayed(s).completed[t] = 0 /\ \A d \in DonesOf(t) : d > s
                          \/ \E m \in DonesOf(t) :
                               /\ m <= s /\ Replayed(s).completed[t] = journal[m].at
                               /\ \A d \in DonesOf(t) : d <= s => d <= m
      BY <1>3, <1>4, <1>7 DEF Recompleting
    <2>2. Replayed(s).completed[t] = IF s \in DonesOf(t) THEN journal[s].at ELSE tx.tables.completed[t]
      BY <1>1, <1>5, ReplayedTables
    <2>3. CASE s \in DonesOf(t)
      BY <1>5, <2>2, <2>3
    <2>4. CASE s \notin DonesOf(t)
      <3>1. \A d \in DonesOf(t) : d \in Int /\ (d <= s <=> d <= tx.pos)
        BY <1>8, <2>4
      <3>2. CASE tx.tables.completed[t] = 0 /\ \A d \in DonesOf(t) : d > tx.pos
        <4>1. \A d \in DonesOf(t) : d > s
          BY <1>5, <3>1, <3>2
        <4>. QED
          BY <2>2, <2>4, <3>2, <4>1
      <3>3. ASSUME NEW m \in DonesOf(t), m <= tx.pos, tx.tables.completed[t] = journal[m].at,
                   \A d \in DonesOf(t) : d <= tx.pos => d <= m
            PROVE  /\ m <= s /\ Replayed(s).completed[t] = journal[m].at
                   /\ \A d \in DonesOf(t) : d <= s => d <= m
        BY <2>2, <2>4, <3>1, <3>3
      <3>. QED
        BY <1>1, <3>2, <3>3 DEF Recompleting
    <2>. QED
      BY <2>3, <2>4
  <1>. QED
    BY <1>6, <1>9, <1>10 DEF Kept, Derived

\* The commit: the derived tables agree with the ones they replace wherever
\* those followed the journal, and repair the rest.
LEMMA RebuildCommitKept ==
  ASSUME IInv, Kept, RebuildCommit
  PROVE  Kept'
  <1>1. /\ Early /\ LostGone /\ Timed /\ Settled /\ Owed /\ Requeuing /\ Recompleting
        /\ Shape /\ Opened /\ Replaying /\ PendingEventKept
    BY DEF Kept, Queued, Derived, IInv
  <1>2. /\ UNCHANGED <<version, journal, maint>> /\ ~Unlocked /\ Ahead = {}
        /\ pending' = tx.tables.pending /\ completed' = tx.tables.completed
    BY DEF RebuildCommit
  <1>3. /\ hist'.lost = {} /\ hist'.astray = {t \in hist.astray : tx.tables.completed[t] # 0}
        /\ hist'.owed = {t \in hist.owed : DonesOf(t) # {}}
    BY DEF RebuildCommit, History
  <1>4. version = schemaVersion /\ hist.owed \subseteq Triggers
    BY <1>1, <1>2 DEF Opened, Shape, HistType
  <1>5. /\ \A k : Of(k)' = Of(k)
        /\ \A t : EventsOf(t)' = EventsOf(t) /\ DonesOf(t)' = DonesOf(t)
    BY <1>2 DEF EventsOf, DonesOf, Of
  <1>6. ASSUME NEW t \in Triggers, NEW u \in EventsOf(t) \union DonesOf(t)
        PROVE  u <= tx.pos /\ u \in Int
    <2>1. u \in Control /\ u \in Int /\ tx.pos \in Int
      BY <1>1, RowsApart DEF Control, EventsOf, DonesOf, Shape, TxType
    <2>2. ~ (u > tx.pos)
      BY <1>2, <2>1 DEF Ahead
    <2>. QED
      BY <2>1, <2>2
  <1>7. \A t \in Triggers :
          IF tx.tables.pending[t] # 0 THEN \A d \in DonesOf(t) : d < tx.tables.pending[t]
          ELSE \A s \in EventsOf(t) : \E d \in DonesOf(t) : s < d
    BY <1>1, <1>2, <1>6 DEF Requeuing
  <1>8. \A t \in Triggers : \A s \in EventsOf(t) : \A u \in Triggers :
          tx.tables.pending[u] = s => u = t
    <2>1. \A u \in Triggers : tx.tables.pending[u] = 0 \/ tx.tables.pending[u] \in EventsOf(u)
      BY <1>1, <1>2 DEF Replaying
    <2>. QED
      BY <2>1, RowsApart
  <1>9. Early' /\ LostGone' /\ Timed'
    BY <1>1, <1>2, <1>3, <1>4, <1>5 DEF Early, LostGone, Timed
  <1>10. Settled'
    <2>1. SUFFICES ASSUME NEW t \in Triggers, t \notin hist'.astray
                   PROVE  IF tx.tables.pending[t] # 0
                            THEN \A d \in DonesOf(t) : d < tx.tables.pending[t]
                            ELSE \A s \in EventsOf(t) :
                                   /\ \A u \in Triggers : tx.tables.pending[u] # s
                                   /\ \E d \in DonesOf(t) : s < d /\ journal[s].at <= journal[d].at
      BY <1>2, <1>5 DEF Settled
    <2>2. CASE tx.tables.pending[t] # 0
      BY <1>7, <2>2
    <2>3. CASE tx.tables.pending[t] = 0
      <3>1. ASSUME NEW s \in EventsOf(t)
            PROVE  /\ \A u \in Triggers : tx.tables.pending[u] # s
                   /\ \E d \in DonesOf(t) : s < d /\ journal[s].at <= journal[d].at
        <4>1. \A u \in Triggers : tx.tables.pending[u] # s
          BY <1>8, <2>3, RowsApart
        <4>2. PICK e \in DonesOf(t) : s < e
          BY <1>7, <2>3
        <4>3. tx.tables.completed[t] # 0
          <5>1. PICK m \in DonesOf(t) : tx.tables.completed[t] = journal[m].at
            <6>1. ~ (e > tx.pos)
              <7>1. e <= tx.pos /\ e \in Int /\ tx.pos \in Int
                BY <1>1, <1>6 DEF Shape, TxType
              <7>. QED
                BY <7>1
            <6>. QED
              BY <1>1, <1>2, <6>1 DEF Recompleting
          <5>. QED
            BY <1>1, <5>1, RowsApart DEF Timed
        <4>4. t \notin hist.astray /\ t \notin hist.lost
          BY <1>1, <1>3, <2>1, <4>3 DEF LostGone
        <4>5. pending[t] = 0
          <5>1. SUFFICES ASSUME pending[t] # 0 PROVE FALSE
            OBVIOUS
          <5>2. pending[t] \in EventsOf(t) /\ \A d \in DonesOf(t) : d < pending[t]
            BY <1>1, <1>4, <4>4, <5>1 DEF PendingEventKept, Settled
          <5>3. PICK d \in DonesOf(t) : pending[t] < d
            BY <1>7, <2>3, <5>2
          <5>4. pending[t] \in Int /\ d \in Int /\ d < pending[t]
            BY <5>2, RowsApart
          <5>. QED
            BY <5>3, <5>4
        <4>6. \E d \in DonesOf(t) : s < d /\ journal[s].at <= journal[d].at
          BY <1>1, <1>4, <4>4, <4>5 DEF Settled
        <4>. QED
          BY <4>1, <4>6
      <3>. QED
        BY <2>3, <3>1
    <2>. QED
      BY <2>2, <2>3
  <1>11. Derived'
    <2>1. tx'.who = NoProcess /\ Derived
      BY NoTablesType DEF RebuildCommit, Kept
    <2>. QED
      BY <2>1, DerivedUntouched
  <1>12. Owed'
    <2>1. ASSUME NEW t \in hist'.owed
          PROVE  /\ completed'[t] # 0 /\ \A q \in Processes : maint'[q].cutoff <= completed'[t]
                 /\ DonesOf(t)' # {} => \E m \in DonesOf(t)' : Last(t, m)'
      <3>0. t \in hist.owed /\ t \in Triggers /\ DonesOf(t) # {}
        BY <1>3, <1>4
      <3>2. PICK n \in DonesOf(t) : /\ tx.tables.completed[t] = journal[n].at
                                    /\ \A d \in DonesOf(t) : d <= n
        <4>1. tx.pos \in Int /\ \A d \in DonesOf(t) : d \in Int /\ d <= tx.pos /\ ~ (d > tx.pos)
          BY <1>1, <1>6, <3>0 DEF Shape, TxType
        <4>. QED
          BY <1>1, <1>2, <3>0, <4>1 DEF Recompleting
      <3>1. t \in hist.owed /\ t \in Triggers /\ tx.tables.completed[t] # 0
        BY <1>1, <3>0, <3>2, RowsApart DEF Timed
      <3>3. PICK m \in DonesOf(t) : Last(t, m)
        BY <1>1, <3>1, <3>2 DEF Owed
      <3>4. n = m
        <4>1. n \in Int /\ m \in Int /\ m <= n /\ (n = m \/ n < m)
          BY <3>1, <3>2, <3>3, RowsApart DEF Last
        <4>. QED
          BY <4>1
      <3>5. completed'[t] = completed[t]
        BY <1>2, <3>2, <3>3, <3>4 DEF Last
      <3>6. \A d \in DonesOf(t) : \A u \in Triggers : pending'[u] = d => pending[u] = d
        <4>1. \A u \in Triggers : tx.tables.pending[u] = 0 \/ tx.tables.pending[u] \in EventsOf(u)
          BY <1>1, <1>2 DEF Replaying
        <4>. QED
          BY <1>2, <3>1, <4>1, RowsApart
      <3>7. \A q \in Processes : maint'[q].cutoff <= completed[t]
        BY <1>1, <1>2, <3>1 DEF Owed
      <3>. QED
        BY <1>1, <1>2, <1>5, <3>1, <3>5, <3>6, <3>7, OwedKept
    <2>. QED
      BY <2>1 DEF Owed
  <1>. QED
    BY <1>9, <1>10, <1>11, <1>12 DEF Kept, Queued

-----------------------------------------------------------------------------
(* The theorems                                                            *)

\* The journal of a version-1 file: the events of the queued triggers, but for
\* the lost ones.
LEMMA OldJournal ==
  ASSUME NEW o \in Origins, NEW n \in 0 .. MaxSeq, NEW gap \in 0 .. MaxGap,
         NEW queued \in SUBSET Triggers, NEW row \in [queued -> 1 .. n], NEW lost \in SUBSET queued,
         OldFile(o, n, gap, queued, row, lost)
  PROVE  /\ journal \in [Seqs -> RowType]
         /\ \A s \in Seqs : journal[s] = NoRow \/ (journal[s].kind = "trigger" /\ journal[s].trig \in queued \ lost)
         /\ \A t \in queued \ lost : t \in queued /\ row[t] \in Seqs /\ row[t] \in EventsOf(t)
         /\ \A t \in Triggers : t \notin queued \ lost => EventsOf(t) = {}
         /\ Of("trigger_done") = {} /\ Of("assignment") = {}
         /\ \A s \in Seqs : s > n => journal[s] = NoRow
  <1>. DEFINE In(s) == {t \in queued \ lost : row[t] = s}
  <1>1. \A s \in Seqs : journal[s] = OldRow(In(s))
    BY DEF OldFile
  <1>2. ASSUME NEW s \in Seqs, In(s) # {}
        PROVE  /\ journal[s] \in RowType /\ journal[s].kind = "trigger"
               /\ journal[s].trig \in In(s)
    <2>. DEFINE t == CHOOSE t \in In(s) : TRUE
    <2>1. t \in In(s) /\ t \in Triggers
      BY <1>2
    <2>2. journal[s] = Row("trigger", 1, t, {})
      BY <1>1, <1>2 DEF OldRow
    <2>. HIDE DEF t
    <2>3. "trigger" \in Kinds /\ {} \in SUBSET Probes /\ 1 \in Times
      BY ControlAssumption DEF Kinds, Times
    <2>4. Row("trigger", 1, t, {}) \in RowType
      BY <2>1, <2>3, NewRowType
    <2>5. Row("trigger", 1, t, {}).kind = "trigger" /\ Row("trigger", 1, t, {}).trig = t
      BY DEF Row
    <2>. QED
      BY <2>1, <2>2, <2>4, <2>5
  <1>3. ASSUME NEW s \in Seqs, In(s) = {} PROVE journal[s] = NoRow
    BY <1>1, <1>3 DEF OldRow
  <1>4. journal \in [Seqs -> RowType]
    <2>1. \A s \in Seqs : journal[s] \in RowType
      BY <1>2, <1>3, NoRowType
    <2>. QED
      BY <2>1 DEF OldFile
  <1>5. \A s \in Seqs : journal[s] = NoRow \/ (journal[s].kind = "trigger" /\ journal[s].trig \in queued \ lost)
    BY <1>2, <1>3
  <1>6. ASSUME NEW t \in queued \ lost PROVE row[t] \in Seqs /\ row[t] \in EventsOf(t)
    <2>1. row[t] \in Seqs
      BY ControlAssumption DEF Seqs
    <2>2. t \in In(row[t])
      OBVIOUS
    <2>3. journal[row[t]].kind = "trigger" /\ journal[row[t]].trig \in In(row[t])
      BY <1>2, <2>1, <2>2
    <2>4. journal[row[t]].trig = t
      BY <2>3 DEF OldFile
    <2>. QED
      BY <2>1, <2>3, <2>4 DEF EventsOf, Of
  <1>7. \A t \in Triggers : t \notin queued \ lost => EventsOf(t) = {}
    BY <1>5, NoRowType DEF EventsOf, Of
  <1>8. Of("trigger_done") = {} /\ Of("assignment") = {}
    BY <1>5, NoRowType DEF Of
  <1>9. ASSUME NEW s \in Seqs, s > n PROVE journal[s] = NoRow
    <2>1. \A t \in queued : row[t] # s
      BY <1>9 DEF Seqs
    <2>2. In(s) = {}
      BY <2>1
    <2>. QED
      BY <1>3, <2>2
  <1>. QED
    BY <1>4, <1>5, <1>6, <1>7, <1>8, <1>9

\* Both initial files: an empty one, and the one version 1 left behind.
LEMMA InitIInv == Init => IInv
  <1>. SUFFICES ASSUME Init PROVE IInv
    OBVIOUS
  <1>1. /\ completed = NoTables.completed /\ probes = [hash |-> NoHash, last |-> NoTables.last]
        /\ handle = [p \in Processes |-> Closed] /\ maint = [p \in Processes |-> IdleMaint]
        /\ tx = IdleTx /\ queue = {} /\ restored = FALSE /\ now = 1
    BY DEF Init
  <1>2. /\ NoTables.completed = [t \in Triggers |-> 0] /\ NoTables.pending = [t \in Triggers |-> 0]
        /\ NoTables.last = [p \in Probes |-> NoTrigger]
    BY DEF NoTables, TablesOf
  <1>3. Closed \in HandleType /\ Closed.pc = "closed"
    BY DEF Closed, Handle, HandleType
  <1>4. IdleMaint \in MaintType
    BY DEF IdleMaint, MaintainAt, MaintType, MaintPcs
  <1>5. /\ 0 \in 0 .. MaxTime /\ 1 \in Times /\ 1 \in 1 .. MaxSeq + 1 /\ 2 \in 1 .. MaxSeq + 1
        /\ Seqs \subseteq Nat /\ MaxGap \in Nat
    BY ControlAssumption DEF Times, Seqs
  <1>6. /\ completed \in [Triggers -> 0 .. MaxTime] /\ probes \in ProbesType
        /\ handle \in [Processes -> HandleType] /\ maint \in [Processes -> MaintType]
        /\ tx \in TxType /\ tx.who = NoProcess
        /\ queue \subseteq Triggers /\ restored \in BOOLEAN /\ now \in Times
        /\ \A p \in Processes : handle[p].pc = "closed"
    BY <1>1, <1>2, <1>3, <1>4, <1>5, NoTablesType DEF ProbesType
  <1>7. Opened /\ Replaying
    BY <1>6 DEF Opened, Replaying, Unlocked
  <1>8. CASE FreshFile
    <2>1. /\ version = 0 /\ origin = NoOrigin /\ created = FALSE
          /\ journal = [s \in Seqs |-> NoRow] /\ nextSeq = 1 /\ nextOrigin = 1
          /\ pending = [t \in Triggers |-> 0] /\ hist = NoHistory
      BY <1>2, <1>8 DEF FreshFile
    <2>2. \A s \in Seqs : journal[s] = NoRow
      BY <2>1
    <2>3. \A k \in {"assignment", "trigger", "trigger_done"} : Of(k) = {}
      BY <2>2, NoRowType DEF Of
    <2>4. hist \in HistType /\ hist.authors = {}
      <3>1. {} \in SUBSET Triggers /\ {} \in SUBSET Origins
        OBVIOUS
      <3>. QED
        BY <2>1, <3>1, HistoryType DEF NoHistory
    <2>5. Shape
      <3>0. origin \in Origins \union {NoOrigin} /\ created \in BOOLEAN
        BY <2>1, Zenon
      <3>1. version \in 0 .. 2 /\ nextSeq \in 1 .. MaxSeq + 1 /\ nextOrigin \in Nat
        BY <1>5, <2>1
      <3>2. journal \in [Seqs -> RowType] /\ pending \in [Triggers -> Nat]
        BY <2>1, NoRowType
      <3>3. Of("trigger") = {} /\ Of("trigger_done") = {}
        BY <2>3
      <3>. QED
        BY <1>6, <2>4, <3>0, <3>1, <3>2, <3>3 DEF Shape
    <2>6. SeqOrder /\ OneAuthor
      BY <2>2, <2>4 DEF SeqOrder, OneAuthor
    <2>7. Unmigrated /\ PendingEventKept
      BY <2>1 DEF Unmigrated, PendingEventKept
    <2>8. AssignmentReproducible
      BY <1>1, <2>3 DEF AssignmentReproducible
    <2>. QED
      BY <1>7, <2>5, <2>6, <2>7, <2>8 DEF IInv
  <1>9. CASE VersionOneFile
    <2>1. PICK o \in Origins, n \in 0 .. MaxSeq, gap \in 0 .. MaxGap, queued \in SUBSET Triggers :
          \E row \in [queued -> 1 .. n], lost \in SUBSET queued : OldFile(o, n, gap, queued, row, lost)
      BY <1>9 DEF VersionOneFile
    <2>2. PICK row \in [queued -> 1 .. n], lost \in SUBSET queued : OldFile(o, n, gap, queued, row, lost)
      BY <2>1
    <2>3. n \in Nat /\ n <= MaxSeq /\ gap \in Nat /\ MaxSeq \in Nat
      BY ControlAssumption
    <2>4. /\ journal \in [Seqs -> RowType]
          /\ \A s \in Seqs : journal[s] = NoRow \/ (journal[s].kind = "trigger" /\ journal[s].trig \in queued \ lost)
          /\ \A t \in queued \ lost : t \in queued /\ row[t] \in Seqs /\ row[t] \in EventsOf(t)
          /\ \A t \in Triggers : t \notin queued \ lost => EventsOf(t) = {}
          /\ Of("trigger_done") = {} /\ Of("assignment") = {}
          /\ \A s \in Seqs : s > n => journal[s] = NoRow
      BY <2>2, OldJournal
    <2>6. \A s \in Of("trigger") \union Of("trigger_done") : journal[s].trig \in Triggers
      BY <2>4, NoRowType DEF Of
    <2>7. Of("assignment") = {}
      BY <2>4
    <2>9. /\ pending \in [Triggers -> Nat]
          /\ \A t \in Triggers : t \notin queued => pending[t] = 0
      <3>1. \A t \in queued : row[t] \in Nat /\ row[t] + gap \in Nat
        BY <2>3
      <3>. QED
        BY <2>2, <3>1 DEF OldFile
    <2>10. hist \in HistType /\ hist.authors = {o} /\ hist.lost = lost
      <3>1. lost \in SUBSET Triggers /\ {} \in SUBSET Triggers /\ {o} \in SUBSET Origins
        OBVIOUS
      <3>. QED
        BY <2>2, <3>1, HistoryType DEF OldFile
    <2>11. Shape
      <3>1. version \in 0 .. 2 /\ created \in BOOLEAN /\ nextSeq \in 1 .. MaxSeq + 1 /\ nextOrigin \in Nat
        BY <2>2, <2>3 DEF OldFile
      <3>. QED
        BY <1>6, <2>2, <2>4, <2>6, <2>9, <2>10, <3>1 DEF Shape, OldFile
    <2>12. SeqOrder
      <3>1. \A s \in Seqs : s >= nextSeq => s > n
        BY <2>2, <2>3 DEF Seqs, OldFile
      <3>. QED
        BY <2>4, <3>1 DEF SeqOrder
    <2>13. OneAuthor
      BY <2>2, <2>10 DEF OneAuthor, OldFile
    <2>14. Unmigrated
      <3>1. \A t \in queued : EventsOf(t) # {} \/ t \in hist.lost
        BY <2>4, <2>10
      <3>2. version # 0
        BY <2>2 DEF OldFile
      <3>. QED
        BY <2>9, <3>1, <3>2 DEF Unmigrated
    <2>15. PendingEventKept
      BY <2>2 DEF PendingEventKept, schemaVersion, OldFile
    <2>16. AssignmentReproducible
      BY <1>1, <2>7 DEF AssignmentReproducible
    <2>. QED
      BY <1>7, <2>11, <2>12, <2>13, <2>14, <2>15, <2>16 DEF IInv
  <1>. QED
    BY <1>8, <1>9 DEF Init

\* Every step keeps the invariant.
LEMMA NextIInv == IInv /\ [Next]_vars => IInv'
  <1>. SUFFICES ASSUME IInv, [Next]_vars PROVE IInv'
    OBVIOUS
  <1>1. Shape /\ Opened /\ Replaying
    BY DEF IInv
  <1>. DEFINE Opens(p) == (\E o \in Requested[p] : Open(p, o))
                            \/ InitSchema(p) \/ InitMeta(p) \/ InsertMeta(p) \/ Exit(p)
              Maintains(p) == \/ MaintainStart(p) \/ PruneCompleted(p) \/ CollapseAssignments(p)
                              \/ MaintainEnds(p) \/ PruneExpired(p) \/ PruneForSize(p)
              Records == \/ \E P \in SUBSET Probes : SaveAssignment(P)
                         \/ RecordDuplicate
                         \/ \E t \in Triggers : RecordTrigger(t) \/ RecordTriggerFails(t) \/ CompleteTriggers(t)
                         \/ \E corrupt \in SUBSET Triggers : PendingTriggers(corrupt)
  <1>2. SUFFICES Shape' /\ Rest'
    BY DEF IInv, Rest
  <1>3. ASSUME NEW p \in Processes, Opens(p) PROVE Shape' /\ Rest'
    <2>1. Shape'
      BY <1>1, <1>3, HandleShape
    <2>2. Rest'
      BY <1>3, OpenStep, InitSchemaStep, InitMetaStep, InsertMetaStep, ExitStep
    <2>. QED
      BY <2>1, <2>2
  <1>4. ASSUME NEW p \in Processes, Maintains(p) PROVE Shape' /\ Rest'
    BY <1>1, <1>4, MaintShape, MaintStep
  <1>5. ASSUME NEW p \in Processes, RebuildStart(p) PROVE Shape' /\ Rest'
    BY <1>1, <1>5, MaintShape, RebuildStep
  <1>6. CASE RebuildEvent \/ RebuildCommit \/ RebuildFails
    BY <1>1, <1>6, RebuildShape, RebuildEventStep, RebuildStep
  <1>7. CASE Records
    <2>1. Shape'
      BY <1>1, <1>7, AgentShape
    <2>2. CASE RecordDuplicate
      <3>1. UNCHANGED <<version, origin, journal, nextSeq, pending, probes, handle, tx, hist>>
        BY <2>2 DEF RecordDuplicate
      <3>2. Opened' /\ Replaying'
        BY <1>1, <3>1, HandlesUntouched, ReplayUntouched
      <3>3. SeqOrder' /\ Unmigrated' /\ OneAuthor' /\ PendingEventKept' /\ AssignmentReproducible'
        BY <3>1, FileUntouched
      <3>. QED
        BY <2>1, <3>2, <3>3 DEF Rest
    <2>3. ASSUME NEW t \in Triggers, RecordTriggerFails(t) PROVE Rest'
      BY <1>1, <2>3, FileUntouched, HandlesUntouched, ReplayUntouched DEF RecordTriggerFails, dbVars, Rest
    <2>4. Rest'
      BY <1>7, <2>2, <2>3, SaveAssignmentStep, RecordTriggerStep, CompleteTriggersStep, PendingTriggersStep
    <2>. QED
      BY <2>1, <2>4
  <1>8. CASE ClockTick \/ ClockSetBack
    <2>1. Shape'
      BY <1>1, <1>8, RebuildShape
    <2>2. UNCHANGED <<version, origin, journal, nextSeq, pending, probes, handle, tx, hist>>
      BY <1>8 DEF ClockTick, ClockSetBack, dbVars
    <2>. QED
      BY <1>1, <2>1, <2>2, FileUntouched, HandlesUntouched, ReplayUntouched DEF Rest
  <1>9. CASE UNCHANGED vars
    <2>1. UNCHANGED <<version, origin, journal, nextSeq, pending, probes, handle, tx, hist>>
      BY <1>9 DEF vars, dbVars
    <2>2. Shape'
      BY <1>1, <1>9 DEF vars, dbVars, Shape, Of
    <2>. QED
      BY <1>1, <2>1, <2>2, FileUntouched, HandlesUntouched, ReplayUntouched DEF Rest
  <1>10. CASE Next
    <2>1. \/ \E p \in Processes : Opens(p) \/ Maintains(p) \/ RebuildStart(p)
          \/ RebuildEvent \/ RebuildCommit \/ RebuildFails \/ Records \/ ClockTick \/ ClockSetBack
      BY <1>10 DEF Next
    <2>. HIDE DEF Opens, Maintains, Records
    <2>. QED
      BY <1>3, <1>4, <1>5, <1>6, <1>7, <1>8, <2>1
  <1>. QED
    BY <1>9, <1>10

\* TypeOK: no opening, migration, pruning, replay or rollback takes the
\* tables out of their types (a replayed event always names a trigger).
THEOREM TypeCorrect == Spec => []TypeOK
  <1>1. IInv => TypeOK
    BY ShapeType DEF IInv
  <1>. QED
    BY <1>1, InitIInv, NextIInv, PTL DEF Spec

\* Options.Origin: however many processes race to create and open the file,
\* every row in it was inserted under the one origin it is bound to.
THEOREM FileHasOneAuthor == Spec => []OneAuthor
  <1>1. IInv => OneAuthor
    BY DEF IInv
  <1>. QED
    BY <1>1, InitIInv, NextIInv, PTL DEF Spec

\* migrateV1ToV2 and prune: for any gap between origin and row sequences, any
\* interleaving of openers and any pruning or Rebuild, a queued trigger's
\* event is in the journal unless version 1 had already deleted it.
THEOREM QueueNeverLosesItsEvent == Spec => []PendingEventKept
  <1>1. IInv => PendingEventKept
    BY DEF IInv
  <1>. QED
    BY <1>1, InitIInv, NextIInv, PTL DEF Spec

\* collapseAssignments and Rebuild: what the journal's newest assignment says
\* is what the probes table holds, whatever was deleted or replayed.
THEOREM NewestAssignmentInForce == Spec => []AssignmentReproducible
  <1>1. IInv => AssignmentReproducible
    BY DEF IInv
  <1>. QED
    BY <1>1, InitIInv, NextIInv, PTL DEF Spec

\* Both initial files again.
LEMMA InitKept == Init => Kept
  <1>. SUFFICES ASSUME Init PROVE Kept
    OBVIOUS
  <1>1. tx.who = NoProcess
    BY NoTablesType DEF Init
  <1>2. Derived
    BY <1>1 DEF Derived, Requeuing, Recompleting, Unlocked
  <1>3. CASE FreshFile
    <2>1. version = 0 /\ journal = [s \in Seqs |-> NoRow] /\ hist = NoHistory
      BY <1>3 DEF FreshFile
    <2>2. hist.lost = {} /\ hist.owed = {}
      BY <2>1 DEF NoHistory, History
    <2>3. Of("trigger") = {} /\ Of("trigger_done") = {}
      BY <2>1, NoRowType DEF Of
    <2>4. \A t \in Triggers : EventsOf(t) = {}
      BY <2>3 DEF EventsOf
    <2>. QED
      BY <1>2, <2>1, <2>2, <2>3, <2>4
      DEF Kept, Queued, Early, LostGone, Timed, Settled, Owed, schemaVersion
  <1>4. CASE VersionOneFile
    <2>1. PICK o \in Origins, n \in 0 .. MaxSeq, gap \in 0 .. MaxGap, queued \in SUBSET Triggers :
          \E row \in [queued -> 1 .. n], lost \in SUBSET queued : OldFile(o, n, gap, queued, row, lost)
      BY <1>4 DEF VersionOneFile
    <2>2. PICK row \in [queued -> 1 .. n], lost \in SUBSET queued : OldFile(o, n, gap, queued, row, lost)
      BY <2>1
    <2>3. n \in Nat /\ n <= MaxSeq /\ gap \in Nat
      BY ControlAssumption
    <2>4. hist.lost = lost /\ hist.owed = {}
      BY <2>2 DEF History, OldFile
    <2>5. /\ Of("trigger_done") = {}
          /\ \A t \in Triggers : t \notin queued \ lost => EventsOf(t) = {}
      BY <2>2, OldJournal
    <2>6. \A t \in Triggers : DonesOf(t) = {}
      BY <2>5 DEF DonesOf
    <2>7. \A t \in queued : pending[t] # 0
      <3>1. \A t \in queued : row[t] + gap # 0
        BY <2>3
      <3>. QED
        BY <2>2, <3>1 DEF OldFile
    <2>8. Early /\ LostGone
      BY <2>4, <2>5, <2>6, <2>7 DEF Early, LostGone
    <2>9. Timed /\ Owed
      BY <2>4, <2>5 DEF Timed, Owed
    <2>10. version # schemaVersion
      BY <2>2 DEF schemaVersion, OldFile
    <2>11. Settled
      BY <2>10 DEF Settled
    <2>. QED
      BY <1>2, <2>8, <2>9, <2>11 DEF Kept, Queued
  <1>. QED
    BY <1>3, <1>4 DEF Init

\* Every step keeps queue, completions and journal in agreement.
LEMMA NextKept == IInv /\ Kept /\ [Next]_vars => Kept'
  <1>. SUFFICES ASSUME IInv, Kept, [Next]_vars PROVE Kept'
    OBVIOUS
  <1>1. Queued /\ Derived /\ Owed /\ maint \in [Processes -> MaintType]
    BY DEF Kept, IInv, Shape
  <1>2. ASSUME UNCHANGED <<version, journal, pending, completed, hist>>,
               tx' = tx \/ tx'.who = NoProcess,
               \A p \in Processes : maint'[p].cutoff = maint[p].cutoff \/ maint'[p].cutoff = 0
        PROVE  Kept'
    <2>1. Queued'
      BY <1>1, <1>2, QueuedUntouched
    <2>2. Derived'
      BY <1>1, <1>2, DerivedUntouched
    <2>3. Owed'
      BY <1>1, <1>2, OwedUntouched
    <2>. QED
      BY <2>1, <2>2, <2>3 DEF Kept
  <1>3. ASSUME UNCHANGED <<version, journal, pending, completed, hist, maint, tx>> PROVE Kept'
    BY <1>2, <1>3
  <1>4. ASSUME NEW p \in Processes,
               (\E o \in Requested[p] : Open(p, o)) \/ InitMeta(p) \/ InsertMeta(p)
        PROVE  Kept'
    BY <1>3, <1>4 DEF Open, InitMeta, InsertMeta, dbVars
  <1>5. ASSUME NEW p \in Processes, Exit(p) PROVE Kept'
    <2>1. UNCHANGED <<version, journal, pending, completed, hist>>
      BY <1>5 DEF Exit, dbVars
    <2>2. tx' = tx \/ tx'.who = NoProcess
      BY <1>5, NoTablesType DEF Exit
    <2>3. \A q \in Processes : maint'[q].cutoff = maint[q].cutoff \/ maint'[q].cutoff = 0
      BY <1>1, <1>5 DEF Exit, IdleMaint, MaintainAt
    <2>. QED
      BY <1>2, <2>1, <2>2, <2>3
  <1>6. ASSUME NEW p \in Processes, RebuildStart(p) PROVE Kept'
    <2>1. UNCHANGED <<version, journal, pending, completed, hist, maint>>
      BY <1>6 DEF RebuildStart, dbVars
    <2>2. tx'.pos = 0 /\ tx'.tables = NoTables
      BY <1>6 DEF RebuildStart, Transaction
    <2>3. \A t : EventsOf(t)' = EventsOf(t) /\ DonesOf(t)' = DonesOf(t)
      BY <2>1 DEF EventsOf, DonesOf, Of
    <2>4. \A t \in Triggers : NoTables.pending[t] = 0 /\ NoTables.completed[t] = 0
      BY DEF NoTables, TablesOf
    <2>5. \A t \in Triggers : \A s \in EventsOf(t) \union DonesOf(t) : s > 0 /\ ~ (s <= 0)
      BY ControlAssumption DEF EventsOf, DonesOf, Of, Seqs
    <2>6. Requeuing' /\ Recompleting'
      BY <2>2, <2>3, <2>4, <2>5 DEF Requeuing, Recompleting
    <2>7. Queued' /\ Owed'
      BY <1>1, <2>1, QueuedUntouched, OwedUntouched
    <2>. QED
      BY <2>6, <2>7 DEF Kept, Derived
  <1>7. CASE RebuildFails
    <2>1. UNCHANGED <<version, journal, pending, completed, hist, maint>> /\ tx'.who = NoProcess
      BY <1>7, NoTablesType DEF RebuildFails, dbVars
    <2>. QED
      BY <1>2, <2>1
  <1>8. CASE RecordDuplicate \/ ClockTick \/ ClockSetBack \/ UNCHANGED vars
              \/ \E t \in Triggers : RecordTriggerFails(t)
    BY <1>3, <1>8 DEF RecordDuplicate, ClockTick, ClockSetBack, RecordTriggerFails, vars, dbVars
  <1>9. ASSUME NEW p \in Processes,
               \/ MaintainStart(p) \/ PruneCompleted(p) \/ CollapseAssignments(p)
               \/ MaintainEnds(p) \/ PruneExpired(p) \/ PruneForSize(p)
        PROVE  Kept'
    BY <1>9, MaintKept
  <1>10. ASSUME NEW t \in Triggers, RecordTrigger(t) \/ CompleteTriggers(t) PROVE Kept'
    BY <1>10, RecordTriggerKept, CompleteTriggersKept
  <1>11. CASE Next
    BY <1>4, <1>5, <1>6, <1>7, <1>8, <1>9, <1>10, <1>11, InitSchemaKept, SaveAssignmentKept,
       PendingTriggersKept, RebuildEventKept, RebuildCommitKept DEF Next
  <1>. QED
    BY <1>8, <1>11

\* CompleteTriggers and prune: for any number of triggers, any gap, any clock
\* and any pruning, replaying the journal yields the queue, up to the
\* exemptions QueueReproducible names.
THEOREM QueueIsReproducible == Spec => []QueueReproducible
  <1>1. IInv /\ Kept => QueueReproducible
    <2>. SUFFICES ASSUME IInv, Kept, version = schemaVersion,
                         NEW t \in Triggers, t \notin hist.lost, t \notin hist.astray
                  PROVE  t \in Requeued <=> pending[t] # 0
      BY DEF QueueReproducible
    <2>1. IF pending[t] # 0 THEN \A d \in DonesOf(t) : d < pending[t]
          ELSE \A s \in EventsOf(t) : \E d \in DonesOf(t) : s < d
      BY DEF Kept, Queued, Settled
    <2>2. CASE pending[t] # 0
      <3>1. pending[t] \in EventsOf(t)
        BY <2>2 DEF IInv, PendingEventKept
      <3>. QED
        BY <2>1, <2>2, <3>1 DEF Requeued
    <2>3. CASE pending[t] = 0
      <3>1. ASSUME NEW s \in EventsOf(t), \A d \in DonesOf(t) : d < s PROVE FALSE
        <4>1. PICK d \in DonesOf(t) : s < d
          BY <2>1, <2>3
        <4>2. d < s /\ d \in Int /\ s \in Int
          BY <3>1, RowsApart
        <4>. QED
          BY <4>1, <4>2
      <3>. QED
        BY <2>3, <3>1 DEF Requeued
    <2>. QED
      BY <2>2, <2>3
  <1>. QED
    BY <1>1, InitIInv, NextIInv, InitKept, NextKept, PTL DEF Spec

\* RecordTrigger: a run completed within the retention period is not taken for
\* a new one, whatever crashes, reassignments, pruning and Rebuilds follow.
THEOREM CompletionIsRemembered == Spec => []CompletedRemembered
  <1>1. Kept => CompletedRemembered
    BY DEF Kept, Owed, CompletedRemembered, Seen
  <1>. QED
    BY <1>1, InitIInv, NextIInv, InitKept, NextKept, PTL DEF Spec
=============================================================================
