------------------------------ MODULE MemoryLog ------------------------------
(***************************************************************************)
(* The memory event log of one execution and the last-access tables behind *)
(* it (crates/trace/src/log.rs): MemoryState::record and record_field,     *)
(* MemoryEventLog::from_events, final_state, and self_check, the memory    *)
(* argument over the events alone.                                         *)
(*                                                                         *)
(* A cell is an address of a space.  Registers, RAM words and the pc       *)
(* chain: a query reads the last write at its cell.  A delegation anchor   *)
(* does not: every query there reads the answer stamped 0.  Field cells    *)
(* chain too, but their accesses are not events.                           *)
(***************************************************************************)
EXTENDS Integers, Sequences, FiniteSets

CONSTANTS
  Chained,     \* the cells of the chained spaces
  Anchors,     \* the cells of the delegation spaces
  FieldCells,  \* the cells of the field memory
  Value,
  Zero,
  Initial,     \* what each chained cell holds before the first cycle
  ClockEnd     \* 2^TS_BITS: the first timestamp past the clock

ASSUME CellsAssumption ==
  /\ Chained \cap Anchors = {}
  /\ FieldCells \cap (Chained \cup Anchors) = {}
ASSUME ValueAssumption == Zero \in Value /\ Initial \in [Chained -> Value]
ASSUME ClockAssumption == ClockEnd \in Nat

Cell == Chained \cup Anchors
Event == [cell : Cell, ts : Nat, readTs : Nat, read : Value, write : Value]
Access == [ts : Nat, value : Value]

VARIABLES
  events,       \* MemoryEventLog.events
  lastAccess,   \* MemoryState's regs, pc and ram: the touched cells' last write
  lastTs,       \* MemoryState.last_ts, 0 while there is none
  fieldAccess   \* MemoryState.field: the touched field cells' last write

logVars == <<events, lastAccess, lastTs, fieldAccess>>

LogTypeOK ==
  /\ events \in Seq(Event)
  /\ DOMAIN lastAccess \subseteq Chained
  /\ \A c \in DOMAIN lastAccess : lastAccess[c] \in Access
  /\ lastTs \in Nat
  /\ DOMAIN fieldAccess \subseteq FieldCells
  /\ \A c \in DOMAIN fieldAccess : fieldAccess[c] \in Access

LogInit ==
  /\ events = <<>>
  /\ lastAccess = [c \in {} |-> [ts |-> 0, value |-> Zero]]
  /\ lastTs = 0
  /\ fieldAccess = [c \in {} |-> [ts |-> 0, value |-> Zero]]

-----------------------------------------------------------------------------
(* Recording *)

\* A table with cell c's last write replaced.
Remember(table, c, access) ==
  [d \in DOMAIN table \cup {c} |-> IF d = c THEN access ELSE table[d]]

\* Mutant: an unchained space's last write is kept too.
RememberedEverywhere(c, ts, w) == Remember(lastAccess, c, [ts |-> ts, value |-> w])
\* Mutant: a table keeps a cell's first write.
RememberedOnce(c, ts, w) ==
  IF c \in Chained \ DOMAIN lastAccess THEN RememberedEverywhere(c, ts, w) ELSE lastAccess

\* An unchained space keeps no last write.
Remembered(c, ts, w) ==
  IF c \in Chained THEN Remember(lastAccess, c, [ts |-> ts, value |-> w]) ELSE lastAccess

\* What a query of c reads, the machine having read value v there: a chained
\* cell's first query is taken at its word, read at timestamp 0.
ReadOf(c, v) ==
  IF c \in DOMAIN lastAccess THEN lastAccess[c]
  ELSE [ts |-> 0, value |-> IF c \in Chained THEN v ELSE Zero]

\* record's assertions: on the clock, in order, the value last written, and
\* the read strictly before the write.
Accepts(c, ts, v) ==
  /\ ts < ClockEnd
  /\ ts >= lastTs
  /\ ReadOf(c, v).value = v
  /\ ReadOf(c, v).ts < ts

Record(c, ts, v, w) ==
  /\ Accepts(c, ts, v)
  /\ events' = Append(events, [cell |-> c, ts |-> ts, readTs |-> ReadOf(c, v).ts,
                               read |-> v, write |-> w])
  /\ lastAccess' = Remembered(c, ts, w)
  /\ lastTs' = ts
  /\ UNCHANGED fieldAccess

\* Field accesses are ordered per cell alone; a first access reads 0 at 0.
FieldReadOf(c) ==
  IF c \in DOMAIN fieldAccess THEN fieldAccess[c] ELSE [ts |-> 0, value |-> Zero]

AcceptsField(c, ts, v) == FieldReadOf(c).value = v /\ FieldReadOf(c).ts < ts

RecordField(c, ts, v, w) ==
  /\ AcceptsField(c, ts, v)
  /\ fieldAccess' = Remember(fieldAccess, c, [ts |-> ts, value |-> w])
  /\ UNCHANGED <<events, lastAccess, lastTs>>

\* A caller that records any query the assertions let through.
LogNext ==
  \/ \E c \in Cell, ts \in 0..(ClockEnd - 1), v, w \in Value : Record(c, ts, v, w)
  \/ \E c \in FieldCells, ts \in 0..(ClockEnd - 1), v, w \in Value : RecordField(c, ts, v, w)

LogSpec == LogInit /\ [][LogNext]_logVars

\* One turn of from_events, which checks nothing but the addresses and
\* rebuilds the tables from whatever the event says.
Adopt(e) ==
  /\ events' = Append(events, e)
  /\ lastAccess' = Remembered(e.cell, e.ts, e.write)
  /\ UNCHANGED <<lastTs, fieldAccess>>

-----------------------------------------------------------------------------
(* self_check, over the events alone *)

\* Mutant: self_check without the gap rule.
TimestampRulesAtNoGap(log, i) ==
  /\ log[i].ts < ClockEnd
  /\ \A j \in 1..(i - 1) : log[j].ts <= log[i].ts
  /\ \A j \in 1..(i - 1) : log[j].cell = log[i].cell => log[j].ts # log[i].ts

TimestampRulesAt(log, i) ==
  /\ log[i].ts < ClockEnd
  /\ \A j \in 1..(i - 1) : log[j].ts <= log[i].ts
  /\ log[i].readTs < log[i].ts
  /\ \A j \in 1..(i - 1) : log[j].cell = log[i].cell => log[j].ts # log[i].ts

TimestampRules(log) == \A i \in 1..Len(log) : TimestampRulesAt(log, i)

QueriesAt(log, c) == {i \in 1..Len(log) : log[i].cell = c}
Touched(log) == {c \in Chained : QueriesAt(log, c) # {}}

WriteOf(e) == <<e.cell, e.ts, e.write>>
ReadBy(e) == <<e.cell, e.readTs, e.read>>
WritesOf(log, k) == {i \in 1..Len(log) : WriteOf(log[i]) = k}
ReadsOf(log, k) == {i \in 1..Len(log) : ReadBy(log[i]) = k}

\* The initial write of a touched cell, and the read at teardown of its last.
IsInitial(log, k) == k[1] \in Touched(log) /\ k[2] = 0 /\ k[3] = Initial[k[1]]
IsTeardown(log, k) ==
  \E i \in QueriesAt(log, k[1]) :
    /\ \A j \in QueriesAt(log, k[1]) : j <= i
    /\ k = WriteOf(log[i])

Once(b) == IF b THEN 1 ELSE 0

\* How often tuple k is written and read.  An anchor's invocation, which is no
\* event, writes the answer a request reads and reads what it writes back.
Written(log, k) ==
  Cardinality(WritesOf(log, k)) +
    IF k[1] \in Anchors
    THEN IF k[2] = 0 /\ k[3] = Zero THEN Cardinality(QueriesAt(log, k[1])) ELSE 0
    ELSE Once(IsInitial(log, k))
ReadCount(log, k) ==
  Cardinality(ReadsOf(log, k)) +
    IF k[1] \in Anchors THEN Cardinality(WritesOf(log, k)) ELSE Once(IsTeardown(log, k))

\* Every tuple the balance has an entry for.
Keys(log) ==
  {WriteOf(log[i]) : i \in 1..Len(log)} \cup {ReadBy(log[i]) : i \in 1..Len(log)}
    \cup {<<c, 0, Initial[c]>> : c \in Touched(log)}
    \cup {<<log[i].cell, 0, Zero>> : i \in {j \in 1..Len(log) : log[j].cell \in Anchors}}

Unbalanced(log) == {k \in Keys(log) : Written(log, k) # ReadCount(log, k)}

SelfCheck(log) == TimestampRules(log) /\ Unbalanced(log) = {}

\* Mutant: the replay starts from zero memory.
InitialValueBlank(c) == Zero

\* What a balance failure replays: the queries at one cell, each against the
\* write before it, whatever the cell's space.
InitialValue(c) == IF c \in Chained THEN Initial[c] ELSE Zero
IsStale(log, i) ==
  LET before == {j \in QueriesAt(log, log[i].cell) : j < i}
      last   == IF before = {} THEN <<0, InitialValue(log[i].cell)>>
                ELSE LET j == CHOOSE j \in before : \A k \in before : k <= j
                     IN  <<log[j].ts, log[j].write>>
  IN  <<log[i].readTs, log[i].read>> # last

\* The queries a refused balance may name: for an unbalanced cell, the first
\* stale one.
Named(log) ==
  {i \in 1..Len(log) :
    /\ \E k \in Unbalanced(log) : k[1] = log[i].cell
    /\ IsStale(log, i)
    /\ \A j \in QueriesAt(log, log[i].cell) : j < i => ~IsStale(log, j)}

-----------------------------------------------------------------------------
(* What a memory is *)

\* Query i reads the last write before it at its cell, a first query init[c],
\* and a query of an anchor the answer.
ReadsItsWrite(log, i, init) ==
  LET c      == log[i].cell
      before == {j \in QueriesAt(log, c) : j < i}
  IN  IF c \in Anchors \/ before = {}
      THEN log[i].readTs = 0 /\ log[i].read = (IF c \in Anchors THEN Zero ELSE init[c])
      ELSE \E j \in before : /\ \A k \in before : k <= j
                             /\ log[i].readTs = log[j].ts
                             /\ log[i].read = log[j].write

Coherent(log, init) == \A i \in 1..Len(log) : ReadsItsWrite(log, i, init)

\* What the first query at each cell says the memory held.
FirstRead(log) ==
  [c \in Chained |-> IF c \in Touched(log)
                     THEN log[CHOOSE i \in QueriesAt(log, c) :
                                \A j \in QueriesAt(log, c) : i <= j].read
                     ELSE Initial[c]]

\* "The tables are what fill each new query's read side": whatever calls the
\* assertions of record let through, every query reads the last write before it.
RecordedReadsAreLastWrites == Coherent(events, FirstRead(events))

\* final_state is the last write of every touched cell, and of no other, for a
\* log recorded and for a log rebuilt from its events.
TablesAreTheLastWrites ==
  /\ DOMAIN lastAccess = Touched(events)
  /\ \A c \in Touched(events) : \E i \in QueriesAt(events, c) :
       /\ \A j \in QueriesAt(events, c) : j <= i
       /\ lastAccess[c] = [ts |-> events[i].ts, value |-> events[i].write]

\* record lets two queries of one anchor share a timestamp, which no cycle has.
AnchorsAreAskedOnceATick ==
  \A i, j \in 1..Len(events) :
    events[i].cell \in Anchors /\ events[i].cell = events[j].cell /\ events[i].ts = events[j].ts
      => i = j

\* A recorded log passes the self-check exactly when its first reads are what
\* the memory held: the check refuses no honest log.
SelfCheckAcceptsRecorded ==
  AnchorsAreAskedOnceATick => (SelfCheck(events) <=> FirstRead(events) = Initial)

\* "Together those say each read sees exactly the last write before it": for
\* any events at all, the timestamp rules and the balance of the multisets
\* say that the log is a memory's.
SelfCheckMeansMemory ==
  SelfCheck(events) <=> TimestampRules(events) /\ Coherent(events, Initial)

\* In a chained space a refused balance has a query to name, and names the
\* first that does not read the last write before it.
ChainedRefusalsNameTheFault ==
  TimestampRules(events) =>
    \A k \in Unbalanced(events) : k[1] \in Chained =>
      \E i \in Named(events) :
        /\ events[i].cell = k[1]
        /\ ~ReadsItsWrite(events, i, Initial)
        /\ \A j \in QueriesAt(events, k[1]) : j < i => ReadsItsWrite(events, j, Initial)

\* SelfCheckError's "the one that reads a value no write produced", for every
\* space: a named query reads something other than it should.
RefusalsNameTheFault ==
  TimestampRules(events) => \A i \in Named(events) : ~ReadsItsWrite(events, i, Initial)
=============================================================================
