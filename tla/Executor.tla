------------------------------ MODULE Executor ------------------------------
(***************************************************************************)
(* The streaming executor: `StreamingRun` over a `Machine` whose           *)
(* `Recorder` cuts each family's rows into shards while the guest runs     *)
(* (src/crates/emulator/src/lib.rs).  The guest itself is abstract: a cycle*)
(* is the family that owns its pc and the delegation family it invokes, if *)
(* any, and a row is the number of the cycle it records.                   *)
(*                                                                         *)
(* The recorder keeps, per buffer, the rows of the shard being filled and  *)
(* the count of all rows so far.  Here `rows` is the whole sequence that   *)
(* count counts, so that a shard's contents can be compared with the cut   *)
(* the shard plan names.                                                   *)
(***************************************************************************)
EXTENDS Integers, Sequences

CONSTANTS
  CycleFamilies,       \* families whose rows are cycles
  DelegationFamilies,  \* families whose rows are invocations
  EcallFamily,         \* the cycle family every ecall belongs to
  BufferOrder,         \* the recorder's buffers: cycle families, then delegations
  Height,              \* rows a shard of each family holds
  MaxCycles,           \* the last cycle the 38-bit clock can time
  Faults               \* what may go wrong, a subset of {"trap", "journal"}

Families == CycleFamilies \cup DelegationFamilies

ASSUME FamiliesAssumption ==
  /\ CycleFamilies \cap DelegationFamilies = {}
  /\ EcallFamily \in CycleFamilies

ASSUME BufferOrderAssumption ==
  /\ BufferOrder \in Seq(Families)
  /\ \A f \in Families : \E i \in 1..Len(BufferOrder) : BufferOrder[i] = f
  /\ \A i, j \in 1..Len(BufferOrder) : BufferOrder[i] = BufferOrder[j] => i = j

ASSUME HeightAssumption == Height \in [Families -> Nat \ {0}]

ASSUME MaxCyclesAssumption == MaxCycles \in Nat

VARIABLES
  phase,    \* where the run is: running, exited, flushing, finished, failed
  cycle,    \* the number of the next cycle; cycles count from 1
  rows,     \* every row each family has been given, in order
  buffer,   \* the rows of each family's shard being filled
  ready,    \* filled shards next_shards (or finish) has not handed over
  flushAt,  \* how many buffers flush_partial has visited
  handed    \* every shard the run has handed over, in order

executorVars == <<phase, cycle, rows, buffer, ready, flushAt, handed>>

Chunk == [family : Families, index : Nat, rows : Seq(Nat)]

ExecutorTypeOK ==
  /\ phase \in {"running", "exited", "flushing", "finished", "failed"}
  /\ cycle \in Nat \ {0}
  /\ rows \in [Families -> Seq(Nat)]
  /\ buffer \in [Families -> Seq(Nat)]
  /\ ready \in Seq(Chunk)
  /\ flushAt \in 0..Len(BufferOrder)
  /\ handed \in Seq(Chunk)

ExecutorInit ==
  /\ phase = "running"
  /\ cycle = 1
  /\ rows = [f \in Families |-> <<>>]
  /\ buffer = [f \in Families |-> <<>>]
  /\ ready = <<>>
  /\ flushAt = 0
  /\ handed = <<>>

-----------------------------------------------------------------------------
(* The recorder. *)

\* What flush_family or flush_delegation adds to `ready` after this cycle's
\* row has been pushed to f: the buffer, if that row filled it.
Fills(f) == Len(buffer[f]) + 1 >= Height[f]

FullChunk(f) == [family |-> f,
                 index  |-> (Len(rows[f]) + 1) \div Height[f] - 1,
                 rows   |-> Append(buffer[f], cycle)]

Flushed(f) == IF Fills(f) THEN <<FullChunk(f)>> ELSE <<>>

\* Mutant: the full buffer is copied out and not emptied.
PushRowsKeeping(gs) ==
  /\ rows' = [f \in Families |-> IF f \in gs THEN Append(rows[f], cycle)
                                             ELSE rows[f]]
  /\ buffer' = [f \in Families |-> IF f \in gs THEN Append(buffer[f], cycle)
                                                ELSE buffer[f]]

\* Recorder::record's two pushes: each family of gs is given the cycle's row,
\* and a buffer that reaches its height is replaced by an empty one.
PushRows(gs) ==
  /\ rows' = [f \in Families |-> IF f \in gs THEN Append(rows[f], cycle)
                                             ELSE rows[f]]
  /\ buffer' = [f \in Families |->
                  IF f \notin gs THEN buffer[f]
                  ELSE IF Fills(f) THEN <<>> ELSE Append(buffer[f], cycle)]

\* next_shards steps only while nothing is ready, and commit refuses a cycle
\* the clock cannot time.
MayStep == phase = "running" /\ ready = <<>> /\ cycle <= MaxCycles

Commit(gs) ==
  /\ PushRows(gs)
  /\ cycle' = cycle + 1
  /\ UNCHANGED <<flushAt, handed>>

-----------------------------------------------------------------------------
(* The run. *)

\* A cycle that is no delegation and no exit.
StepCycle(f) ==
  /\ MayStep
  /\ Commit({f})
  /\ ready' = ready \o Flushed(f)
  /\ UNCHANGED phase

\* An ecall that invokes d: the invocation's row, then the requesting cycle's.
StepDelegation(d) ==
  /\ MayStep
  /\ Commit({d, EcallFamily})
  /\ ready' = ready \o (Flushed(d) \o Flushed(EcallFamily))
  /\ UNCHANGED phase

\* The EXIT ecall: the last cycle the guest runs.
StepExit ==
  /\ MayStep
  /\ Commit({EcallFamily})
  /\ ready' = ready \o Flushed(EcallFamily)
  /\ phase' = "exited"

\* A step that returns an error records nothing: the guest trapped, or the
\* clock is spent.
StepFails ==
  /\ phase = "running" /\ ready = <<>>
  /\ "trap" \in Faults \/ cycle > MaxCycles
  /\ phase' = "failed"
  /\ UNCHANGED <<cycle, rows, buffer, ready, flushAt, handed>>

\* next_shards returns what has filled.
HandOver ==
  /\ phase \in {"running", "exited"} /\ ready # <<>>
  /\ handed' = handed \o ready
  /\ ready' = <<>>
  /\ UNCHANGED <<phase, cycle, rows, buffer, flushAt>>

\* next_shards returned empty, so the caller calls finish.
BeginFinish ==
  /\ phase = "exited" /\ ready = <<>>
  /\ phase' = "flushing"
  /\ UNCHANGED <<cycle, rows, buffer, ready, flushAt, handed>>

\* Mutant: an empty buffer is flushed too.
FlushBufferEvenEmpty ==
  /\ phase = "flushing" /\ flushAt < Len(BufferOrder)
  /\ flushAt' = flushAt + 1
  /\ LET f == BufferOrder[flushAt + 1] IN
       /\ ready' = Append(ready, [family |-> f,
                                  index  |-> Len(rows[f]) \div Height[f],
                                  rows   |-> buffer[f]])
       /\ buffer' = [buffer EXCEPT ![f] = <<>>]
  /\ UNCHANGED <<phase, cycle, rows, handed>>

\* flush_partial visits the buffers in order and makes a short shard of each
\* one that holds rows.  Its `out` is kept in `ready`, which is empty by then.
FlushBuffer ==
  /\ phase = "flushing" /\ flushAt < Len(BufferOrder)
  /\ flushAt' = flushAt + 1
  /\ LET f == BufferOrder[flushAt + 1] IN
       IF buffer[f] = <<>>
       THEN UNCHANGED <<buffer, ready>>
       ELSE /\ ready' = Append(ready, [family |-> f,
                                       index  |-> Len(rows[f]) \div Height[f],
                                       rows   |-> buffer[f]])
            /\ buffer' = [buffer EXCEPT ![f] = <<>>]
  /\ UNCHANGED <<phase, cycle, rows, handed>>

\* Machine::finish reads the journal back; if it will not, the tail is lost.
Finish ==
  /\ phase = "flushing" /\ flushAt = Len(BufferOrder)
  /\ \/ /\ phase' = "finished"
        /\ handed' = handed \o ready
     \/ /\ "journal" \in Faults
        /\ phase' = "failed"
        /\ UNCHANGED handed
  /\ ready' = <<>>
  /\ UNCHANGED <<cycle, rows, buffer, flushAt>>

Step ==
  \/ \E f \in CycleFamilies : StepCycle(f)
  \/ \E d \in DelegationFamilies : StepDelegation(d)
  \/ StepExit
  \/ StepFails

ExecutorNext == Step \/ HandOver \/ BeginFinish \/ FlushBuffer \/ Finish

ExecutorSpec == ExecutorInit /\ [][ExecutorNext]_executorVars

-----------------------------------------------------------------------------
(* What the cut must be. *)

\* Rows [i*h, min((i+1)*h, len)) of a family, the shard i the plan names.
PlannedRows(f, i) ==
  LET h == Height[f]
      last == IF (i + 1) * h <= Len(rows[f]) THEN (i + 1) * h ELSE Len(rows[f])
  IN SubSeq(rows[f], i * h + 1, last)

\* trace::plan_shards: ceil(rows / height).
PlanShards == [f \in Families |-> (Len(rows[f]) + Height[f] - 1) \div Height[f]]

\* Every shard handed over holds exactly the rows the plan's cut gives its
\* index (streaming.md section 4: a shard's rows need no splitting), although
\* it was cut before the later rows existed.
ShardsAreThePlannedCut ==
  \A k \in 1..Len(handed) :
    handed[k].rows = PlannedRows(handed[k].family, handed[k].index)

\* Once the run has finished, the shards handed over are the plan's: each of
\* plan_shards' (family, index) pairs once, and nothing else.  pass1 asserts
\* the count per family.
FinishedMeansThePlan ==
  phase = "finished" =>
    \A f \in Families, i \in 0..(MaxCycles + 1) :
      LET positions == {k \in 1..Len(handed) :
                          handed[k].family = f /\ handed[k].index = i}
      IN IF i < PlanShards[f] THEN \E k \in positions : positions = {k}
                              ELSE positions = {}

\* What next_shards returns never holds two shards of one family, which is
\* what Source::admit asserts of every batch it is given.
OneShardPerFamilyReady ==
  \A j, k \in 1..Len(ready) : ready[j].family = ready[k].family => j = k

\* Between cycles a buffer is short of its height, so no shard needs splitting.
BuffersArePartial == \A f \in Families : Len(buffer[f]) < Height[f]
=============================================================================
