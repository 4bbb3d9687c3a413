------------------------------- MODULE Machine -------------------------------
(***************************************************************************)
(* The emulator's machine and its recorder over the memory event log:      *)
(* Machine::execute, ecall, delegate and commit, and Recorder::record      *)
(* (crates/emulator/src/lib.rs).                                           *)
(*                                                                         *)
(* An instruction stages its queries in the order the machine makes them   *)
(* and changes the machine at once.  The recorder logs them afterwards, in *)
(* an order of its own: the pc, an invocation's frame, its other accesses, *)
(* then the row's roles.  What a value is computed to be, which address a  *)
(* register holds and whether a branch is taken are any of the values.     *)
(***************************************************************************)
EXTENDS MemoryLog

CONSTANTS
  Registers, X0, A0, A7,  \* X0 need not be among the registers of an instance
  Words,
  Pc,
  Fall,          \* the pc past an instruction
  Halt,          \* HALT_PC
  Frames,        \* the frames a delegation may name: sequences of words
  AnchorOf,      \* each frame's anchor
  Blocks,        \* FIELD_IO's data words: sequences of words
  Vectors,       \* the operands of FR_OP, P2_FIELD and FQ_OP: field cells in a row
  None           \* no register, no operand

DistinctIn(s, S) == s \in Seq(S) /\ \A i, j \in 1..Len(s) : s[i] = s[j] => i = j

ASSUME SpacesAssumption ==
  /\ Chained = Registers \cup Words \cup {Pc}
  /\ Registers \cap Words = {} /\ Pc \notin Registers \cup Words
  /\ A0 \in Registers /\ A7 \in Registers
  /\ None \notin Registers \cup FieldCells
  /\ {Fall, Halt} \subseteq Value
ASSUME OperandsAssumption ==
  /\ \A f \in Frames : DistinctIn(f, Words)
  /\ AnchorOf \in [Frames -> Anchors]
  /\ \A b \in Blocks : DistinctIn(b, Words)
  /\ \A v \in Vectors : DistinctIn(v, FieldCells)

VARIABLES
  memory,   \* Machine's regs, ram and pc
  field,    \* Machine's field
  cycle,    \* the number of the cycle being made, from 1
  pending,  \* its queries not logged yet, in the recorder's order
  exited    \* the exit call was made

machineVars == <<logVars, memory, field, cycle, pending, exited>>

\* Mutant: the image's words are not loaded.
MachineInitBlank ==
  /\ LogInit
  /\ memory = [c \in Chained |-> Zero]
  /\ field = [c \in FieldCells |-> Zero]
  /\ cycle = 1
  /\ pending = <<>>
  /\ exited = FALSE

MachineInit ==
  /\ LogInit
  /\ memory = Initial
  /\ field = [c \in FieldCells |-> Zero]
  /\ cycle = 1
  /\ pending = <<>>
  /\ exited = FALSE

-----------------------------------------------------------------------------
(* Queries *)

\* Mutant: rs1 and rs2 in one slot.
SlotShared == [rs1 |-> 1, rs2 |-> 1, load |-> 2, ram |-> 3, rd |-> 3, delegate |-> 3,
               frame |-> 0, data |-> 1]

Slot == [rs1 |-> 1, rs2 |-> 2, load |-> 2, ram |-> 3, rd |-> 3, delegate |-> 3,
         frame |-> 0, data |-> 1]

QueryOf(c, delta, old, new) == [cell |-> c, delta |-> delta, read |-> old, write |-> new]
Reading(c, delta) == <<QueryOf(c, delta, memory[c], memory[c])>>
Writing(c, delta, new) == <<QueryOf(c, delta, memory[c], new)>>

\* An instruction without the operand stages no query for it.
RegRead(r, delta) == IF r = None THEN <<>> ELSE Reading(r, delta)
Kept(rd, v) == IF rd = X0 THEN Zero ELSE v
RegWrite(rd, v) == IF rd = None THEN <<>> ELSE Writing(rd, Slot.rd, Kept(rd, v))
\* Mutant: x0 is written like any register.
SetRegUnchecked(m, rd, v) == IF rd = None THEN m ELSE [m EXCEPT ![rd] = v]

SetReg(m, rd, v) == IF rd = None THEN m ELSE [m EXCEPT ![rd] = Kept(rd, v)]

PcQuery(next) == Writing(Pc, 0, next)

Each(s, Op(_)) == [j \in 1..Len(s) |-> Op(j)]
FieldReading(s, delta) == Each(s, LAMBDA j : QueryOf(s[j], delta, field[s[j]], field[s[j]]))
FieldWriting(s, delta, new) == Each(s, LAMBDA j : QueryOf(s[j], delta, field[s[j]], new[j]))

\* Mutant: a write-back one word short.
WrittenOverButTheLast(f, s, new) ==
  [c \in DOMAIN f |-> IF \E j \in 1..(Len(s) - 1) : s[j] = c
                      THEN new[CHOOSE j \in 1..Len(s) : s[j] = c]
                      ELSE f[c]]

\* f with the cells of s holding new.
WrittenOver(f, s, new) ==
  [c \in DOMAIN f |-> IF \E j \in 1..Len(s) : s[j] = c
                      THEN new[CHOOSE j \in 1..Len(s) : s[j] = c]
                      ELSE f[c]]

\* A machine that may make another cycle: the clock has room for it.
MayExecute == pending = <<>> /\ ~exited /\ 4 * cycle + 3 < ClockEnd

Execute(next, queries, m) ==
  /\ MayExecute
  /\ pending' = PcQuery(next) \o queries
  /\ memory' = [m EXCEPT ![Pc] = next]
  /\ UNCHANGED <<logVars, cycle>>

-----------------------------------------------------------------------------
(* Instructions *)

\* Every instruction of registers alone: op, op_imm, branch, jumps, lui, auipc.
Compute(rs1, rs2, rd, v, next) ==
  /\ Execute(next, RegRead(rs1, Slot.rs1) \o RegRead(rs2, Slot.rs2) \o RegWrite(rd, v),
             SetReg(memory, rd, v))
  /\ UNCHANGED <<field, exited>>

Load(rs1, w, rd, v) ==
  /\ Execute(Fall, Reading(rs1, Slot.rs1) \o Reading(w, Slot.load) \o RegWrite(rd, v),
             SetReg(memory, rd, v))
  /\ UNCHANGED <<field, exited>>

Store(rs1, rs2, w, v) ==
  /\ Execute(Fall, Reading(rs1, Slot.rs1) \o Reading(rs2, Slot.rs2) \o Writing(w, Slot.ram, v),
             [memory EXCEPT ![w] = v])
  /\ UNCHANGED <<field, exited>>

\* lr, sc and the AMOs: the word rewritten, rd given its old value or, by sc, 0.
Atomic(rs1, rs2, w, rd, v, result) ==
  /\ Execute(Fall, Reading(rs1, Slot.rs1) \o RegRead(rs2, Slot.rs2)
                     \o Writing(w, Slot.ram, v) \o RegWrite(rd, result),
             SetReg([memory EXCEPT ![w] = v], rd, result))
  /\ UNCHANGED <<field, exited>>

\* An ecall's row: the number, the argument, the result.
CallRow(result) ==
  Reading(A7, Slot.rs1) \o Reading(A0, Slot.rs2) \o Writing(A0, Slot.rd, result)

Exit ==
  /\ Execute(Halt, CallRow(memory[A0]), memory)
  /\ exited' = TRUE
  /\ UNCHANGED field

UnknownCall(v) ==
  /\ Execute(Fall, Reading(A7, Slot.rs1) \o Writing(A0, Slot.rd, v), [memory EXCEPT ![A0] = v])
  /\ UNCHANGED <<field, exited>>

\* A delegation: the frame, the invocation's other accesses, the request's
\* row and its mirror query, which reads the answer and writes 0 back.
Delegate(f, frame, extra, m, result) ==
  /\ Execute(Fall, frame \o extra \o CallRow(result)
                     \o <<QueryOf(AnchorOf[f], Slot.delegate, Zero, Zero)>>,
             [m EXCEPT ![A0] = result])
  /\ UNCHANGED exited

FrameWriting(f, new) == Each(f, LAMBDA j : QueryOf(f[j], Slot.frame, memory[f[j]], new[j]))
FrameReading(f) == FrameWriting(f, [j \in 1..Len(f) |-> memory[f[j]]])

\* A base type answers in place.
AnswerInPlace(f, new, result) ==
  /\ Delegate(f, FrameWriting(f, new), <<>>, WrittenOver(memory, f, new), result)
  /\ UNCHANGED field

\* FR_OP: a, b and d where the op has them; DIGIT writes b before it reads d.
FrOp(f, a, b, d, v, result) ==
  /\ Delegate(f, FrameReading(f),
              FieldReading(a, 0) \o FieldReading(b, 1)
                \o FieldWriting(d, 2, [j \in 1..Len(d) |-> v]), memory, result)
  /\ field' = WrittenOver(field, d, [j \in 1..Len(d) |-> v])

\* Mutant: d is read with a and b, before b is written.
FrDigitReadAtOnce(f, a, b, d, rest, digit, result) ==
  LET mid == [field EXCEPT ![b] = rest] IN
  /\ Delegate(f, FrameReading(f),
              <<QueryOf(a, 0, field[a], field[a]), QueryOf(b, 1, field[b], rest),
                QueryOf(d, 2, field[d], digit)>>, memory, result)
  /\ field' = [mid EXCEPT ![d] = digit]

FrDigit(f, a, b, d, rest, digit, result) ==
  LET mid == [field EXCEPT ![b] = rest] IN
  /\ Delegate(f, FrameReading(f),
              <<QueryOf(a, 0, field[a], field[a]), QueryOf(b, 1, field[b], rest),
                QueryOf(d, 2, mid[d], digit)>>, memory, result)
  /\ field' = [mid EXCEPT ![d] = digit]

\* P2_FIELD and FQ_OP: three operands read, one after the other, and a vector
\* written.
VectorOp(f, first, second, third, d, new, result) ==
  /\ Delegate(f, FrameReading(f),
              FieldReading(first, 0) \o FieldReading(second, 1) \o FieldReading(third, 2)
                \o FieldWriting(d, 3, new), memory, result)
  /\ field' = WrittenOver(field, d, new)

\* FIELD_IO: the data words, then the cell; an import changes the cell, an
\* export the words.
FieldIo(f, block, words, c, v, result) ==
  /\ Delegate(f, FrameReading(f),
              Each(block, LAMBDA j : QueryOf(block[j], Slot.data, memory[block[j]], words[j]))
                \o <<QueryOf(c, 0, field[c], v)>>, WrittenOver(memory, block, words), result)
  /\ field' = [field EXCEPT ![c] = v]

FieldImport(f, block, c, v, result) ==
  FieldIo(f, block, [j \in 1..Len(block) |-> memory[block[j]]], c, v, result)
FieldExport(f, block, words, c, result) == FieldIo(f, block, words, c, field[c], result)

-----------------------------------------------------------------------------
(* Recorder::record, a query at a time *)

Logged(q) ==
  IF q.cell \in FieldCells
  THEN RecordField(q.cell, 4 * cycle + q.delta, q.read, q.write)
  ELSE Record(q.cell, 4 * cycle + q.delta, q.read, q.write)

LogQuery ==
  /\ pending # <<>>
  /\ Logged(Head(pending))
  /\ pending' = Tail(pending)
  /\ cycle' = IF Len(pending) = 1 THEN cycle + 1 ELSE cycle
  /\ UNCHANGED <<memory, field, exited>>

RegOrNone == Registers \cup {None}
Operand == Vectors \cup {<<>>}
Cells == [1..1 -> FieldCells]

ExecuteNext ==
  \/ \E rs1, rs2, rd \in RegOrNone, v, next \in Value : Compute(rs1, rs2, rd, v, next)
  \/ \E rs1 \in Registers, w \in Words, rd \in RegOrNone, v \in Value : Load(rs1, w, rd, v)
  \/ \E rs1, rs2 \in Registers, w \in Words, v \in Value : Store(rs1, rs2, w, v)
  \/ \E rs1 \in Registers, rs2, rd \in RegOrNone, w \in Words, v \in Value :
       \E result \in {memory[w], Zero} : Atomic(rs1, rs2, w, rd, v, result)
  \/ Exit
  \/ \E v \in Value : UnknownCall(v)

BaseDelegateNext ==
  \E f \in Frames, result \in Value : \E new \in [1..Len(f) -> Value] : AnswerInPlace(f, new, result)

FieldDelegate(f, result) ==
  \/ \E a, b, d \in Cells \cup {<<>>}, v \in Value : FrOp(f, a, b, d, v, result)
  \/ \E a, b, d \in FieldCells, rest, digit \in Value : FrDigit(f, a, b, d, rest, digit, result)
  \/ \E first, second, third \in Operand, d \in Vectors :
       \E new \in [1..Len(d) -> Value] : VectorOp(f, first, second, third, d, new, result)
  \/ \E b \in Blocks, c \in FieldCells, v \in Value : FieldImport(f, b, c, v, result)
  \/ \E b \in Blocks, c \in FieldCells :
       \E words \in [1..Len(b) -> Value] : FieldExport(f, b, words, c, result)

DelegateNext == BaseDelegateNext \/ \E f \in Frames, result \in Value : FieldDelegate(f, result)

MachineNext == ExecuteNext \/ DelegateNext \/ LogQuery

MachineSpec == MachineInit /\ [][MachineNext]_machineVars

-----------------------------------------------------------------------------
(* Properties *)

\* record and record_field never panic: whatever overlaps in a cycle - a
\* register read and written, a frame and a data block, two operands in one
\* field cell - the value the machine read is the last one logged, written
\* strictly before, and the log is in timestamp order.
NoQueryIsRefused ==
  pending # <<>> =>
    LET q == Head(pending) IN
    IF q.cell \in FieldCells
    THEN AcceptsField(q.cell, 4 * cycle + q.delta, q.read)
    ELSE Accepts(q.cell, 4 * cycle + q.delta, q.read)

\* The log of an honest execution passes the memory argument after every cycle.
HonestLogsPassTheCheck == pending = <<>> => SelfCheck(events)

\* What teardown binds is what the machine holds: after every cycle the tables
\* have the value of every cell they touch, and the rest were never changed.
TheTablesAreTheMachine ==
  pending = <<>> =>
    /\ \A c \in Chained :
         memory[c] = IF c \in DOMAIN lastAccess THEN lastAccess[c].value ELSE Initial[c]
    /\ \A c \in FieldCells :
         field[c] = IF c \in DOMAIN fieldAccess THEN fieldAccess[c].value ELSE Zero

SpaceOf(c) == IF c \in Registers THEN "reg" ELSE IF c \in Words THEN "ram"
              ELSE IF c = Pc THEN "pc" ELSE "anchor"

\* What a row does not store can be found again: "No two roles share a (space,
\* slot) pair", so an event of a cycle finds its frame query by that pair alone,
\* an invocation's words being its own rows', and the pc's read timestamp "is
\* always the previous cycle's pc write".
EventsRouteByTheirSlot ==
  /\ \A i, j \in 1..Len(events) :
       /\ i # j
       /\ events[i].ts = events[j].ts
       /\ SpaceOf(events[i].cell) = SpaceOf(events[j].cell)
       => SpaceOf(events[i].cell) = "ram" /\ events[i].ts % 4 \in {Slot.frame, Slot.data}
  /\ \A i \in 1..Len(events) : events[i].cell = Pc => events[i].readTs = events[i].ts - 4
=============================================================================
