---------------------------- MODULE RowCircuits ----------------------------
(***************************************************************************)
(* The seven execution families' circuits together: a row of a step is     *)
(* given its columns, group by group, in every way its gates and lookups   *)
(* allow.  A step is of the family its opcode decodes to                   *)
(* (crates/program/src/lib.rs), and its row's decoded columns are that     *)
(* family's table row of its pc.                                           *)
(***************************************************************************)
EXTENDS AddSubCircuit, JumpBranchCircuit, ShiftCircuit, MulDivCircuit, MemoryCircuits,
        AtomicsCircuit

CONSTANT Steps      \* the steps rows are tried for

VARIABLES
    step,
    row             \* the groups of columns given so far
vars == <<step, row>>

Family(s) ==
    CASE s.op \in AddSubOps -> "add_sub" [] s.op \in JumpBranchOps -> "jump_branch_slt"
      [] s.op \in ShiftOps -> "shift_bitwise" [] s.op \in MulDivOps -> "mul_div"
      [] s.op \in WordOps -> "mem_word" [] s.op \in SubwordOps -> "mem_subword"
      [] s.op \in AtomicOps -> "atomics"

Groups(s) ==
    CASE Family(s) = "add_sub" -> AddSubGroups [] Family(s) = "jump_branch_slt" -> JumpBranchGroups
      [] Family(s) = "shift_bitwise" -> ShiftGroups [] Family(s) = "mul_div" -> MulDivGroups
      [] Family(s) = "mem_word" -> WordGroups [] Family(s) = "mem_subword" -> SubwordGroups
      [] Family(s) = "atomics" -> AtomicGroups

Columns(g, s, given) ==
    CASE Family(s) = "add_sub" -> AddSubColumns(g, s, given)
      [] Family(s) = "jump_branch_slt" -> JumpBranchColumns(g, s, given)
      [] Family(s) = "shift_bitwise" -> ShiftColumns(g, s, given)
      [] Family(s) = "mul_div" -> MulDivColumns(g, s, given)
      [] Family(s) = "mem_word" -> WordColumns(g, s, given)
      [] Family(s) = "mem_subword" -> SubwordColumns(g, s, given)
      [] Family(s) = "atomics" -> AtomicColumns(g, s, given)

Outcome(s, given) ==
    CASE Family(s) = "add_sub" -> AddSubOutcome(s, given)
      [] Family(s) = "jump_branch_slt" -> JumpBranchOutcome(s, given)
      [] Family(s) = "shift_bitwise" -> ShiftOutcome(s, given)
      [] Family(s) = "mul_div" -> MulDivOutcome(s, given)
      [] Family(s) = "mem_word" -> WordOutcome(s, given)
      [] Family(s) = "mem_subword" -> SubwordOutcome(s, given)
      [] Family(s) = "atomics" -> AtomicOutcome(s, given)

Fill(s) ==
    CASE Family(s) = "add_sub" -> FillAddSub(s)
      [] Family(s) = "jump_branch_slt" -> FillJumpBranch(s)
      [] Family(s) = "shift_bitwise" -> FillShift(s)
      [] Family(s) = "mul_div" -> FillMulDiv(s)
      [] Family(s) = "mem_word" -> FillWord(s)
      [] Family(s) = "mem_subword" -> FillSubword(s)
      [] Family(s) = "atomics" -> FillAtomic(s)

-----------------------------------------------------------------------------
Given == Cardinality(DOMAIN row)
Init == step \in Steps /\ row = [g \in {} |-> 0]

\* The next group of columns, as any gate and lookup allow.
Assign ==
    /\ Given < Len(Groups(step))
    /\ LET g == Groups(step)[Given + 1]
       IN  \E columns \in Columns(g, step, row) :
              row' = [h \in DOMAIN row \cup {g} |-> IF h = g THEN columns ELSE row[h]]
    /\ UNCHANGED step

Next == Assign
Spec == Init /\ [][Next]_vars

-----------------------------------------------------------------------------
\* Soundness of the gates: a row that satisfies them all is of a step a shard
\* may hold, and writes, jumps and asks for what the emulator does.
SatisfiedRowsAreSteps ==
    Given = Len(Groups(step)) =>
        /\ Provable(step)
        /\ Outcome(step, row) = StepEffect(step)

\* Completeness: the prover's fill of a step a shard may hold satisfies every
\* gate and lookup, at every carry, sign and zero.
HonestRowsSatisfy ==
    Given = 0 /\ Provable(step) /\ (step.op = "ecall" => FrameInRam(step)) =>
        \A k \in 1..Len(Groups(step)) :
            Fill(step)[Groups(step)[k]] \in Columns(Groups(step)[k], step, Fill(step))
=============================================================================
