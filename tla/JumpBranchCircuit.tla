------------------------- MODULE JumpBranchCircuit -------------------------
(***************************************************************************)
(* JUMP_BRANCH_SLT (crates/constraints/src/jump_branch_slt.rs), with the   *)
(* prover's fill of a row (`jump_branch_slt` in prover/src/fill.rs).       *)
(***************************************************************************)
EXTENDS RowGadgets

Slts == {"slti", "sltiu", "slt", "sltu"}
JumpBranchOps == Slts \cup Branches \cup {"jal", "jalr"}
JumpBranchGroups == <<"compare", "eq", "value", "rd", "next">>

JumpRs1(s) == Read(s, s.op # "jal", s.rs1)
JumpRs2(s) == Read(s, s.op \in {"slt", "sltu"} \cup Branches, s.rs2)
\* cmp_rhs = rs2 + (slti + sltiu)·imm; signed on four kinds.
CmpRhs(s) == (JumpRs2(s) + (IF s.op \in {"slti", "sltiu"} THEN s.imm ELSE 0)) % P
SignedCompare(s) == Truth(s.op \in {"slti", "slt", "blt", "bge"})

\* taken_rule.
TakenBit(s, row) ==
    CASE s.op = "beq" -> row.eq [] s.op = "bne" -> 1 - row.eq
      [] s.op \in {"blt", "bltu"} -> row.compare.lt
      [] s.op \in {"bge", "bgeu"} -> 1 - row.compare.lt
      [] OTHER -> 0

\* The written value: the link, or the one `lt`.
LinkOrLt(s, row) ==
    {sel \in RangePairs :
        Zero(sel.value - (CASE s.op \in {"jal", "jalr"} -> s.seq
                            [] s.op \in Slts -> row.compare.lt [] OTHER -> 0))}

\* next_pc_rule over the selected sum, and next_pc_even: the low half, halved
\* in the field, is a half.
HalfOf(x) == (x * ((P + 1) \div 2)) % P
\* Mutant: an odd target.
AnyParity(n) == TRUE
EvenTarget(n) == HalfOf(n.value - Half * n.hi) \in HalfValues
TargetColumns(s, row) ==
    LET taken == TakenBit(s, row)
    IN  {n \in [next : RangePairs, wrap : Bit, drop : Bit] :
            /\ taken \in Bit
            /\ EvenTarget(n.next)
            /\ Zero(n.next.value + Word * n.wrap
                    - (CASE s.op = "jalr" -> JumpRs1(s) + s.imm - n.drop
                         [] s.op = "jal" \/ taken = 1 -> s.pc + s.imm
                         [] OTHER -> s.seq))}

JumpWritesRd(s) == s.op \in Slts \cup {"jal", "jalr"}

JumpBranchColumns(group, s, row) ==
    CASE group = "compare" -> Comparison(JumpRs1(s), CmpRhs(s), SignedCompare(s))
      [] group = "eq" -> IsZero[(JumpRs1(s) - CmpRhs(s)) % P, 1]
      [] group = "value" -> LinkOrLt(s, row)
      [] group = "rd" -> IF JumpWritesRd(s) THEN RdWrites(s.rd, row.value.value) ELSE {0}
      [] group = "next" -> TargetColumns(s, row)

JumpBranchOutcome(s, row) ==
    Effect(row.next.next.value, IF JumpWritesRd(s) THEN <<s.rd, row.rd>> ELSE <<>>, <<>>, <<>>)

FillJumpBranch(s) ==
    LET a == JumpRs1(s)
        rhs == CmpRhs(s)
        lt == IF SignedCompare(s) = 1 THEN Signed(a) < Signed(rhs) ELSE a < rhs
        taken == s.op \in Branches /\ Taken(s.op, a, rhs)
        sum == IF s.op = "jalr" THEN a + s.imm ELSE s.pc + s.imm
        drop == IF s.op = "jalr" THEN sum % 2 ELSE 0
        jumps == taken \/ s.op \in {"jal", "jalr"}
        sel == CASE s.op \in {"jal", "jalr"} -> s.seq [] s.op \in Slts -> Truth(lt) [] OTHER -> 0
    IN  [compare |-> FillComparison(a, rhs, Truth(lt)),
         eq |-> Truth(a = rhs),
         value |-> Halved(sel),
         rd |-> IF JumpWritesRd(s) THEN FillRd(s.rd, sel) ELSE 0,
         next |-> [next |-> Halved(IF jumps THEN (sum % Word) - drop ELSE s.seq),
                   wrap |-> Truth(jumps /\ sum >= Word), drop |-> drop]]
=============================================================================
