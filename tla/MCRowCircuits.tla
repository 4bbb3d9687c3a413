--------------------------- MODULE MCRowCircuits ---------------------------
(***************************************************************************)
(* RowCircuits over one-bit bytes and four-bit words, the width at which   *)
(* the code's own exhaustive checks of these gates run                     *)
(* (crates/checker/tests/{mul_div,memory_ops}.rs).                         *)
(***************************************************************************)
EXTENDS RowCircuits, TLC

\* Around zero, the sign and the top.
Edges == {0, 1, 2, 3, 5, 7, 8, 9, 14, 15}
MCEcallNumber == [exit |-> 3, squeeze |-> 5, fold |-> 9]
MCFrameWords == [squeeze |-> 1, fold |-> 2]
MCSystemCode == [ecall |-> 0, fence |-> 2, ebreak |-> 1]

Step(op, a, b, rd, imm) ==
    [op |-> op, pc |-> 8, seq |-> 12, rs1 |-> 1, rs2 |-> 2, rd |-> rd, imm |-> imm,
     regs |-> (0 :> 0 @@ 1 :> a @@ 2 :> b @@ A0 :> 6 @@ A7 :> 5),
     ram |-> (4 :> 9 @@ 8 :> 6), format |-> "base"]
Of(ops, operands, rds, imms) ==
    {Step(p[1], p[2], p[3], p[4], p[5]) : p \in ops \X operands \X operands \X rds \X imms}

\* An R-type's immediate is 0; a jump's and a branch's is even.
Computing ==
    Of({"add", "sub", "slt", "sltu"} \cup ((ShiftOps \cup MulDivOps) \ Immediates), Edges, {0, A0}, {0})
    \cup Of(Immediates, {0} \cup Edges, {A0}, Edges)
    \cup Of({"lui", "auipc"}, {0}, {0, A0}, Edges)
    \cup Of({"fence"}, {0}, {0}, {2}) \cup Of({"ebreak"}, {0}, {0}, {1})
Jumping == Of(Branches, Edges, {0}, {4, 14}) \cup Of({"jal"}, {0}, {0, A0}, {0, 4, 14})
           \cup Of({"jalr"}, Edges, {0, A0}, {0, 3, 6, 15})
Calling ==
    {[Step("ecall", 0, 0, 0, 0) EXCEPT !.regs[A0] = p[1], !.regs[A7] = p[2], !.format = p[3]] :
        p \in (Edges \cup {4}) \X {0, 3, 5, 9} \X {"base", "recursion"}}
Accessing ==
    {[Step(p[1], p[2], p[3], p[4], 3) EXCEPT !.ram[8] = p[5]] :
        p \in (Loads \cup Stores) \X {0, 1, 2, 5, 6, 7, 8, 14} \X {1, 6, 15} \X {0, A0} \X {2, 9, 15}}
    \cup {[Step(p[1], p[2], p[3], p[4], 0) EXCEPT !.ram[8] = p[5]] :
             p \in Atomics \X {0, 6, 8} \X Edges \X {0, A0} \X Edges}
MCSteps == Computing \cup Jumping \cup Calling \cup Accessing
=============================================================================
