--------------------------- MODULE AddSubCircuit ---------------------------
(***************************************************************************)
(* ADD_SUB_LUI_AUIPC: `add`, `sub`, `addi`, `lui`, `auipc` and the system  *)
(* rows (crates/constraints/src/add_sub.rs), with the prover's fill of a   *)
(* row (`add_sub` in crates/prover/src/fill.rs).                           *)
(***************************************************************************)
EXTENDS RowGadgets

CONSTANT SystemCode     \* "ecall", "fence", "ebreak" -> the decoded immediate

AddSubOps == {"add", "sub", "addi", "lui", "auipc", "ecall", "fence", "ebreak"}
AddSubGroups == <<"system", "value", "rd", "next">>
System(op) == Truth(op \in {"ecall", "fence", "ebreak"})

\* The operands: an ecall row reads a7 and a0.
SystemImm(s) == IF s.op \in DOMAIN SystemCode THEN SystemCode[s.op] ELSE s.imm
AddSubRs1(s, ecall) == Read(s, s.op \in {"add", "sub", "addi"} \/ ecall = 1,
                            IF ecall = 1 THEN A7 ELSE s.rs1)
AddSubRs2(s, ecall) == Read(s, s.op \in {"add", "sub"} \/ ecall = 1,
                            IF ecall = 1 THEN A0 ELSE s.rs2)

\* system_split, ecall_code, fence_code, the request selectors and their
\* numbers, and ecall_is_exit over what they leave.
IsExit(row) == row.is_ecall - Cardinality({t \in DOMAIN row.deleg : row.deleg[t] = 1})
\* Mutant: any call left over is an exit.
AnyExit(s, sys) == TRUE
ExitNumber(s, sys) == Zero(IsExit(sys) * (AddSubRs1(s, sys.is_ecall) - EcallNumber["exit"]))
SystemColumns(s) ==
    {sys \in [is_ecall : Bit, is_fence : Bit, deleg : [KnownTypes(s.format) -> Bit]] :
        /\ Zero(sys.is_ecall + sys.is_fence - System(s.op))
        /\ Zero(sys.is_ecall * SystemImm(s))
        /\ Zero(sys.is_fence * (SystemImm(s) - SystemCode["fence"]))
        /\ \A t \in KnownTypes(s.format) :
              /\ Zero(sys.deleg[t] * (1 - sys.is_ecall))
              /\ Zero(sys.deleg[t] * (AddSubRs1(s, sys.is_ecall) - EcallNumber[t]))
        /\ ExitNumber(s, sys)}

\* The computed rd value: one gate per kind, exit_status, and a request's a0.
ValueColumns(s, sys) ==
    LET rs1 == AddSubRs1(s, sys.is_ecall)
        rs2 == AddSubRs2(s, sys.is_ecall)
        requested(t) == sys.deleg[t] = 1
    IN  {v \in [sel : RangePairs, wrap : Bit] :
            LET sel == v.sel.value IN
            /\ s.op \in {"add", "addi", "auipc"} =>
                  Zero(rs1 + rs2 + s.imm + (IF s.op = "auipc" THEN s.pc ELSE 0) - sel - Word * v.wrap)
            /\ s.op = "sub" => Zero(rs1 - rs2 - sel + Word * v.wrap)
            /\ s.op = "lui" => Zero(s.imm - sel)
            /\ Zero(IsExit(sys) * (s.regs[A0] - sel))
            /\ \A t \in DOMAIN sys.deleg :
                  requested(t) => Zero(IF t \in BaseTypes THEN sel
                                       ELSE sel - rs2 - 4 * FrameWords[t])}

\* The fall-through, or HALT_PC on an exit row.
NextPcColumns(s, sys) ==
    {n \in [next : RangePairs, wrap : Bit] :
        Zero(n.next.value + Word * n.wrap - (1 - IsExit(sys)) * s.seq - IsExit(sys) * HaltPc)}

AddSubWritesRd(s, sys) == s.op \in {"add", "sub", "addi", "auipc", "lui"} \/ sys.is_ecall = 1
AddSubRd(s, sys) == IF sys.is_ecall = 1 THEN A0 ELSE s.rd

AddSubColumns(group, s, row) ==
    CASE group = "system" -> SystemColumns(s)
      [] group = "value" -> ValueColumns(s, row.system)
      [] group = "rd" -> IF AddSubWritesRd(s, row.system)
                         THEN RdWrites(AddSubRd(s, row.system), row.value.sel.value) ELSE {0}
      [] group = "next" -> NextPcColumns(s, row.system)

\* What a row says was done; a request is the mirror query's tag and address.
AddSubOutcome(s, row) ==
    LET asked == {t \in DOMAIN row.system.deleg : row.system.deleg[t] = 1}
    IN  Effect(row.next.next.value,
               IF AddSubWritesRd(s, row.system) THEN <<AddSubRd(s, row.system), row.rd>> ELSE <<>>,
               <<>>,
               IF asked = {} THEN <<>>
               ELSE <<CHOOSE t \in asked : TRUE, AddSubRs2(s, row.system.is_ecall)>>)

\* The fill's row.
FillAddSub(s) ==
    LET ecall == Truth(s.op = "ecall")
        a == AddSubRs1(s, ecall)
        b == AddSubRs2(s, ecall)
        deleg == [t \in KnownTypes(s.format) |-> Truth(s.op = "ecall" /\ a = EcallNumber[t])]
        asked == {t \in DOMAIN deleg : deleg[t] = 1}
        value == CASE s.op \in {"add", "addi"} -> <<a, IF s.op = "add" THEN b ELSE s.imm>>
                   [] s.op = "auipc" -> <<s.pc, s.imm>>
                   [] s.op = "sub" -> <<a, -b>>
                   [] s.op = "lui" -> <<s.imm, 0>>
                   [] s.op = "ecall" /\ asked = {} -> <<s.regs[A0], 0>>
                   [] s.op = "ecall" /\ asked # {} -> <<AfterCall(CHOOSE t \in asked : TRUE, b), 0>>
                   [] OTHER -> <<0, 0>>
        sel == (value[1] + value[2]) % Word
        writes == s.op \notin {"fence", "ebreak"}
        next == IF s.op = "ecall" /\ asked = {} THEN HaltPc ELSE s.seq
    IN  [system |-> [is_ecall |-> ecall, is_fence |-> Truth(s.op = "fence"), deleg |-> deleg],
         value |-> [sel |-> Halved(sel), wrap |-> Truth(value[1] + value[2] \notin Words)],
         rd |-> IF writes THEN FillRd(IF ecall = 1 THEN A0 ELSE s.rd, sel) ELSE 0,
         next |-> [next |-> Halved(next), wrap |-> 0]]
=============================================================================
