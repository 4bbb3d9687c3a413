--------------------------- MODULE AtomicsCircuit ---------------------------
(***************************************************************************)
(* ATOMICS (crates/constraints/src/atomics.rs), with the prover's fill of  *)
(* a row (`atomics` in crates/prover/src/fill.rs).                         *)
(*                                                                         *)
(* The byte columns of a row that is not bitwise reach no value; they are  *)
(* given on a bitwise row alone.                                           *)
(***************************************************************************)
EXTENDS RowGadgets

AtomicOps == Atomics
AtomicGroups == <<"address", "compare", "sum", "bytes", "rd">>
BitwiseAmos == {"amoand", "amoor", "amoxor"}

Old(s, row) == s.ram[4 * row.address.index.value]
Src(s) == Read(s, s.op # "lr", s.rs2)
SignedOrder(s) == Truth(s.op \in {"amomin", "amomax"})

SumColumns(s, old) ==
    {v \in [sum : RangePairs, wrap : Bit] : Zero(old + Src(s) - v.sum.value - Word * v.wrap)}

\* ram_value_rule's eleven arms, over lo_rule's smaller operand.
NewWord(s, row) ==
    LET old == Old(s, row)
        lo == Src(s) + row.compare.lt * (old - Src(s))
    IN  CASE s.op = "lr" -> old
          [] s.op \in {"sc", "amoswap"} -> Src(s)
          [] s.op = "amoadd" -> row.sum.sum.value
          [] s.op \in {"amomin", "amominu"} -> lo
          [] s.op \in {"amomax", "amomaxu"} -> old + Src(s) - lo
          [] s.op = "amoand" -> AndOf(row.bytes)
          [] s.op = "amoor" -> old + Src(s) - AndOf(row.bytes)
          [] s.op = "amoxor" -> old + Src(s) - 2 * AndOf(row.bytes)

AtomicRd(s, old) == IF s.op = "sc" THEN 0 ELSE old

AtomicColumns(group, s, row) ==
    CASE group = "address" -> {a \in AddressColumns(s.regs[s.rs1], {0}) : a.wrap = 0}
      [] group = "compare" -> Comparison(Old(s, row), Src(s), SignedOrder(s))
      [] group = "sum" -> SumColumns(s, Old(s, row))
      [] group = "bytes" -> IF s.op \in BitwiseAmos THEN ByteColumns(Old(s, row), Src(s)) ELSE {<<>>}
      [] group = "rd" -> RdWrites(s.rd, AtomicRd(s, Old(s, row)))

AtomicOutcome(s, row) ==
    Effect(s.seq, <<s.rd, row.rd>>, <<4 * row.address.index.value, NewWord(s, row)>>, <<>>)

FillAtomic(s) ==
    LET old == s.ram[WordOf(Address(s))]
        b == Src(s)
        lt == IF SignedOrder(s) = 1 THEN Signed(old) < Signed(b) ELSE old < b
    IN  [address |-> FillAddress(s.regs[s.rs1]),
         compare |-> FillComparison(old, b, Truth(lt)),
         sum |-> [sum |-> Halved((old + b) % Word), wrap |-> Truth(old + b >= Word)],
         bytes |-> IF s.op \in BitwiseAmos THEN [a |-> BytesOf(old), b |-> BytesOf(b)] ELSE <<>>,
         rd |-> FillRd(s.rd, AtomicRd(s, old))]
=============================================================================
