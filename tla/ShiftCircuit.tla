---------------------------- MODULE ShiftCircuit ----------------------------
(***************************************************************************)
(* SHIFT_BITWISE (crates/constraints/src/shift_bitwise.rs), with the       *)
(* prover's fill of a row (`shift_bitwise` in prover/src/fill.rs).         *)
(*                                                                         *)
(* A shift row's byte columns and a bitwise row's shift columns reach no   *)
(* value; each is given where its selector is live.                        *)
(***************************************************************************)
EXTENDS RowGadgets

ShiftLefts == {"sll", "slli"}
Arithmetics == {"sra", "srai"}
Shifts == ShiftLefts \cup Arithmetics \cup {"srl", "srli"}
BitwiseOps == {"xor", "xori", "or", "ori", "and", "andi"}
ShiftOps == Shifts \cup BitwiseOps
ShiftGroups == <<"operand", "value", "rd">>

WordBits == 4 * ByteBits
Src2(s) == Read(s, s.op \notin Immediates, s.rs2) + (IF s.op \in Immediates THEN s.imm ELSE 0)
Rs1(s) == s.regs[s.rs1]

\* amount_split, the key's bound and its ShiftPowers row.
AmountColumns(s) ==
    {a \in [amount : 0..WordBits - 1, high : RangePairs] :
        Zero(Src2(s) - WordBits * a.high.value - a.amount)}
Pow(amount) == 2^amount
Copow(amount) == 2^(WordBits - 1 - amount)

SignExtension(s) == Truth(s.op \in Arithmetics) * SignOf(High(Rs1(s)))

\* shift_in, shift_prod and shift_out: a left shift's product is the value and
\* its overflow; a right shift's value times its power, with the residue, is
\* the operand, and the residue, scaled to a word, is below the power.
\* Mutant: a residue of any size.
UnscaledResidue(amount, residue) == TRUE
ScaledResidue(amount, residue) == (2 * residue * Copow(amount)) % P \in Words
ShiftedColumns(s, a) ==
    LET se == SignExtension(s)
        pow == Pow(a.amount)
    IN  IF s.op \in ShiftLefts
        THEN {v \in [sel : RangePairs, rest : RangePairs] :
                 Zero(Rs1(s) * pow - v.sel.value - Word * v.rest.value)}
        ELSE {v \in [sel : RangePairs, rest : RangePairs] :
                 /\ Zero((v.sel.value - Word * se) * pow + v.rest.value - Rs1(s) + Word * se)
                 /\ ScaledResidue(a.amount, v.rest.value)}

\* bitwise_out_rule: AND, and OR and XOR from it.
BitwiseColumns(s, bytes) ==
    LET both == AndOf(bytes)
        sum == Rs1(s) + Src2(s)
    IN  {v \in [sel : RangePairs] :
            Zero(v.sel.value - (CASE s.op \in {"and", "andi"} -> both
                                  [] s.op \in {"or", "ori"} -> sum - both
                                  [] s.op \in {"xor", "xori"} -> sum - 2 * both))}

ShiftColumns(group, s, row) ==
    CASE group = "operand" -> IF s.op \in Shifts THEN AmountColumns(s)
                             ELSE ByteColumns(Rs1(s), Src2(s))
      [] group = "value" -> IF s.op \in Shifts THEN ShiftedColumns(s, row.operand)
                            ELSE BitwiseColumns(s, row.operand)
      [] group = "rd" -> RdWrites(s.rd, row.value.sel.value)

ShiftOutcome(s, row) == Effect(s.seq, <<s.rd, row.rd>>, <<>>, <<>>)

FillShift(s) ==
    LET a == Rs1(s)
        src2 == Src2(s)
        amount == src2 % WordBits
        se == SignExtension(s)
        value == CASE s.op \in ShiftLefts -> (a * Pow(amount)) % Word
                   [] s.op \in Shifts -> FloorDiv(a - se * Word, Pow(amount)) % Word
                   [] s.op \in {"and", "andi"} -> a & src2
                   [] s.op \in {"or", "ori"} -> a | src2
                   [] s.op \in {"xor", "xori"} -> a ^^ src2
        rest == IF s.op \in ShiftLefts THEN (a * Pow(amount)) \div Word
                ELSE (a - se * Word) - (value - se * Word) * Pow(amount)
    IN  [operand |-> IF s.op \in Shifts
                     THEN [amount |-> amount, high |-> Halved(src2 \div WordBits)]
                     ELSE [a |-> BytesOf(a), b |-> BytesOf(src2)],
         value |-> IF s.op \in Shifts THEN [sel |-> Halved(value), rest |-> Halved(rest)]
                   ELSE [sel |-> Halved(value)],
         rd |-> FillRd(s.rd, value)]
=============================================================================
