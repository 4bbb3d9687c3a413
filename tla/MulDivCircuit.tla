--------------------------- MODULE MulDivCircuit ---------------------------
(***************************************************************************)
(* MUL_DIV (crates/constraints/src/mul_div.rs), with the prover's fill of  *)
(* a row (`mul_div` in crates/prover/src/fill.rs).                         *)
(*                                                                         *)
(* A multiply row's quotient and remainder are free and reach no value;    *)
(* they are given on a division row alone.                                 *)
(***************************************************************************)
EXTENDS RowGadgets

Muls == {"mul", "mulh", "mulhsu", "mulhu"}
Divs == {"div", "divu", "rem", "remu"}
MulDivOps == Muls \cup Divs
MulDivGroups == <<"quotient", "product", "remainder", "rd">>

LeftSigned == {"mul", "mulh", "mulhsu", "div", "rem"}
RightSigned == {"mul", "mulh", "div", "rem"}

\* s1_rule and s2_rule: the operands' sign adjustments.
S1(s) == Truth(s.op \in LeftSigned) * SignOf(High(s.regs[s.rs1]))
S2(s) == Truth(s.op \in RightSigned) * SignOf(High(s.regs[s.rs2]))
Left(s) == s.regs[s.rs1] - Word * S1(s)
Right(s) == s.regs[s.rs2] - Word * S2(s)

\* The quotient, its sign, and zero_divisor_quotient.
QuotientColumns(s) ==
    IF s.op \in Muls THEN {<<>>}
    ELSE {q \in [q : RangePairs, sign : Bit, dz : IsZero[s.regs[s.rs2], 1]] :
            Zero(q.dz * (q.q.value - (Word - 1)))}

\* product_rule: the operands on a multiply row, divisor and quotient on a
\* division one.
ProductColumns(s, quotient) ==
    LET mx == IF s.op \in Muls THEN Left(s) ELSE Right(s)
        my == IF s.op \in Muls THEN Right(s) ELSE quotient.q.value - Word * quotient.sign
    IN  {p \in [low : RangePairs, high : RangePairs, sign : Bit] :
            Zero(mx * my - p.low.value - Word * p.high.value + Word * Word * p.sign)}

\* division_rule, r_sign_rule and gap_rule: the remainder completes the
\* product, is signed as the dividend unless zero, and is smaller than a
\* nonzero divisor.
\* Mutant: a zero remainder signed as the dividend.
DividendSign(s, r) == Zero(r.sign - S1(s))
RemainderSign(s, r) == Zero(r.sign - S1(s) * (1 - r.rz))
AbsOf(value, sign) == value + Word * sign - 2 * value * sign
RemainderColumns(s, row) ==
    IF s.op \in Muls THEN {<<>>}
    ELSE {r \in [r : RangePairs, sign : Bit, rz : Bit] :
            /\ r.rz \in IsZero[r.r.value, 1]
            /\ RemainderSign(s, r)
            /\ Zero(row.product.low.value + Word * row.product.high.value
                    - Word * Word * row.product.sign + r.r.value - Word * r.sign - Left(s))
            /\ (AbsOf(s.regs[s.rs2], S2(s)) - AbsOf(r.r.value, r.sign) - 1
                    + Word * row.quotient.dz) % P \in Words}

\* rd_value_rule.
MulDivValue(s, row) ==
    CASE s.op = "mul" -> row.product.low.value
      [] s.op \in {"mulh", "mulhsu", "mulhu"} -> row.product.high.value
      [] s.op \in {"div", "divu"} -> row.quotient.q.value
      [] s.op \in {"rem", "remu"} -> row.remainder.r.value

MulDivColumns(group, s, row) ==
    CASE group = "quotient" -> QuotientColumns(s)
      [] group = "product" -> ProductColumns(s, row.quotient)
      [] group = "remainder" -> RemainderColumns(s, row)
      [] group = "rd" -> RdWrites(s.rd, MulDivValue(s, row))

MulDivOutcome(s, row) == Effect(s.seq, <<s.rd, row.rd>>, <<>>, <<>>)

\* The fill: a zero divisor has a quotient of all ones; elsewhere the
\* quotient's adjusted value is what the remainder leaves, divided.
FillMulDiv(s) ==
    LET a == s.regs[s.rs1]
        b == s.regs[s.rs2]
        r == Operation(IF s.op \in {"div", "rem"} THEN "rem" ELSE "remu", a, b)
        rz == Truth(r = 0)
        r_sign == S1(s) * (1 - rz)
        q_adj == IF b = 0 THEN Word - 1 ELSE TruncDiv(Left(s) - (r - Word * r_sign), Right(s))
        product == IF s.op \in Muls THEN Left(s) * Right(s) ELSE Right(s) * q_adj
        sign == Truth(product < 0)
        shifted == product + Word * Word * sign
        given == [product |-> [low |-> Halved(shifted % Word), high |-> Halved(shifted \div Word),
                               sign |-> sign],
                  quotient |-> IF s.op \in Muls THEN <<>>
                               ELSE [q |-> Halved(q_adj % Word), sign |-> Truth(q_adj < 0),
                                     dz |-> Truth(b = 0)],
                  remainder |-> IF s.op \in Muls THEN <<>>
                                ELSE [r |-> Halved(r), sign |-> r_sign, rz |-> rz]]
    IN  [g \in DOMAIN given \cup {"rd"} |->
            IF g = "rd" THEN FillRd(s.rd, MulDivValue(s, given)) ELSE given[g]]
=============================================================================
