----------------------------- MODULE RowGadgets -----------------------------
(***************************************************************************)
(* What the execution families' circuits share                             *)
(* (crates/constraints/src/{gadgets,memory,lookup}.rs): range checks, the  *)
(* is-zero test, the comparison, bytes, the accessed word, the x0 rule.    *)
(*                                                                         *)
(* A row is an assignment of field elements to columns; the field is the   *)
(* integers modulo the prime P.  A lookup is membership of its table.      *)
(* Each gadget here is the set of assignments its gates and lookups allow. *)
(* Read by no other gate, an inverse is quantified where it is used.       *)
(***************************************************************************)
EXTENDS Isa

CONSTANT P          \* the field's order, a prime

F == 0..P - 1
Bit == {0, 1}
Zero(x) == x % P = 0

\* Every sum and product the gates form is below the field's order.
ASSUME RowAssumption ==
    /\ ByteBits \in Nat \ {0}
    /\ P > 2 * Word * Word
    /\ \A n \in 2..P - 1 : n * n <= P => P % n # 0

\* A column x with its high half: RANGE16 on both halves, `x - 2^16 hi`.
HalfValues == 0..Half - 1
High(x) == x \div Half
Halved(x) == [value |-> x, hi |-> High(x)]
Ranged(x, hi) == hi \in HalfValues /\ (x - Half * hi) % P \in HalfValues
RangePairs ==
    {[value |-> p[1], hi |-> p[2]] : p \in {p \in F \X HalfValues : Ranged(p[1], p[2])}}

\* U16GetSign, keyed by a high half.
SignOf(hi) == Truth(hi >= Half \div 2)

\* x·inv + z = enable, z·x = 0.
IsZero ==
    [x \in F, enable \in Bit |->
        {z \in {(enable - x * inv) % P : inv \in F} : Zero(z * x)}]

\* lhs < rhs, signed where sc: the operands' halves give their signs, and the
\* gap's range leaves one `lt`.
Comparison(lhs, rhs, sc) ==
    {c \in [lhs_hi : HalfValues, rhs_hi : HalfValues, lt : Bit, gap : RangePairs] :
        /\ Ranged(lhs, c.lhs_hi) /\ Ranged(rhs, c.rhs_hi)
        /\ Zero(lhs - rhs - Word * sc * (SignOf(c.lhs_hi) - SignOf(c.rhs_hi))
                + Word * c.lt - c.gap.value)}
FillComparison(lhs, rhs, lt) ==
    [lhs_hi |-> High(lhs), rhs_hi |-> High(rhs), lt |-> lt, gap |-> Halved((lhs - rhs) % Word)]

\* Two words in bytes, and their AND from the byte table.
BytesOf(x) == [j \in 0..3 |-> (x \div Byte^j) % Byte]
FromBytes(b) == b[0] + b[1] * Byte + b[2] * Byte^2 + b[3] * Byte^3
ByteColumns(x, y) ==
    {b \in [a : [0..3 -> 0..Byte - 1], b : [0..3 -> 0..Byte - 1]] :
        Zero(FromBytes(b.a) - x) /\ Zero(FromBytes(b.b) - y)}
AndOf(bytes) == FromBytes([j \in 0..3 |-> bytes.a[j] & bytes.b[j]])

\* The word an access is in: rs1 and the immediate, less the carry, is four
\* times an index below a quarter of a word, and the byte offset.  A query of
\* a word with no initial row leaves the memory argument unbalanced.
AddressColumns(base, offsets) ==
    {a \in [index : RangePairs, wrap : Bit, offset : offsets] :
        /\ 4 * a.index.hi \in HalfValues
        /\ Zero(base - Word * a.wrap - 4 * a.index.value - a.offset)
        /\ 4 * a.index.value \in RamWords}
FillAddress(base) ==
    [index |-> Halved((base % Word) \div 4), wrap |-> Truth(base >= Word), offset |-> base % 4]

\* What the rd query may write, of a computed value: masked where rd is 0.
RdWrites(addr, sel) == {(sel - z * sel) % P : z \in IsZero[addr, 1]}
FillRd(addr, sel) == IF addr = 0 THEN 0 ELSE sel

\* A present query reads its register, an absent one 0: mask_rule, addr_rule
\* and value_masked, and the memory argument on what a register holds.
Read(s, present, register) == IF present THEN s.regs[register] ELSE 0
=============================================================================
