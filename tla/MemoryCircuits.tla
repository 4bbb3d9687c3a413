--------------------------- MODULE MemoryCircuits ---------------------------
(***************************************************************************)
(* MEM_WORD and MEM_SUBWORD (crates/constraints/src/{mem_word,             *)
(* mem_subword}.rs), with the prover's fills (`mem_word`, `mem_subword` in *)
(* crates/prover/src/fill.rs).                                             *)
(***************************************************************************)
EXTENDS RowGadgets

WordOps == {"lw", "sw"}
WordGroups == <<"address", "rd">>
SubwordOps == {"lb", "lh", "lbu", "lhu", "sb", "sh"}
SubwordGroups == <<"address", "splice", "source", "rd">>

Base(s) == s.regs[s.rs1] + s.imm
Stored(s) == Read(s, s.op \in Stores, s.rs2)
WordAt(s, address) == s.ram[4 * address.index.value]

-----------------------------------------------------------------------------
(* A word: addr_split leaves no room for an offset; a load copies the word *)
(* it read, a store rs2.                                                   *)

WordColumns(group, s, row) ==
    CASE group = "address" -> AddressColumns(Base(s), {0})
      [] group = "rd" -> IF s.op = "lw" THEN RdWrites(s.rd, WordAt(s, row.address)) ELSE {0}

AccessOutcome(s, row, stored) ==
    Effect(s.seq, IF s.op \in Loads THEN <<s.rd, row.rd>> ELSE <<>>,
           IF s.op \in Stores THEN <<4 * row.address.index.value, stored>> ELSE <<>>, <<>>)
WordOutcome(s, row) == AccessOutcome(s, row, Stored(s))

FillWord(s) ==
    [address |-> FillAddress(Base(s)),
     rd |-> IF s.op = "lw" THEN FillRd(s.rd, s.ram[WordOf(Address(s))]) ELSE 0]

-----------------------------------------------------------------------------
(* A part of a word: the splice, high then the accessed part then low.     *)

PartOf(op) == Byte^Width(op)
PowerAt(address) == Byte^address.offset
\* half_aligned: bit 0 of the offset.
Offsets(s) == IF Width(s.op) = 2 THEN {0, 2} ELSE 0..3

\* splice_rule; every part is bounded directly and scaled to a word.
SpliceColumns(s, address) ==
    LET p == PowerAt(address)
        w == PartOf(s.op)
    IN  {v \in [high : RangePairs, sub : HalfValues, low : RangePairs] :
            /\ Zero(WordAt(s, address) - v.high.value * w * p - v.sub * p - v.low.value)
            /\ (v.high.value * w * p) % P \in Words
            /\ (v.sub * (Word \div w)) % P \in Words
            /\ (2 * v.low.value * (Word \div (2 * p))) % P \in Words
            /\ (v.sub * (IF Width(s.op) = 1 THEN Byte ELSE 1)) % P \in HalfValues}

\* src_sub_rule: rs2 truncated to the access.
SourceColumns(s) ==
    {v \in [sub : HalfValues, high : RangePairs] :
        /\ Zero(Stored(s) - v.sub - PartOf(s.op) * v.high.value)
        /\ (v.sub * (Word \div PartOf(s.op))) % P \in Words}

\* se_rule and rd_value_rule.
SubSign(s, sub) == Truth(s.op \in {"lb", "lh"}) * SignOf(IF Width(s.op) = 1 THEN sub * Byte ELSE sub)
SubwordValue(s, sub) == (sub + (Word - PartOf(s.op)) * SubSign(s, sub)) % P

SubwordColumns(group, s, row) ==
    CASE group = "address" -> AddressColumns(Base(s), Offsets(s))
      [] group = "splice" -> SpliceColumns(s, row.address)
      [] group = "source" -> SourceColumns(s)
      [] group = "rd" -> IF s.op \in Loads /\ SubwordValue(s, row.splice.sub) \in Words
                         THEN RdWrites(s.rd, SubwordValue(s, row.splice.sub))
                         ELSE IF s.op \in Loads THEN {} ELSE {0}

\* store_rule: the part is replaced in the word.
SubwordOutcome(s, row) ==
    AccessOutcome(s, row, (WordAt(s, row.address)
                           + (row.source.sub - row.splice.sub) * PowerAt(row.address)) % P)

FillSubword(s) ==
    LET address == FillAddress(Base(s))
        word == s.ram[WordOf(Address(s))]
        p == PowerAt(address)
        w == PartOf(s.op)
        sub == (word \div p) % w
    IN  [address |-> address,
         splice |-> [high |-> Halved(word \div (w * p)), sub |-> sub, low |-> Halved(word % p)],
         source |-> [sub |-> Stored(s) % w, high |-> Halved(Stored(s) \div w)],
         rd |-> IF s.op \in Loads THEN FillRd(s.rd, SubwordValue(s, sub)) ELSE 0]
=============================================================================
