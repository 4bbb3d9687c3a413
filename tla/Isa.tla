-------------------------------- MODULE Isa --------------------------------
(***************************************************************************)
(* What one instruction does, as the emulator's recorder sees it: the      *)
(* registers and the word it reads, what it writes, where it goes          *)
(* (crates/emulator/src/lib.rs `execute`, `ecall`).                        *)
(*                                                                         *)
(* Widths are parameters: a byte has ByteBits bits and a word four bytes,  *)
(* as the code's 8 and 32.  A step is a decoded instruction with the state *)
(* it runs in: [op, pc, seq, rs1, rs2, rd, imm, regs, ram, format], where  *)
(* seq is the address after it and the immediate is a word.                *)
(***************************************************************************)
EXTENDS Integers, Sequences, FiniteSets, Bitwise

CONSTANTS
    ByteBits,       \* 8
    RamWords,       \* the words a program may load and store
    EcallNumber,    \* call -> what a7 holds for it; "exit" and the delegations
    BaseTypes,      \* the delegation types every format knows
    FrameWords      \* delegation type -> words of its frame

Byte == 2^ByteBits
Half == Byte * Byte
Word == Half * Half
Words == 0..Word - 1

Signed(x) == IF x < Word \div 2 THEN x ELSE x - Word
Types == DOMAIN FrameWords
A0 == 10
A7 == 17
HaltPc == 1

-----------------------------------------------------------------------------
(* The operations. *)

ShiftAmount(b) == b % (4 * ByteBits)
FloorDiv(a, n) == (a - (a % n)) \div n
TruncDiv(a, b) == LET q == (IF a < 0 THEN -a ELSE a) \div (IF b < 0 THEN -b ELSE b)
                  IN  IF (a < 0) = (b < 0) THEN q ELSE -q
Truth(p) == IF p THEN 1 ELSE 0
Lesser(a, b) == IF a < b THEN a ELSE b
Greater(a, b) == IF a < b THEN b ELSE a

Operation(op, a, b) ==
    LET sa == Signed(a)  sb == Signed(b)  s == ShiftAmount(b) IN
    CASE op \in {"add", "addi", "amoadd"} -> (a + b) % Word
      [] op = "sub"                     -> (a - b) % Word
      [] op \in {"slt", "slti"}         -> Truth(sa < sb)
      [] op \in {"sltu", "sltiu"}       -> Truth(a < b)
      [] op \in {"xor", "xori", "amoxor"} -> a ^^ b
      [] op \in {"or", "ori", "amoor"}  -> a | b
      [] op \in {"and", "andi", "amoand"} -> a & b
      [] op \in {"sll", "slli"}         -> (a * 2^s) % Word
      [] op \in {"srl", "srli"}         -> a \div 2^s
      [] op \in {"sra", "srai"}         -> FloorDiv(sa, 2^s) % Word
      [] op = "mul"                     -> (a * b) % Word
      [] op = "mulh"                    -> FloorDiv(sa * sb, Word) % Word
      [] op = "mulhsu"                  -> FloorDiv(sa * b, Word) % Word
      [] op = "mulhu"                   -> (a * b) \div Word
      [] op = "div"  -> IF b = 0 THEN Word - 1 ELSE TruncDiv(sa, sb) % Word
      [] op = "divu" -> IF b = 0 THEN Word - 1 ELSE a \div b
      [] op = "rem"  -> IF b = 0 THEN a ELSE (sa - sb * TruncDiv(sa, sb)) % Word
      [] op = "remu" -> IF b = 0 THEN a ELSE a % b
      [] op = "lr"                      -> a
      [] op \in {"sc", "amoswap"}       -> b
      [] op = "amomin"                  -> Lesser(sa, sb) % Word
      [] op = "amomax"                  -> Greater(sa, sb) % Word
      [] op = "amominu"                 -> Lesser(a, b)
      [] op = "amomaxu"                 -> Greater(a, b)

Taken(op, a, b) ==
    CASE op = "beq" -> a = b   [] op = "bne"  -> a # b
      [] op = "blt" -> Signed(a) < Signed(b)  [] op = "bge" -> Signed(a) >= Signed(b)
      [] op = "bltu" -> a < b  [] op = "bgeu" -> a >= b

Immediates == {"addi", "slti", "sltiu", "xori", "ori", "andi", "slli", "srli", "srai"}
Branches == {"beq", "bne", "blt", "bge", "bltu", "bgeu"}
Loads == {"lb", "lh", "lw", "lbu", "lhu"}
Stores == {"sb", "sh", "sw"}
Amos == {"amoswap", "amoadd", "amoxor", "amoand", "amoor", "amomin", "amomax", "amominu",
         "amomaxu"}
Atomics == Amos \cup {"lr", "sc"}

\* The bytes an access moves, and the word it is in.
Width(op) == CASE op \in {"lb", "lbu", "sb"} -> 1 [] op \in {"lh", "lhu", "sh"} -> 2 [] OTHER -> 4
WordOf(addr) == addr - (addr % 4)
Address(s) == IF s.op \in Atomics THEN s.regs[s.rs1] ELSE (s.regs[s.rs1] + s.imm) % Word

\* The accessed bytes of a word, extended; a word with bytes stored into it.
Extended(op, v) ==
    LET w == Byte^Width(op)
        low == v % w
    IN  IF op \in {"lb", "lh"} /\ low >= w \div 2 THEN low + Word - w ELSE low
Merged(old, value, at, width) ==
    LET low == Byte^at
        top == Byte^(at + width)
    IN  (old \div top) * top + (value % Byte^width) * low + (old % low)

-----------------------------------------------------------------------------
(* A step's effect: the next pc; the rd query's write, <<>> where there is  *)
(* none; the RAM query's; the delegation asked for.                         *)

Effect(next, write, ram, request) ==
    [next |-> next, write |-> write, ram |-> ram, request |-> request]
WriteRd(rd, value) == <<rd, IF rd = 0 THEN 0 ELSE value>>

\* The ecalls the tables route a row for: an exit and the delegations the
\* format knows; any other writes -ENOSYS.
Called(s) == {c \in DOMAIN EcallNumber : s.regs[A7] = EcallNumber[c]}
KnownTypes(format) == IF format = "base" THEN BaseTypes ELSE Types
AfterCall(t, base) == IF t \in BaseTypes THEN 0 ELSE base + 4 * FrameWords[t]

\* The steps a shard may hold a row of: no ebreak, no access outside RAM or
\* off its width, no call without a family.
Provable(s) ==
    /\ s.op = "ecall" => Called(s) # {} /\ Called(s) \subseteq {"exit"} \cup KnownTypes(s.format)
    /\ s.op # "ebreak"
    /\ s.op \in Loads \cup Stores \cup Atomics =>
          Address(s) % Width(s.op) = 0 /\ WordOf(Address(s)) \in RamWords

\* A delegation's frame is in RAM.
FrameInRam(s) ==
    \A t \in Called(s) \ {"exit"} : \A w \in 0..FrameWords[t] - 1 : s.regs[A0] + 4 * w \in RamWords

StepEffect(s) ==
    LET a == s.regs[s.rs1]
        b == IF s.op \in Immediates THEN s.imm ELSE s.regs[s.rs2]
        word == WordOf(Address(s))
        at == Address(s) % 4
        plain(value) == Effect(s.seq, WriteRd(s.rd, value), <<>>, <<>>)
    IN  CASE s.op = "lui" -> plain(s.imm)
          [] s.op = "auipc" -> plain((s.pc + s.imm) % Word)
          [] s.op = "jal" -> [plain(s.seq) EXCEPT !.next = (s.pc + s.imm) % Word]
          [] s.op = "jalr" -> [plain(s.seq) EXCEPT !.next = ((a + s.imm) % Word) - ((a + s.imm) % 2)]
          [] s.op \in Branches ->
                Effect(IF Taken(s.op, a, b) THEN (s.pc + s.imm) % Word ELSE s.seq, <<>>, <<>>, <<>>)
          [] s.op = "fence" -> Effect(s.seq, <<>>, <<>>, <<>>)
          [] s.op \in Loads -> plain(Extended(s.op, s.ram[word] \div Byte^at))
          [] s.op \in Stores ->
                Effect(s.seq, <<>>, <<word, Merged(s.ram[word], b, at, Width(s.op))>>, <<>>)
          [] s.op \in Atomics ->
                Effect(s.seq, WriteRd(s.rd, IF s.op = "sc" THEN 0 ELSE s.ram[word]),
                       <<word, Operation(s.op, s.ram[word], b)>>, <<>>)
          [] s.op = "ecall" ->
                LET call == CHOOSE c \in Called(s) : TRUE
                    base == s.regs[A0]
                IN  IF call = "exit" THEN Effect(HaltPc, <<A0, base>>, <<>>, <<>>)
                    ELSE Effect(s.seq, <<A0, AfterCall(call, base)>>, <<>>, <<call, base>>)
          [] OTHER -> plain(Operation(s.op, a, b))
=============================================================================
