------------------------------ MODULE I386Alu ------------------------------
(***************************************************************************)
(* The arithmetic of the CPU core: the flag macros of i386.h and the       *)
(* operations of do_alu_op, do_alu_special and do_shift as functions of    *)
(* values.  Widths are counted in bytes (1, 2, 4), a byte has ByteBits     *)
(* bits.  A value in a uint32_t is a number below W(4); one in a uint64_t  *)
(* or a signed type is an integer, cut to size when it is stored.          *)
(***************************************************************************)
EXTENDS Integers, FiniteSetsExt, Functions

CONSTANTS
    ByteBits,   \* bits of a byte, 8 in the code
    FlagBit     \* the place of each flag in eflags

Byte == 2 ^ ByteBits

Flags == {"CF", "PF", "AF", "ZF", "SF", "TF", "IF", "DF", "OF"}

ASSUME ByteAssumption ==
    /\ ByteBits \in Nat \ {0} /\ Byte \in Nat /\ Byte >= 2 /\ Byte % 2 = 0
    /\ \A i \in 0 .. 4 * ByteBits : 2 ^ i \in Nat \ {0}

ASSUME FlagAssumption ==
    FlagBit \in [Flags -> Nat] /\ \A f \in Flags : 2 ^ FlagBit[f] \in Nat \ {0}

\* The number of values of n bytes.
W(n) == CASE n = 0 -> 1
          [] n = 1 -> Byte
          [] n = 2 -> Byte * Byte
          [] n = 3 -> Byte * Byte * Byte
          [] n = 4 -> Byte * Byte * Byte * Byte
          [] n = 8 -> (Byte * Byte * Byte * Byte) * (Byte * Byte * Byte * Byte)

U32(v) == v % W(4)

\* SX8, SX16, SX32: the low n bytes as a signed number.
SX(n, v) == LET u == v % W(n) IN IF 2 * u < W(n) THEN u ELSE u - W(n)

Bit(v, i) == (v \div 2 ^ i) % 2

\* S8, S16, S32: the sign bit of n bytes.
Sign(n, v) == 2 * (v % W(n)) >= W(n)

SetTo(flags, f, on) == IF on THEN flags \cup {f} ELSE flags \ {f}

\* GET_FLAG
Flag(flags, f) == IF f \in flags THEN 1 ELSE 0

\* An even number of ones in the low byte, !i386_parity_table[v & 0xFF].
EvenParity(v) == SumFunction([i \in 0 .. ByteBits - 1 |-> Bit(v, i)]) % 2 = 0

\* SetZF, SetSF and SetPF, which the operations set from the result.
ResultFlags(flags, n, r) ==
    SetTo(SetTo(SetTo(flags, "ZF", r % W(n) = 0), "SF", Sign(n, r)), "PF", EvenParity(r))

\* SetAF: bit 4 of x ^ y ^ z, the lowest of a byte's upper half.
HalfCarry(x, y, z) ==
    LET i == ByteBits \div 2 IN (Bit(x, i) + Bit(y, i) + Bit(z, i)) % 2 = 1

\* SetCF: the bit above the n bytes, of a uint32_t.
CarryOut(n, r) == (U32(r) \div W(n)) % 2 = 1

AddOverflow(n, a, b, r) == (Sign(n, a) <=> Sign(n, b)) /\ ~(Sign(n, a) <=> Sign(n, r))

SubOverflow(n, a, b, r) == (Sign(n, r) <=> Sign(n, b)) /\ ~(Sign(n, a) <=> Sign(n, r))

\* A bitwise operation, given by its truth table.
Combine(table, a, b) ==
    SumFunction([i \in 0 .. 4 * ByteBits - 1 |-> table[Bit(a, i)][Bit(b, i)] * 2 ^ i])

And(a, b) == Combine([x \in {0, 1} |-> [y \in {0, 1} |-> x * y]], a, b)

Or(a, b) == Combine([x \in {0, 1} |-> [y \in {0, 1} |-> x + y - x * y]], a, b)

Xor(a, b) == Combine([x \in {0, 1} |-> [y \in {0, 1} |-> (x + y) % 2]], a, b)

----------------------------------------------------------------------------
(* do_alu_op *)

AluOps == <<"ADD", "OR", "ADC", "SBB", "AND", "SUB", "XOR", "CMP">>

AluResult(op, a, b, carry) ==
    CASE op = "AND" -> And(a, b)
      [] op = "OR" -> Or(a, b)
      [] op = "XOR" -> Xor(a, b)
      [] op = "ADD" -> U32(a + b)
      [] op = "ADC" -> U32(carry + a + b)
      [] op = "SBB" -> U32(a - b - carry)
      [] op \in {"SUB", "CMP"} -> U32(a - b)

AluOverflow(op, n, a, b, r) ==
    CASE op \in {"ADD", "ADC"} -> AddOverflow(n, a, b, r)
      [] op \in {"SUB", "SBB", "CMP"} -> SubOverflow(n, a, b, r)
      [] op \in {"AND", "OR", "XOR"} -> FALSE

AluFlags(op, n, a, b, r, flags) ==
    LET carry == IF op \in {"AND", "OR", "XOR"}
                   THEN flags \ {"CF"}
                   ELSE SetTo(SetTo(flags, "CF", CarryOut(n, r)), "AF", HalfCarry(a, b, r))
    IN ResultFlags(SetTo(carry, "OF", AluOverflow(op, n, a, b, r)), n, r)

\* Mutation of IncDecFlags: the carry is set as by ADD and SUB.
IncDecFlagsCarry(inc, n, a, r, flags) ==
    AluFlags(IF inc THEN "ADD" ELSE "SUB", n, a, 1, r, flags)

\* do_incdec: the carry is left alone.
IncDecFlags(inc, n, a, r, flags) ==
    LET over == IF inc THEN AddOverflow(n, a, 1, r) ELSE SubOverflow(n, a, 1, r)
    IN SetTo(ResultFlags(SetTo(flags, "OF", over), n, r), "AF", HalfCarry(a, 1, r))

----------------------------------------------------------------------------
(* do_alu_special *)

SpecialOps == <<"TEST", "UNK", "NOT", "NEG", "MUL", "IMUL", "DIV", "IDIV">>

\* Mutation of Quotient: it cuts towards the smaller number.
QuotientDown(a, b) == IF b < 0 THEN (-a) \div (-b) ELSE a \div b

\* The division of C, which cuts towards zero.
Quotient(a, b) ==
    LET abs(x) == IF x < 0 THEN -x ELSE x
        q == abs(a) \div abs(b)
    IN IF (a < 0) = (b < 0) THEN q ELSE -q

Remainder(a, b) == a - b * Quotient(a, b)

\* What the host's own division refuses: zero, and a quotient that its
\* int32_t or int64_t cannot hold.
DivideFaults(op, n, a, b) ==
    /\ op \in {"DIV", "IDIV"}
    /\ \/ b = 0
       \/ op = "IDIV" /\ n > 1 /\ SX(n, b) = -1 /\ 2 * a = W(2 * n)

\* The quotient or product, and the part WRITE_DX puts above it.
SpecialResult(op, n, a, b) ==
    CASE op = "TEST" -> [res |-> And(a, b), rem |-> 0]
      [] op = "NOT" -> [res |-> -a - 1, rem |-> 0]
      [] op = "NEG" -> [res |-> -a, rem |-> 0]
      [] op = "MUL" -> [res |-> a * b, rem |-> (a * b) \div W(n)]
      [] op = "IMUL" -> LET p == SX(n, a) * SX(n, b) IN [res |-> p, rem |-> p \div W(n)]
      [] op = "DIV" -> [res |-> a \div b, rem |-> a % b]
      [] op = "IDIV" -> LET d == SX(n, b)
                        IN [res |-> Quotient(SX(2 * n, a), d), rem |-> Remainder(SX(2 * n, a), d)]

SpecialFlags(op, n, a, r, flags) ==
    CASE op = "TEST" -> ResultFlags(flags \ {"CF", "OF"}, n, r)
      [] op = "NEG" -> ResultFlags(SetTo(flags, "CF", a = 0), n, r)
      [] OTHER -> flags

----------------------------------------------------------------------------
(* do_shift and jump_condition *)

\* The host shifts a uint32_t by the count modulo its width.
Shifted(left, v, count) ==
    LET k == 2 ^ (count % (4 * ByteBits)) IN IF left THEN U32(v * k) ELSE v \div k

Holds(condition, flags, countZero) ==
    LET on(f) == f \in flags
        less == ~(on("SF") <=> on("OF"))
        cc == condition \div 2
        base == CASE cc = 0 -> on("OF")
                  [] cc = 1 -> on("CF")
                  [] cc = 2 -> on("ZF")
                  [] cc = 3 -> on("CF") \/ on("ZF")
                  [] cc = 4 -> on("SF")
                  [] cc = 5 -> on("PF")
                  [] cc = 6 -> less
                  [] cc = 7 -> on("ZF") \/ less
    IN CASE condition < 16 -> base <=> condition % 2 = 0
         [] condition = 16 -> TRUE
         [] condition = 17 -> countZero

\* The images of the flags in eflags, and back.
FlagWord(flags) == SumFunction([f \in flags |-> 2 ^ FlagBit[f]])

FlagsIn(v) == {f \in Flags : Bit(v, FlagBit[f]) = 1}
=============================================================================
