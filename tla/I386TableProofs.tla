-------------------------- MODULE I386TableProofs --------------------------
(***************************************************************************)
(* What the opcode tables promise the handlers of the CPU core, for every  *)
(* byte: each of their rows, and what the fixups make of it, names only    *)
(* operands that its handler can read and write.                           *)
(***************************************************************************)
EXTENDS I386Decode, WellFoundedInduction, TLAPS

\* Min picks the smallest element of a set of numbers.
LEMMA MinElement ==
    ASSUME NEW S, S \subseteq Nat, S # {}
    PROVE  Min(S) \in S /\ \A y \in S : Min(S) <= y
<1>1. PICK x \in S : \A y \in S : ~(<<y, x>> \in OpToRel(<, Nat))
    BY WFMin, NatLessThanWellFounded
<1>2. \A y, z \in Nat : y < z => <<y, z>> \in OpToRel(<, Nat)
    BY Zenon DEF OpToRel
<1>3. \A y \in S : ~(y < x)
    BY <1>1, <1>2, Zenon
<1>4. \A y \in S : x <= y
    BY <1>3
<1>. QED
    BY <1>4 DEF Min

----------------------------------------------------------------------------
(* Rows *)

\* The operands that are segment registers.
SegmentTypes == {"SEG_REG_MODRM", "CONST_SEG_REG"}

\* An operand of a row of the table that a handler reads or writes.
RowOperand(o) ==
    /\ o.type \in {"NONE", "OFFSET", "REG_MODRM", "CONST_REG", "SIMM", "IMM", "IP_REL", "CONSTANT",
                   "EDX_EAX", "SEG_REG_MODRM", "CONST_SEG_REG", "RM_MODRM", "MEM_MODRM"}
    /\ IF o.type = "EDX_EAX" THEN o.size = SZ_3264 ELSE o.size \in {1, 2, SZ_1632, SZ_816}
    /\ o.value \in 0 .. 7
    /\ o.type = "CONSTANT" => o.value \in {0, 1}

\* The operations whose handlers look at their operands.
Handled == {"ALU", "ALU_SPECIAL", "SHIFT", "INCDEC", "CBW_CWDE", "CWD_CDQ", "MOV", "LEA", "XCHG",
            "MOV_TO_SR", "POP_SR", "PUSH", "POP", "ENTER", "LEAVE", "CALL_NEAR", "RETN", "JUMP",
            "LOOP", "IO_IN", "MULTIPLEXED_FF"}

\* What the rows have in common, before and after fixup.
RowShape(i) ==
    /\ i = Inst(i.op, i.sub, i.flags, i.dest, i.src1, i.src2)
    /\ i.sub \in 0 .. 17
    /\ {i.dest.size, i.src1.size, i.src2.size} \subseteq {1, 2, SZ_1632, SZ_816, SZ_3248, SZ_3264}
    /\ i.op \in Handled =>
         /\ RowOperand(i.dest) /\ RowOperand(i.src1) /\ RowOperand(i.src2)
         /\ i.dest.type \in SegmentTypes <=> i.op \in {"MOV_TO_SR", "POP_SR"}
    /\ i.op = "XCHG" => i.src1.type \notin SegmentTypes /\ i.src2.type \notin SegmentTypes
    /\ i.op \in {"CALL_NEAR", "RETN", "JUMP", "LOOP", "MULTIPLEXED_FF"} => i.src1.type # "EDX_EAX"
    /\ i.op = "ST_FLAG" => i.sub \in {CARRY, INTERRUPT, DIRECTION}
    /\ i.op = "ALU" => i.sub \in 0 .. 8
    /\ i.op = "SEGMENT_OVERRIDE" => i.sub \in 0 .. 5

\* A row as the tables have it: fixup_f6 alone leads to multiplication and division.
RowOK(i) ==
    /\ RowShape(i)
    /\ i.op = "ALU_SPECIAL" => \/ i.sub \in {0, 5} /\ "WRITE_DX" \notin i.flags
                               \/ i \in {Multi(1), Multi(SZ_1632)}

\* Operands that are no segment register and no pair of registers.
Fit(o) == RowOperand(o) /\ o.type \notin SegmentTypes /\ o.type # "EDX_EAX"

\* The operands that rows are made of.
LEMMA Fits ==
    /\ Fit(None) /\ Fit(SImm)
    /\ \A z \in {1, 2, SZ_1632, SZ_816} :
         /\ Fit(RM(z)) /\ Fit(Mem(z)) /\ Fit(Reg(z)) /\ Fit(Imm(z)) /\ Fit(Rel(z))
         /\ Fit(Operand("OFFSET", z, 0)) /\ Fit(Constant(z, 0)) /\ Fit(Constant(z, 1))
         /\ \A v \in 0 .. 7 : Fit(Const(z, v))
BY DEF Fit, RowOperand, SegmentTypes, Operand, None, SImm, Reg, Imm, Rel, RM, Mem,
       Constant, Const, SZ_1632, SZ_816, SZ_3264

\* The operation and its number, as rows have them.
Pairs(op, sub) ==
    /\ op \notin {"MOV_TO_SR", "POP_SR"}
    /\ sub \in 0 .. 17
    /\ op = "ALU" => sub \in 0 .. 8
    /\ op = "SEGMENT_OVERRIDE" => sub \in 0 .. 5
    /\ op = "ALU_SPECIAL" => sub \in {0, 5}
    /\ op = "ST_FLAG" => sub \in {CARRY, INTERRUPT, DIRECTION}

\* A row made of such operands.
LEMMA FitRow ==
    ASSUME NEW op, NEW sub, Pairs(op, sub), NEW flags, "WRITE_DX" \notin flags,
           NEW a, NEW b, NEW c, Fit(a), Fit(b), Fit(c)
    PROVE  RowOK(Inst(op, sub, flags, a, b, c))
<1>. DEFINE i == Inst(op, sub, flags, a, b, c)
<1>1. /\ i = Inst(i.op, i.sub, i.flags, i.dest, i.src1, i.src2)
      /\ i.op = op /\ i.sub = sub /\ i.flags = flags
      /\ i.dest = a /\ i.src1 = b /\ i.src2 = c
    BY DEF Inst
<1>. HIDE DEF i
<1>2. {a.size, b.size, c.size} \subseteq {1, 2, SZ_1632, SZ_816, SZ_3248, SZ_3264}
    BY DEF Fit, RowOperand
<1>3. RowShape(i)
    BY <1>1, <1>2 DEF RowShape, Fit, Pairs
<1>. QED BY <1>1, <1>3 DEF RowOK, Pairs, i

LEMMA PlainRow == ASSUME NEW op, NEW sub, Pairs(op, sub) PROVE RowOK(Plain(op, sub))
BY FitRow, Fits DEF Plain

\* Far pointers, which the core refuses.
LEMMA FarRow ==
    ASSUME NEW op \in {"CALL_FAR", "JUMP_FAR", "LD_FP"}, NEW sub \in 0 .. 17, NEW flags,
           NEW a \in {None, Reg(SZ_1632)}, NEW t
    PROVE  RowOK(Inst(op, sub, flags, a, Operand(t, SZ_3248, 0), None))
<1>. DEFINE i == Inst(op, sub, flags, a, Operand(t, SZ_3248, 0), None)
<1>1. /\ i = Inst(i.op, i.sub, i.flags, i.dest, i.src1, i.src2)
      /\ i.op = op /\ i.sub = sub /\ i.flags = flags
      /\ i.dest = a /\ i.src1.type = t /\ i.src1.size = SZ_3248 /\ i.src2 = None
    BY DEF Inst, Operand
<1>. HIDE DEF i
<1>2. a.size \in {1, SZ_1632} /\ None.size = 1
    BY DEF None, Reg, Operand
<1>3. RowShape(i)
    BY <1>1, <1>2 DEF RowShape, Handled
<1>. QED BY <1>1, <1>3 DEF RowOK, i

\* Rows with a segment register, or EDX and EAX, to read or to write.
LEMMA SourceRow ==
    ASSUME NEW op \in {"PUSH", "MOV", "CWD_CDQ"}, NEW flags, NEW a, NEW b,
           RowOperand(a), a.type \notin SegmentTypes, RowOperand(b)
    PROVE  RowOK(Inst(op, 0, flags, a, b, None))
<1>. DEFINE i == Inst(op, 0, flags, a, b, None)
<1>1. /\ i = Inst(i.op, i.sub, i.flags, i.dest, i.src1, i.src2)
      /\ i.op = op /\ i.sub = 0 /\ i.flags = flags
      /\ i.dest = a /\ i.src1 = b /\ i.src2 = None
    BY DEF Inst
<1>. HIDE DEF i
<1>2. RowOperand(None)
    BY Fits DEF Fit
<1>3. {a.size, b.size, None.size} \subseteq {1, 2, SZ_1632, SZ_816, SZ_3248, SZ_3264}
    BY <1>2 DEF RowOperand
<1>4. RowShape(i)
    BY <1>1, <1>2, <1>3 DEF RowShape
<1>. QED BY <1>1, <1>4 DEF RowOK, i

\* POP_SR and MOV_TO_SR
LEMMA SegmentRow ==
    ASSUME NEW op \in {"MOV_TO_SR", "POP_SR"}, NEW flags, NEW a, NEW b,
           RowOperand(a), a.type \in SegmentTypes, Fit(b)
    PROVE  RowOK(Inst(op, 0, flags, a, b, None))
<1>. DEFINE i == Inst(op, 0, flags, a, b, None)
<1>1. /\ i = Inst(i.op, i.sub, i.flags, i.dest, i.src1, i.src2)
      /\ i.op = op /\ i.sub = 0 /\ i.flags = flags
      /\ i.dest = a /\ i.src1 = b /\ i.src2 = None
    BY DEF Inst
<1>. HIDE DEF i
<1>2. RowOperand(None)
    BY Fits DEF Fit
<1>3. {a.size, b.size, None.size} \subseteq {1, 2, SZ_1632, SZ_816, SZ_3248, SZ_3264}
    BY <1>2 DEF RowOperand, Fit
<1>4. RowShape(i)
    BY <1>1, <1>2, <1>3 DEF RowShape, Fit
<1>. QED BY <1>1, <1>4 DEF RowOK, i

\* The row of 0xF6 and 0xF7, which fixup_f6 changes.
LEMMA MultiRow == ASSUME NEW z \in {1, SZ_1632} PROVE RowOK(Multi(z))
<1>. DEFINE i == Multi(z)
<1>1. /\ i = Inst(i.op, i.sub, i.flags, i.dest, i.src1, i.src2)
      /\ i.op = "ALU_SPECIAL" /\ i.sub = ALU_MULTI /\ i.flags = {"MODRM", "WEIRD"}
      /\ i.dest = None /\ i.src1 = RM(z) /\ i.src2 = None
    BY DEF Multi, Inst
<1>2. i \in {Multi(1), Multi(SZ_1632)}
    OBVIOUS
<1>. HIDE DEF i
<1>3. Fit(None) /\ Fit(RM(z))
    BY Fits
<1>4. {i.dest.size, i.src1.size, i.src2.size} \subseteq {1, 2, SZ_1632, SZ_816, SZ_3248, SZ_3264}
    BY <1>1, <1>3 DEF Fit, RowOperand
<1>5. RowShape(i)
    BY <1>1, <1>3, <1>4 DEF RowShape, Fit, ALU_MULTI
<1>6. RowOK(i)
    BY <1>1, <1>2, <1>5 DEF RowOK
<1>. QED BY <1>6 DEF i

\* Rows of string instructions.
LEMMA StringRow ==
    ASSUME NEW byte, NEW name \in {"MOVS", "SCAS", "STOS", "INS", "OUTS", "LODS", "CMPS"}
    PROVE  RowOK(String(byte, name))
<1>. DEFINE flags == {IF byte % 2 = 0 THEN "STR_SZ_8" ELSE "STR_SZ_1632"}
<1>1. StringOp(name) \in 0 .. 6
    <2>1. Len(StringOps) = 7 /\ \E i \in 1 .. 7 : StringOps[i] = name
        BY DEF StringOps
    <2>2. \E i \in 1 .. Len(StringOps) : StringOps[i] = name
        BY <2>1
    <2>3. (CHOOSE i \in 1 .. Len(StringOps) : StringOps[i] = name) \in 1 .. 7
        BY <2>1, <2>2
    <2>. QED BY <2>3 DEF StringOp
<1>2. Pairs("STRING_OP", StringOp(name)) /\ "WRITE_DX" \notin flags
    BY <1>1 DEF Pairs
<1>. HIDE DEF flags
<1>3. RowOK(Inst("STRING_OP", StringOp(name), flags, None, None, None))
    BY <1>2, FitRow, Fits
<1>. QED BY <1>3 DEF String, flags

----------------------------------------------------------------------------
(* The tables *)

\* The rows, an arm each.
LEMMA Row0OK == ASSUME NEW byte \in 0 .. 63 PROVE RowOK(Row0(byte))
<1>1. CASE byte % 8 < 6
    <2>. DEFINE z == Sized(byte)
                sub == byte \div 8
    <2>1. z \in {1, SZ_1632} /\ sub \in 0 .. 7
        BY DEF Sized
    <2>. HIDE DEF z, sub
    <2>2. Fit(RM(z)) /\ Fit(Reg(z)) /\ Fit(None) /\ Fit(Const(z, EAX)) /\ Fit(Imm(z))
        BY <2>1, Fits DEF EAX
    <2>3. Pairs("ALU", sub) /\ "WRITE_DX" \notin {} /\ "WRITE_DX" \notin {"MODRM"}
        BY <2>1 DEF Pairs
    <2>4. ASSUME NEW a, Fit(a) PROVE RowOK(Inst("ALU", sub, {"MODRM"}, a, RM(z), Reg(z)))
        BY <2>2, <2>3, <2>4, FitRow, Zenon
    <2>5. ASSUME NEW a, Fit(a) PROVE RowOK(Inst("ALU", sub, {"MODRM"}, a, Reg(z), RM(z)))
        BY <2>2, <2>3, <2>5, FitRow, Zenon
    <2>6. ASSUME NEW a, Fit(a) PROVE RowOK(Inst("ALU", sub, {}, a, Const(z, EAX), Imm(z)))
        BY <2>2, <2>3, <2>6, FitRow, Zenon
    <2>8. RowOK(AluRow(byte))
        <3>. DEFINE form == (byte % 8) \div 2
                    flags == IF form = 2 THEN {} ELSE {"MODRM"}
                    left == IF form = 0 THEN RM(z) ELSE IF form = 1 THEN Reg(z) ELSE Const(z, EAX)
                    right == IF form = 0 THEN Reg(z) ELSE IF form = 1 THEN RM(z) ELSE Imm(z)
                    dest == IF sub = 7 THEN None ELSE left
        <3>1. AluRow(byte) = Inst("ALU", sub, flags, dest, left, right)
            BY DEF AluRow, z, sub
        <3>2. form \in {0, 1, 2}
            BY <1>1
        <3>. HIDE DEF form
        <3>3. CASE form = 0
            <4>1. RowOK(Inst("ALU", sub, {"MODRM"}, dest, RM(z), Reg(z)))
                BY <2>2, <2>4, <3>3
            <4>. QED BY <3>1, <3>3, <4>1
        <3>4. CASE form = 1
            <4>1. RowOK(Inst("ALU", sub, {"MODRM"}, dest, Reg(z), RM(z)))
                BY <2>2, <2>5, <3>4
            <4>. QED BY <3>1, <3>4, <4>1
        <3>5. CASE form = 2
            <4>1. RowOK(Inst("ALU", sub, {}, dest, Const(z, EAX), Imm(z)))
                BY <2>2, <2>6, <3>5
            <4>. QED BY <3>1, <3>5, <4>1
        <3>. QED BY <3>2, <3>3, <3>4, <3>5
    <2>7. Row0(byte) = AluRow(byte)
        BY <1>1 DEF Row0
    <2>. QED BY <2>7, <2>8
<1>2. CASE byte \in {\h06, \h0E, \h16, \h1E}
    <2>1. RowOperand(ConstSeg(byte \div 8))
        BY <1>2 DEF RowOperand, ConstSeg, Operand
    <2>2. RowOperand(None) /\ None.type \notin SegmentTypes
        BY Fits DEF Fit
    <2>3. RowOK(Inst("PUSH", 0, {}, None, ConstSeg(byte \div 8), None))
        BY <2>1, <2>2, SourceRow
    <2>. QED BY <1>2, <2>3 DEF Row0
<1>3. CASE byte \in {\h07, \h17, \h1F}
    <2>1. RowOperand(ConstSeg(byte \div 8)) /\ ConstSeg(byte \div 8).type \in SegmentTypes
        BY <1>3 DEF RowOperand, ConstSeg, Operand, SegmentTypes
    <2>2. RowOK(Inst("POP_SR", 0, {}, ConstSeg(byte \div 8), None, None))
        BY <2>1, SegmentRow, Fits
    <2>. QED BY <1>3, <2>2 DEF Row0
<1>4. CASE byte \in {\h27, \h2F, \h37, \h3F}
    <2>1. Fit(Const(1, EAX)) /\ Pairs("UNARY", byte \div 8 - 4)
        BY <1>4, Fits DEF EAX, Pairs
    <2>2. RowOK(Inst("UNARY", byte \div 8 - 4, {}, Const(1, EAX), Const(1, EAX), None))
        BY <2>1, FitRow, Fits
    <2>. QED BY <1>4, <2>2 DEF Row0
<1>5. CASE byte \in {\h26, \h2E, \h36, \h3E}
    <2>1. Pairs("SEGMENT_OVERRIDE", byte \div 8 - 4)
        BY <1>5 DEF Pairs
    <2>2. RowOK(Plain("SEGMENT_OVERRIDE", byte \div 8 - 4))
        BY <2>1, PlainRow
    <2>. QED BY <1>5, <2>2 DEF Row0
<1>6. CASE byte = \h0F
    <2>1. RowOK(Plain("EXTENDED", 0))
        BY PlainRow DEF Pairs
    <2>. QED BY <1>6, <2>1 DEF Row0
<1>. QED BY <1>1, <1>2, <1>3, <1>4, <1>5, <1>6

LEMMA Row4OK == ASSUME NEW byte \in 64 .. 127 PROVE RowOK(Row4(byte))
<1>2. CASE byte < \h50
    <2>1. Pairs("INCDEC", (byte \div 8) % 2) /\ Fit(Const(SZ_1632, byte % 8)) /\ Fit(None)
        BY <1>2, Fits DEF Pairs
    <2>2. RowOK(Inst("INCDEC", (byte \div 8) % 2, {}, Const(SZ_1632, byte % 8), Const(SZ_1632, byte % 8), None))
        BY <2>1, FitRow
    <2>. QED BY <1>2, <2>2 DEF Row4
<1>3. CASE byte \in \h50 .. \h57
    <2>1. Pairs("PUSH", 0) /\ Fit(None) /\ Fit(Const(SZ_1632, byte % 8))
        BY <1>3, Fits DEF Pairs
    <2>2. RowOK(Inst("PUSH", 0, {}, None, Const(SZ_1632, byte % 8), None))
        BY <2>1, FitRow
    <2>. QED BY <1>3, <2>2 DEF Row4
<1>4. CASE byte \in \h58 .. \h5F
    <2>1. Pairs("POP", 0) /\ Fit(Const(SZ_1632, byte % 8)) /\ Fit(None)
        BY <1>4, Fits DEF Pairs
    <2>2. RowOK(Inst("POP", 0, {}, Const(SZ_1632, byte % 8), None, None))
        BY <2>1, FitRow
    <2>. QED BY <1>4, <2>2 DEF Row4
<1>5. CASE byte = \h60
    <2>1. Pairs("PUSHA", 0)
        BY DEF Pairs
    <2>2. RowOK(Plain("PUSHA", 0))
        BY <2>1, PlainRow
    <2>. QED BY <1>5, <2>2 DEF Row4
<1>6. CASE byte = \h61
    <2>1. Pairs("POPA", 0)
        BY DEF Pairs
    <2>2. RowOK(Plain("POPA", 0))
        BY <2>1, PlainRow
    <2>. QED BY <1>6, <2>2 DEF Row4
<1>7. CASE byte \in {\h62, \h63}
    <2>1. Pairs("INVALID", 0)
        BY DEF Pairs
    <2>2. RowOK(Invalid)
        BY <2>1, PlainRow DEF Invalid
    <2>. QED BY <1>7, <2>2 DEF Row4
<1>8. CASE byte \in {\h64, \h65}
    <2>1. Pairs("SEGMENT_OVERRIDE", byte % 16)
        BY <1>8 DEF Pairs
    <2>2. RowOK(Plain("SEGMENT_OVERRIDE", byte % 16))
        BY <2>1, PlainRow
    <2>. QED BY <1>8, <2>2 DEF Row4
<1>9. CASE byte = \h66
    <2>1. Pairs("OP_SZ_OVERRIDE", 0)
        BY DEF Pairs
    <2>2. RowOK(Plain("OP_SZ_OVERRIDE", 0))
        BY <2>1, PlainRow
    <2>. QED BY <1>9, <2>2 DEF Row4
<1>10. CASE byte = \h67
    <2>1. Pairs("ADDR_SZ_OVERRIDE", 0)
        BY DEF Pairs
    <2>2. RowOK(Plain("ADDR_SZ_OVERRIDE", 0))
        BY <2>1, PlainRow
    <2>. QED BY <1>10, <2>2 DEF Row4
<1>11. CASE byte = \h68
    <2>1. Pairs("PUSH", 0) /\ Fit(None) /\ Fit(Imm(SZ_1632))
        BY Fits DEF Pairs
    <2>2. RowOK(Inst("PUSH", 0, {}, None, Imm(SZ_1632), None))
        BY <2>1, FitRow
    <2>. QED BY <1>11, <2>2 DEF Row4
<1>12. CASE byte = \h6A
    <2>1. Pairs("PUSH", 0) /\ Fit(None) /\ Fit(Imm(1))
        BY Fits DEF Pairs
    <2>2. RowOK(Inst("PUSH", 0, {}, None, Imm(1), None))
        BY <2>1, FitRow
    <2>. QED BY <1>12, <2>2 DEF Row4
<1>13. CASE byte = \h69
    <2>1. Pairs("ALU_SPECIAL", 5) /\ Fit(Reg(SZ_1632)) /\ Fit(RM(SZ_1632)) /\ Fit(Imm(SZ_1632))
        BY Fits DEF Pairs
    <2>2. RowOK(ModRM("ALU_SPECIAL", 5, Reg(SZ_1632), RM(SZ_1632), Imm(SZ_1632)))
        BY <2>1, FitRow DEF ModRM
    <2>. QED BY <1>13, <2>2 DEF Row4
<1>14. CASE byte = \h6B
    <2>1. Pairs("ALU_SPECIAL", 5) /\ Fit(Reg(SZ_1632)) /\ Fit(RM(SZ_1632)) /\ Fit(SImm)
        BY Fits DEF Pairs
    <2>2. RowOK(ModRM("ALU_SPECIAL", 5, Reg(SZ_1632), RM(SZ_1632), SImm))
        BY <2>1, FitRow DEF ModRM
    <2>. QED BY <1>14, <2>2 DEF Row4
<1>15. CASE byte \in {\h6C, \h6D}
    <2>1. RowOK(String(byte, "INS"))
        BY StringRow
    <2>. QED BY <1>15, <2>1 DEF Row4
<1>16. CASE byte \in {\h6E, \h6F}
    <2>1. RowOK(String(byte, "OUTS"))
        BY StringRow
    <2>. QED BY <1>16, <2>1 DEF Row4
<1>17. CASE byte >= \h70
    <2>1. Pairs("JUMP", byte % 16) /\ Fit(None) /\ Fit(Rel(1))
        BY <1>17, Fits DEF Pairs
    <2>2. RowOK(Inst("JUMP", byte % 16, {}, None, Rel(1), None))
        BY <2>1, FitRow
    <2>. QED BY <1>17, <2>2 DEF Row4
<1>. QED BY <1>2, <1>3, <1>4, <1>5, <1>6, <1>7, <1>8, <1>9, <1>10, <1>11, <1>12, <1>13, <1>14, <1>15, <1>16, <1>17

LEMMA Row8OK == ASSUME NEW byte \in 128 .. 191 PROVE RowOK(Row8(byte))
<1>. DEFINE z == Sized(byte)
<1>1. z \in {1, SZ_1632}
    BY DEF Sized
<1>. HIDE DEF z
<1>2. CASE byte \in \h80 .. \h82
    <2>1. Pairs("ALU", ALU_MULTI) /\ Fit(RM(z)) /\ Fit(Imm(z))
        BY <1>1, Fits DEF Pairs, ALU_MULTI
    <2>2. RowOK(ModRM("ALU", ALU_MULTI, RM(z), RM(z), Imm(z)))
        BY <2>1, FitRow DEF ModRM
    <2>. QED BY <1>2, <2>2 DEF Row8, z
<1>3. CASE byte = \h83
    <2>1. Pairs("ALU", ALU_MULTI) /\ Fit(RM(z)) /\ Fit(SImm)
        BY <1>1, Fits DEF Pairs, ALU_MULTI
    <2>2. RowOK(ModRM("ALU", ALU_MULTI, RM(z), RM(z), SImm))
        BY <2>1, FitRow DEF ModRM
    <2>. QED BY <1>3, <2>2 DEF Row8, z
<1>4. CASE byte \in {\h84, \h85}
    <2>1. Pairs("ALU_SPECIAL", 0) /\ Fit(None) /\ Fit(RM(z)) /\ Fit(Reg(z))
        BY <1>1, Fits DEF Pairs
    <2>2. RowOK(ModRM("ALU_SPECIAL", 0, None, RM(z), Reg(z)))
        BY <2>1, FitRow DEF ModRM
    <2>. QED BY <1>4, <2>2 DEF Row8, z
<1>5. CASE byte \in {\h86, \h87}
    <2>1. Pairs("XCHG", 0) /\ Fit(None) /\ Fit(RM(z)) /\ Fit(Reg(z))
        BY <1>1, Fits DEF Pairs
    <2>2. RowOK(ModRM("XCHG", 0, None, RM(z), Reg(z)))
        BY <2>1, FitRow DEF ModRM
    <2>. QED BY <1>5, <2>2 DEF Row8, z
<1>6. CASE byte \in {\h88, \h89}
    <2>1. Pairs("MOV", 0) /\ Fit(RM(z)) /\ Fit(Reg(z)) /\ Fit(None)
        BY <1>1, Fits DEF Pairs
    <2>2. RowOK(ModRM("MOV", 0, RM(z), Reg(z), None))
        BY <2>1, FitRow DEF ModRM
    <2>. QED BY <1>6, <2>2 DEF Row8, z
<1>7. CASE byte \in {\h8A, \h8B}
    <2>1. Pairs("MOV", 0) /\ Fit(Reg(z)) /\ Fit(RM(z)) /\ Fit(None)
        BY <1>1, Fits DEF Pairs
    <2>2. RowOK(ModRM("MOV", 0, Reg(z), RM(z), None))
        BY <2>1, FitRow DEF ModRM
    <2>. QED BY <1>7, <2>2 DEF Row8, z
<1>8. CASE byte = \h8C
    <2>1. LET a == RM(SZ_1632) b == Operand("SEG_REG_MODRM", 2, 0)
          IN RowOperand(a) /\ a.type \notin SegmentTypes /\ RowOperand(b)
        BY DEF RowOperand, RM, Operand, SegmentTypes
    <2>2. RowOK(ModRM("MOV", 0, RM(SZ_1632), Operand("SEG_REG_MODRM", 2, 0), None))
        BY <2>1, SourceRow DEF ModRM
    <2>. QED BY <1>8, <2>2 DEF Row8, z
<1>9. CASE byte = \h8D
    <2>1. Pairs("LEA", 0) /\ Fit(Reg(SZ_1632)) /\ Fit(Mem(SZ_1632)) /\ Fit(None)
        BY Fits DEF Pairs
    <2>2. RowOK(ModRM("LEA", 0, Reg(SZ_1632), Mem(SZ_1632), None))
        BY <2>1, FitRow DEF ModRM
    <2>. QED BY <1>9, <2>2 DEF Row8, z
<1>10. CASE byte = \h8E
    <2>1. LET a == Operand("SEG_REG_MODRM", 2, 0)
          IN RowOperand(a) /\ a.type \in SegmentTypes
        BY DEF RowOperand, Operand, SegmentTypes
    <2>2. Fit(RM(2))
        BY Fits
    <2>3. RowOK(ModRM("MOV_TO_SR", 0, Operand("SEG_REG_MODRM", 2, 0), RM(2), None))
        BY <2>1, <2>2, SegmentRow DEF ModRM
    <2>. QED BY <1>10, <2>3 DEF Row8, z
<1>11. CASE byte = \h8F
    <2>1. Pairs("POP", 0) /\ Fit(RM(SZ_1632)) /\ Fit(None)
        BY Fits DEF Pairs
    <2>2. RowOK(ModRM("POP", 0, RM(SZ_1632), None, None))
        BY <2>1, FitRow DEF ModRM
    <2>. QED BY <1>11, <2>2 DEF Row8, z
<1>12. CASE byte \in \h90 .. \h97
    <2>1. Pairs("XCHG", 0) /\ Fit(None) /\ Fit(Const(SZ_1632, EAX)) /\ Fit(Const(SZ_1632, byte % 8))
        BY <1>12, Fits DEF Pairs, EAX
    <2>2. RowOK(Inst("XCHG", 0, {}, None, Const(SZ_1632, EAX), Const(SZ_1632, byte % 8)))
        BY <2>1, FitRow
    <2>. QED BY <1>12, <2>2 DEF Row8, z
<1>13. CASE byte = \h98
    <2>1. Pairs("CBW_CWDE", 0) /\ Fit(Const(SZ_1632, EAX)) /\ Fit(Const(SZ_816, EAX)) /\ Fit(None)
        BY Fits DEF Pairs, EAX
    <2>2. RowOK(Inst("CBW_CWDE", 0, {}, Const(SZ_1632, EAX), Const(SZ_816, EAX), None))
        BY <2>1, FitRow
    <2>. QED BY <1>13, <2>2 DEF Row8, z
<1>14. CASE byte = \h99
    <2>1. LET a == Operand("EDX_EAX", SZ_3264, 0) b == Const(SZ_1632, EAX)
          IN RowOperand(a) /\ a.type \notin SegmentTypes /\ RowOperand(b)
        BY DEF RowOperand, Const, EAX, Operand, SegmentTypes
    <2>2. RowOK(Inst("CWD_CDQ", 0, {}, Operand("EDX_EAX", SZ_3264, 0), Const(SZ_1632, EAX), None))
        BY <2>1, SourceRow
    <2>. QED BY <1>14, <2>2 DEF Row8, z
<1>15. CASE byte = \h9A
    <2>1. 0 \in 0 .. 17
        OBVIOUS
    <2>2. RowOK(Inst("CALL_FAR", 0, {}, None, Operand("FAR_PTR", SZ_3248, 0), None))
        BY <2>1, FarRow
    <2>. QED BY <1>15, <2>2 DEF Row8, z
<1>16. CASE byte = \h9B
    <2>1. Pairs("INVALID", 0)
        BY DEF Pairs
    <2>2. RowOK(Invalid)
        BY <2>1, PlainRow DEF Invalid
    <2>. QED BY <1>16, <2>2 DEF Row8, z
<1>17. CASE byte \in \h9C .. \h9F
    <2>1. LET op == <<"PUSHF", "POPF", "SAHF", "LAHF">>[byte - \h9B]
          IN Pairs(op, 0)
        BY <1>17 DEF Pairs
    <2>2. RowOK(Plain(<<"PUSHF", "POPF", "SAHF", "LAHF">>[byte - \h9B], 0))
        BY <2>1, PlainRow
    <2>. QED BY <1>17, <2>2 DEF Row8, z
<1>18. CASE byte \in {\hA0, \hA1}
    <2>1. Pairs("MOV", 0) /\ Fit(Const(z, EAX)) /\ Fit(Operand("OFFSET", z, 0)) /\ Fit(None)
        BY <1>1, Fits DEF Pairs, EAX
    <2>2. RowOK(Inst("MOV", 0, {}, Const(z, EAX), Operand("OFFSET", z, 0), None))
        BY <2>1, FitRow
    <2>. QED BY <1>18, <2>2 DEF Row8, z
<1>19. CASE byte \in {\hA2, \hA3}
    <2>1. Pairs("MOV", 0) /\ Fit(Operand("OFFSET", z, 0)) /\ Fit(Const(z, EAX)) /\ Fit(None)
        BY <1>1, Fits DEF Pairs, EAX
    <2>2. RowOK(Inst("MOV", 0, {}, Operand("OFFSET", z, 0), Const(z, EAX), None))
        BY <2>1, FitRow
    <2>. QED BY <1>19, <2>2 DEF Row8, z
<1>20. CASE byte \in {\hA4, \hA5}
    <2>1. RowOK(String(byte, "MOVS"))
        BY StringRow
    <2>. QED BY <1>20, <2>1 DEF Row8, z
<1>21. CASE byte = \hA6
    <2>1. RowOK(String(byte, "CMPS"))
        BY StringRow
    <2>. QED BY <1>21, <2>1 DEF Row8, z
<1>22. CASE byte \in {\hA7, \hAA, \hAB}
    <2>1. RowOK(String(byte, "STOS"))
        BY StringRow
    <2>. QED BY <1>22, <2>1 DEF Row8, z
<1>23. CASE byte \in {\hA8, \hA9}
    <2>1. Pairs("ALU_SPECIAL", 0) /\ Fit(None) /\ Fit(Const(z, EAX)) /\ Fit(Imm(z))
        BY <1>1, Fits DEF Pairs, EAX
    <2>2. RowOK(Inst("ALU_SPECIAL", 0, {}, None, Const(z, EAX), Imm(z)))
        BY <2>1, FitRow
    <2>. QED BY <1>23, <2>2 DEF Row8, z
<1>24. CASE byte \in {\hAC, \hAD}
    <2>1. RowOK(String(byte, "LODS"))
        BY StringRow
    <2>. QED BY <1>24, <2>1 DEF Row8, z
<1>25. CASE byte \in {\hAE, \hAF}
    <2>1. RowOK(String(byte, "SCAS"))
        BY StringRow
    <2>. QED BY <1>25, <2>1 DEF Row8, z
<1>26. CASE byte \in \hB0 .. \hB7
    <2>1. Pairs("MOV", 0) /\ Fit(Const(1, byte % 8)) /\ Fit(Imm(1)) /\ Fit(None)
        BY <1>26, Fits DEF Pairs
    <2>2. RowOK(Inst("MOV", 0, {}, Const(1, byte % 8), Imm(1), None))
        BY <2>1, FitRow
    <2>. QED BY <1>26, <2>2 DEF Row8, z
<1>27. CASE byte \in \hB8 .. \hBF
    <2>1. Pairs("MOV", 0) /\ Fit(Const(SZ_1632, byte % 8)) /\ Fit(Imm(SZ_1632)) /\ Fit(None)
        BY <1>27, Fits DEF Pairs
    <2>2. RowOK(Inst("MOV", 0, {}, Const(SZ_1632, byte % 8), Imm(SZ_1632), None))
        BY <2>1, FitRow
    <2>. QED BY <1>27, <2>2 DEF Row8, z
<1>. QED BY <1>2, <1>3, <1>4, <1>5, <1>6, <1>7, <1>8, <1>9, <1>10, <1>11, <1>12, <1>13, <1>14, <1>15, <1>16, <1>17, <1>18, <1>19, <1>20, <1>21, <1>22, <1>23, <1>24, <1>25, <1>26, <1>27

LEMMA RowCOK == ASSUME NEW byte \in 192 .. 223 PROVE RowOK(RowC(byte))
<1>. DEFINE z == Sized(byte)
<1>1. z \in {1, SZ_1632}
    BY DEF Sized
<1>. HIDE DEF z
<1>2. CASE byte \in {\hC0, \hC1}
    <2>1. Pairs("SHIFT", 0) /\ Fit(RM(z)) /\ Fit(Imm(1))
        BY <1>1, Fits DEF Pairs
    <2>2. RowOK(ModRM("SHIFT", 0, RM(z), RM(z), Imm(1)))
        BY <2>1, FitRow DEF ModRM
    <2>. QED BY <1>2, <2>2 DEF RowC, z
<1>3. CASE byte \in {\hC2, \hCA}
    <2>1. Fit(None) /\ Fit(Imm(2))
        BY Fits
    <2>2. Pairs("RETN", 0) /\ Pairs("RETF", 0)
        BY DEF Pairs
    <2>3. RowOK(Inst(IF byte = \hC2 THEN "RETN" ELSE "RETF", 0, {}, None, Imm(2), None))
        BY <2>1, <2>2, FitRow
    <2>. QED BY <1>3, <2>3 DEF RowC, z
<1>4. CASE byte \in {\hC3, \hCB}
    <2>1. Fit(None) /\ Fit(Constant(2, 0))
        BY Fits
    <2>2. Pairs("RETN", 0) /\ Pairs("RETF", 0)
        BY DEF Pairs
    <2>3. RowOK(Inst(IF byte = \hC3 THEN "RETN" ELSE "RETF", 0, {}, None, Constant(2, 0), None))
        BY <2>1, <2>2, FitRow
    <2>. QED BY <1>4, <2>3 DEF RowC, z
<1>5. CASE byte \in {\hC4, \hC5}
    <2>1. (IF byte = \hC4 THEN ES ELSE DS) \in 0 .. 17
        BY DEF ES, DS
    <2>2. RowOK(ModRM("LD_FP", IF byte = \hC4 THEN ES ELSE DS, Reg(SZ_1632), Mem(SZ_3248), None))
        BY <2>1, FarRow DEF ModRM, Mem
    <2>. QED BY <1>5, <2>2 DEF RowC, z
<1>6. CASE byte \in {\hC6, \hC7}
    <2>1. Pairs("MOV", 0) /\ Fit(RM(z)) /\ Fit(Imm(z)) /\ Fit(None)
        BY <1>1, Fits DEF Pairs
    <2>2. RowOK(ModRM("MOV", 0, RM(z), Imm(z), None))
        BY <2>1, FitRow DEF ModRM
    <2>. QED BY <1>6, <2>2 DEF RowC, z
<1>7. CASE byte = \hC8
    <2>1. Pairs("ENTER", 0) /\ Fit(None) /\ Fit(Imm(2)) /\ Fit(Imm(1))
        BY Fits DEF Pairs
    <2>2. RowOK(Inst("ENTER", 0, {}, None, Imm(2), Imm(1)))
        BY <2>1, FitRow
    <2>. QED BY <1>7, <2>2 DEF RowC, z
<1>8. CASE byte = \hC9
    <2>1. Pairs("LEAVE", 0)
        BY DEF Pairs
    <2>2. RowOK(Plain("LEAVE", 0))
        BY <2>1, PlainRow
    <2>. QED BY <1>8, <2>2 DEF RowC, z
<1>9. CASE byte = \hCC
    <2>1. Pairs("INT_OP", 0) /\ Fit(None) /\ Fit(Constant(1, 0))
        BY Fits DEF Pairs
    <2>2. RowOK(Inst("INT_OP", 0, {}, None, Constant(1, 0), None))
        BY <2>1, FitRow
    <2>. QED BY <1>9, <2>2 DEF RowC, z
<1>10. CASE byte = \hCD
    <2>1. Pairs("INT_OP", 0) /\ Fit(None) /\ Fit(Imm(1))
        BY Fits DEF Pairs
    <2>2. RowOK(Inst("INT_OP", 0, {}, None, Imm(1), None))
        BY <2>1, FitRow
    <2>. QED BY <1>10, <2>2 DEF RowC, z
<1>11. CASE byte = \hCF
    <2>1. Pairs("IRET", 0)
        BY DEF Pairs
    <2>2. RowOK(Plain("IRET", 0))
        BY <2>1, PlainRow
    <2>. QED BY <1>11, <2>2 DEF RowC, z
<1>12. CASE byte \in {\hD0, \hD1}
    <2>1. Pairs("SHIFT", 0) /\ Fit(RM(z)) /\ Fit(Constant(1, 1))
        BY <1>1, Fits DEF Pairs
    <2>2. RowOK(ModRM("SHIFT", 0, RM(z), RM(z), Constant(1, 1)))
        BY <2>1, FitRow DEF ModRM
    <2>. QED BY <1>12, <2>2 DEF RowC, z
<1>13. CASE byte \in {\hD2, \hD3}
    <2>1. Pairs("SHIFT", 0) /\ Fit(RM(SZ_1632)) /\ Fit(Const(1, ECX))
        BY Fits DEF Pairs, ECX
    <2>2. RowOK(ModRM("SHIFT", 0, RM(SZ_1632), RM(SZ_1632), Const(1, ECX)))
        BY <2>1, FitRow DEF ModRM
    <2>. QED BY <1>13, <2>2 DEF RowC, z
<1>14. CASE byte = \hD7
    <2>1. Pairs("XLAT", 0)
        BY DEF Pairs
    <2>2. RowOK(Plain("XLAT", 0))
        BY <2>1, PlainRow
    <2>. QED BY <1>14, <2>2 DEF RowC, z
<1>15. CASE byte \in {\hCE} \cup \hD4 .. \hD6 \cup \hD8 .. \hDF
    <2>1. Pairs("INVALID", 0)
        BY DEF Pairs
    <2>2. RowOK(Invalid)
        BY <2>1, PlainRow DEF Invalid
    <2>. QED BY <1>15, <2>2 DEF RowC, z
<1>. QED BY <1>2, <1>3, <1>4, <1>5, <1>6, <1>7, <1>8, <1>9, <1>10, <1>11, <1>12, <1>13, <1>14, <1>15

LEMMA RowEOK == ASSUME NEW byte \in 224 .. 255 PROVE RowOK(RowE(byte))
<1>. DEFINE z == Sized(byte)
<1>1. z \in {1, SZ_1632}
    BY DEF Sized
<1>. HIDE DEF z
<1>2. CASE byte \in \hE0 .. \hE2
    <2>1. Fit(None) /\ Fit(Rel(1))
        BY Fits
    <2>2. Pairs("LOOP", <<LOOPNE, LOOPE, LOOP_NORMAL>>[byte - \hDF])
        BY <1>2 DEF Pairs, LOOPNE, LOOPE, LOOP_NORMAL
    <2>3. RowOK(Inst("LOOP", <<LOOPNE, LOOPE, LOOP_NORMAL>>[byte - \hDF], {}, None, Rel(1), None))
        BY <2>1, <2>2, FitRow
    <2>. QED BY <1>2, <2>3 DEF RowE, z
<1>3. CASE byte = \hE3
    <2>1. Pairs("JUMP", 17) /\ Fit(None) /\ Fit(Rel(1))
        BY Fits DEF Pairs
    <2>2. RowOK(Inst("JUMP", 17, {}, None, Rel(1), None))
        BY <2>1, FitRow
    <2>. QED BY <1>3, <2>2 DEF RowE, z
<1>4. CASE byte \in {\hE4, \hE5, \hEC, \hED}
    <2>1. Pairs("IO_IN", 0) /\ Fit(Const(z, EAX)) /\ Fit(IF byte < \hE8 THEN Imm(1) ELSE Const(2, EDX)) /\ Fit(None)
        BY <1>1, <1>4, Fits DEF Pairs, EAX, EDX
    <2>2. RowOK(Inst("IO_IN", 0, {}, Const(z, EAX), IF byte < \hE8 THEN Imm(1) ELSE Const(2, EDX), None))
        BY <2>1, FitRow
    <2>. QED BY <1>4, <2>2 DEF RowE, z
<1>5. CASE byte \in {\hE6, \hE7, \hEE, \hEF}
    <2>1. Pairs("IO_OUT", 0) /\ Fit(IF byte < \hE8 THEN Imm(1) ELSE Const(2, EDX)) /\ Fit(Const(z, EAX)) /\ Fit(None)
        BY <1>1, <1>5, Fits DEF Pairs, EAX, EDX
    <2>2. RowOK(Inst("IO_OUT", 0, {}, IF byte < \hE8 THEN Imm(1) ELSE Const(2, EDX), Const(z, EAX), None))
        BY <2>1, FitRow
    <2>. QED BY <1>5, <2>2 DEF RowE, z
<1>6. CASE byte = \hE8
    <2>1. Pairs("CALL_NEAR", 0) /\ Fit(None) /\ Fit(Rel(SZ_1632))
        BY Fits DEF Pairs
    <2>2. RowOK(Inst("CALL_NEAR", 0, {}, None, Rel(SZ_1632), None))
        BY <2>1, FitRow
    <2>. QED BY <1>6, <2>2 DEF RowE, z
<1>7. CASE byte = \hE9
    <2>1. Pairs("JUMP", 16) /\ Fit(None) /\ Fit(Rel(SZ_1632))
        BY Fits DEF Pairs
    <2>2. RowOK(Inst("JUMP", 16, {}, None, Rel(SZ_1632), None))
        BY <2>1, FitRow
    <2>. QED BY <1>7, <2>2 DEF RowE, z
<1>8. CASE byte = \hEA
    <2>1. 0 \in 0 .. 17
        OBVIOUS
    <2>2. RowOK(Inst("JUMP_FAR", 0, {}, None, Operand("FAR_PTR", SZ_3248, 0), None))
        BY <2>1, FarRow
    <2>. QED BY <1>8, <2>2 DEF RowE, z
<1>9. CASE byte = \hEB
    <2>1. Pairs("JUMP", 16) /\ Fit(None) /\ Fit(Rel(1))
        BY Fits DEF Pairs
    <2>2. RowOK(Inst("JUMP", 16, {}, None, Rel(1), None))
        BY <2>1, FitRow
    <2>. QED BY <1>9, <2>2 DEF RowE, z
<1>10. CASE byte = \hF0
    <2>1. Pairs("LOCK", 0)
        BY DEF Pairs
    <2>2. RowOK(Plain("LOCK", 0))
        BY <2>1, PlainRow
    <2>. QED BY <1>10, <2>2 DEF RowE, z
<1>11. CASE byte \in {\hF1, \hF4}
    <2>1. Pairs("INVALID", 0)
        BY DEF Pairs
    <2>2. RowOK(Invalid)
        BY <2>1, PlainRow DEF Invalid
    <2>. QED BY <1>11, <2>2 DEF RowE, z
<1>12. CASE byte = \hF2
    <2>1. Pairs("REPNE", 0)
        BY DEF Pairs
    <2>2. RowOK(Plain("REPNE", 0))
        BY <2>1, PlainRow
    <2>. QED BY <1>12, <2>2 DEF RowE, z
<1>13. CASE byte = \hF3
    <2>1. Pairs("REPEZ", 0)
        BY DEF Pairs
    <2>2. RowOK(Plain("REPEZ", 0))
        BY <2>1, PlainRow
    <2>. QED BY <1>13, <2>2 DEF RowE, z
<1>14. CASE byte = \hF5
    <2>1. Pairs("CMC", 0)
        BY DEF Pairs
    <2>2. RowOK(Plain("CMC", 0))
        BY <2>1, PlainRow
    <2>. QED BY <1>14, <2>2 DEF RowE, z
<1>15. CASE byte \in {\hF6, \hF7}
    <2>1. RowOK(Multi(z))
        BY <1>1, MultiRow
    <2>. QED BY <1>15, <2>1 DEF RowE, z
<1>16. CASE byte \in \hF8 .. \hFD
    <2>1. LET sub == <<CARRY, INTERRUPT, DIRECTION>>[(byte - \hF6) \div 2]
          IN Pairs("CLR_FLAG", sub) /\ Pairs("ST_FLAG", sub)
        BY <1>16 DEF Pairs, CARRY, INTERRUPT, DIRECTION
    <2>2. RowOK(Plain(IF byte % 2 = 0 THEN "CLR_FLAG" ELSE "ST_FLAG", <<CARRY, INTERRUPT, DIRECTION>>[(byte - \hF6) \div 2]))
        BY <2>1, PlainRow
    <2>. QED BY <1>16, <2>2 DEF RowE, z
<1>17. CASE byte \in {\hFE, \hFF}
    <2>1. Pairs("MULTIPLEXED_FF", 0) /\ Fit(RM(z)) /\ Fit(None)
        BY <1>1, Fits DEF Pairs
    <2>2. RowOK(ModRM("MULTIPLEXED_FF", 0, RM(z), RM(z), None))
        BY <2>1, FitRow DEF ModRM
    <2>. QED BY <1>17, <2>2 DEF RowE, z
<1>. QED BY <1>2, <1>3, <1>4, <1>5, <1>6, <1>7, <1>8, <1>9, <1>10, <1>11, <1>12, <1>13, <1>14, <1>15, <1>16, <1>17

\* All rows of both tables.
LEMMA TableOK == ASSUME NEW byte \in 0 .. 255 PROVE RowOK(InstructionTable(byte))
<1>1. CASE byte < \h40
    <2>1. RowOK(Row0(byte))
        BY <1>1, Row0OK
    <2>. QED BY <1>1, <2>1 DEF InstructionTable
<1>2. CASE byte \in \h40 .. \h7F
    <2>1. RowOK(Row4(byte))
        BY <1>2, Row4OK
    <2>. QED BY <1>2, <2>1 DEF InstructionTable
<1>3. CASE byte \in \h80 .. \hBF
    <2>1. RowOK(Row8(byte))
        BY <1>3, Row8OK
    <2>. QED BY <1>3, <2>1 DEF InstructionTable
<1>4. CASE byte \in \hC0 .. \hDF
    <2>1. RowOK(RowC(byte))
        BY <1>4, RowCOK
    <2>. QED BY <1>4, <2>1 DEF InstructionTable
<1>5. CASE byte \in \hE0 .. \hFF
    <2>1. RowOK(RowE(byte))
        BY <1>5, RowEOK
    <2>. QED BY <1>5, <2>1 DEF InstructionTable
<1>. QED BY <1>1, <1>2, <1>3, <1>4, <1>5

LEMMA ExtendedOK == ASSUME NEW byte PROVE RowOK(ExtendedInstructionTable(byte))
<1>1. RowOK(ModRM("ALU_SPECIAL", 5, Reg(SZ_1632), Reg(SZ_1632), RM(SZ_1632)))
    <2>1. Pairs("ALU_SPECIAL", 5)
        BY DEF Pairs
    <2>. QED BY <2>1, FitRow, Fits DEF ModRM
<1>2. RowOK(Invalid)
    <2>1. Pairs("INVALID", 0)
        BY DEF Pairs
    <2>. QED BY <2>1, PlainRow DEF Invalid
<1>. QED BY <1>1, <1>2 DEF ExtendedInstructionTable

----------------------------------------------------------------------------
(* The Mod R/M byte tells the operation of some rows *)

\* A row once the Mod R/M byte has told which operation it is.
FixedOK(i) ==
    /\ RowShape(i)
    /\ i.op = "ALU_SPECIAL" =>
         /\ i.sub \in 0 .. 7
         /\ "WRITE_DX" \in i.flags => i.dest.type = "CONST_REG" /\ i.dest.size \in {1, SZ_1632}
         /\ i.sub \in {6, 7} => /\ i.src2.type = "RM_MODRM" /\ i.dest.type = "CONST_REG"
                                /\ i.src2.size = i.dest.size /\ i.src2.size \in {1, SZ_1632}

\* What the fixups make of the rows.
LEMMA FixupF6OK ==
    ASSUME NEW z \in {1, SZ_1632}, NEW reg \in 0 .. 7
    PROVE  FixedOK(FixupF6(Multi(z), reg))
<1>. DEFINE inst == Multi(z)
            flags == {"MODRM", "WEIRD"}
            acc == Const(z, EAX)
            left == IF z = 1 THEN Const(2, EAX) ELSE Operand("EDX_EAX", SZ_3264, 0)
            i == FixupF6(inst, reg)
<1>1. /\ inst = Inst("ALU_SPECIAL", ALU_MULTI, flags, None, RM(z), None)
      /\ inst.src1 = RM(z) /\ inst.src1.size = z /\ inst.flags = flags
    BY DEF Multi, Inst, RM, Operand
<1>2. /\ Fit(None) /\ Fit(RM(z)) /\ Fit(Imm(z)) /\ Fit(acc)
      /\ acc.type = "CONST_REG" /\ acc.size = z
      /\ RM(z).type = "RM_MODRM" /\ RM(z).size = z
    BY Fits DEF EAX, Const, RM, Operand
<1>3. RowOperand(left) /\ left.type \notin SegmentTypes
    <2>1. Fit(Const(2, EAX))
        BY Fits DEF EAX
    <2>. QED BY <2>1 DEF Fit, RowOperand, Operand, SegmentTypes
<1>. HIDE DEF acc, left, inst
<1>4. ASSUME NEW f, NEW a, NEW b, NEW c, Fit(a), RowOperand(b), b.type \notin SegmentTypes, Fit(c),
             "WRITE_DX" \in f => a = acc,
             reg \in {6, 7} => c = RM(z) /\ a = acc
      PROVE  FixedOK(Inst("ALU_SPECIAL", reg, f, a, b, c))
    <2>. DEFINE j == Inst("ALU_SPECIAL", reg, f, a, b, c)
    <2>1. /\ j = Inst(j.op, j.sub, j.flags, j.dest, j.src1, j.src2)
          /\ j.op = "ALU_SPECIAL" /\ j.sub = reg /\ j.flags = f
          /\ j.dest = a /\ j.src1 = b /\ j.src2 = c
        BY DEF Inst
    <2>. HIDE DEF j
    <2>2. {a.size, b.size, c.size} \subseteq {1, 2, SZ_1632, SZ_816, SZ_3248, SZ_3264}
        BY <1>4 DEF Fit, RowOperand
    <2>3. RowShape(j)
        BY <1>4, <2>1, <2>2 DEF RowShape, Fit
    <2>4. FixedOK(j)
        BY <1>2, <1>4, <2>1, <2>3 DEF FixedOK
    <2>. QED BY <2>4 DEF j
<1>5. CASE reg = 0
    <2>1. FixedOK(Inst("ALU_SPECIAL", reg, flags, None, RM(z), Imm(z)))
        BY <1>2, <1>4, <1>5 DEF Fit
    <2>. QED BY <1>1, <1>5, <2>1 DEF FixupF6, SpecialOps, inst
<1>6. CASE reg = 1
    <2>1. FixedOK(Inst("ALU_SPECIAL", reg, flags, None, RM(z), None))
        BY <1>2, <1>4, <1>6 DEF Fit
    <2>2. [inst EXCEPT !.sub = reg] = Inst("ALU_SPECIAL", reg, flags, None, RM(z), None)
        BY <1>1 DEF Inst
    <2>3. FixupF6(inst, reg) = [inst EXCEPT !.sub = reg]
        BY <1>6 DEF FixupF6, SpecialOps
    <2>. QED BY <2>1, <2>2, <2>3 DEF inst
<1>7. CASE reg \in {2, 3}
    <2>1. FixedOK(Inst("ALU_SPECIAL", reg, flags, RM(z), RM(z), None))
        BY <1>2, <1>4, <1>7 DEF Fit
    <2>. QED BY <1>1, <1>7, <2>1 DEF FixupF6, SpecialOps, inst
<1>8. CASE reg \in {4, 5}
    <2>1. FixedOK(Inst("ALU_SPECIAL", reg, {"WRITE_DX"}, acc, acc, RM(z)))
        BY <1>2, <1>4, <1>8 DEF Fit
    <2>. QED BY <1>1, <1>8, <2>1 DEF FixupF6, SpecialOps, inst, acc
<1>9. CASE reg \in {6, 7}
    <2>1. FixedOK(Inst("ALU_SPECIAL", reg, {"WRITE_DX"}, acc, left, RM(z)))
        BY <1>2, <1>3, <1>4, <1>9
    <2>. QED BY <1>1, <1>9, <2>1 DEF FixupF6, SpecialOps, inst, acc, left
<1>. QED BY <1>5, <1>6, <1>7, <1>8, <1>9

LEMMA FixupFFOK ==
    ASSUME NEW i, RowOK(i), i.op = "MULTIPLEXED_FF", NEW reg \in 0 .. 7
    PROVE  FixedOK(FixupFF(i, reg))
<1>. DEFINE a == i.dest
            b == i.src1
            c == i.src2
<1>1. /\ i = Inst(i.op, i.sub, i.flags, a, b, c) /\ i.sub \in 0 .. 17
      /\ {a.size, b.size, c.size} \subseteq {1, 2, SZ_1632, SZ_816, SZ_3248, SZ_3264}
      /\ RowOperand(a) /\ RowOperand(b) /\ RowOperand(c)
      /\ a.type \notin SegmentTypes /\ b.type # "EDX_EAX"
    BY DEF RowOK, RowShape, Handled
<1>. HIDE DEF a, b, c
<1>2. ASSUME NEW op \in {"INCDEC", "CALL_NEAR", "JUMP", "PUSH", "MULTIPLEXED_FF"}, NEW sub \in 0 .. 17
      PROVE  FixedOK(Inst(op, sub, i.flags, a, b, c))
    <2>. DEFINE j == Inst(op, sub, i.flags, a, b, c)
    <2>1. /\ j = Inst(j.op, j.sub, j.flags, j.dest, j.src1, j.src2)
          /\ j.op = op /\ j.sub = sub /\ j.flags = i.flags
          /\ j.dest = a /\ j.src1 = b /\ j.src2 = c
        BY DEF Inst
    <2>. HIDE DEF j
    <2>2. RowShape(j)
        BY <1>1, <2>1 DEF RowShape
    <2>3. FixedOK(j)
        BY <2>1, <2>2 DEF FixedOK
    <2>. QED BY <2>3 DEF j
<1>3. PICK o, k, f : i = Inst(o, k, f, a, b, c) /\ i.sub = k /\ i.flags = f
    BY <1>1
<1>4. CASE reg \in {0, 1}
    <2>1. FixedOK(Inst("INCDEC", reg, f, a, b, c))
        BY <1>2, <1>3, <1>4
    <2>2. [i EXCEPT !.op = "INCDEC", !.sub = reg] = Inst("INCDEC", reg, f, a, b, c)
        <3>1. [i EXCEPT !.op = "INCDEC"] = Inst("INCDEC", k, f, a, b, c)
            BY <1>3 DEF Inst
        <3>2. [Inst("INCDEC", k, f, a, b, c) EXCEPT !.sub = reg] = Inst("INCDEC", reg, f, a, b, c)
            BY DEF Inst
        <3>. QED BY <3>1, <3>2
    <2>. QED BY <1>4, <2>1, <2>2 DEF FixupFF
<1>5. CASE reg = 4
    <2>1. FixedOK(Inst("JUMP", 16, f, a, b, c))
        BY <1>2, <1>3
    <2>2. [i EXCEPT !.op = "JUMP", !.sub = 16] = Inst("JUMP", 16, f, a, b, c)
        <3>1. [i EXCEPT !.op = "JUMP"] = Inst("JUMP", k, f, a, b, c)
            BY <1>3 DEF Inst
        <3>2. [Inst("JUMP", k, f, a, b, c) EXCEPT !.sub = 16] = Inst("JUMP", 16, f, a, b, c)
            BY DEF Inst
        <3>. QED BY <3>1, <3>2
    <2>. QED BY <1>5, <2>1, <2>2 DEF FixupFF
<1>6. CASE reg \in {2, 6}
    <2>1. FixedOK(Inst("CALL_NEAR", k, f, a, b, c)) /\ FixedOK(Inst("PUSH", k, f, a, b, c))
        BY <1>1, <1>2, <1>3
    <2>2. /\ [i EXCEPT !.op = "CALL_NEAR"] = Inst("CALL_NEAR", k, f, a, b, c)
          /\ [i EXCEPT !.op = "PUSH"] = Inst("PUSH", k, f, a, b, c)
        BY <1>3 DEF Inst
    <2>. QED BY <1>6, <2>1, <2>2 DEF FixupFF
<1>7. CASE reg \in {3, 5, 7}
    <2>1. FixedOK(Inst("MULTIPLEXED_FF", i.sub, i.flags, a, b, c))
        BY <1>1, <1>2
    <2>. QED BY <1>1, <1>7, <2>1 DEF FixupFF
<1>. QED BY <1>4, <1>5, <1>6, <1>7

\* Without a Mod R/M byte no row becomes an unsigned or a signed division.
LEMMA FixupOK ==
    ASSUME NEW i, RowOK(i), NEW reg \in 0 .. 7
    PROVE  LET j == Fixup(i, reg)
           IN /\ FixedOK(j)
              /\ j.op = "ALU_SPECIAL" /\ j.sub \in {6, 7} => "MODRM" \in i.flags
<1>1. CASE i.op = "ALU_SPECIAL" /\ i.sub = ALU_MULTI /\ "WEIRD" \in i.flags
    <2>1. i \in {Multi(1), Multi(SZ_1632)}
        BY <1>1 DEF RowOK, ALU_MULTI
    <2>2. FixedOK(FixupF6(i, reg))
        BY <2>1, FixupF6OK
    <2>3. "MODRM" \in i.flags
        BY <2>1 DEF Multi, Inst
    <2>. QED BY <1>1, <2>2, <2>3 DEF Fixup
<1>2. CASE i.op = "MULTIPLEXED_FF"
    <2>1. FixedOK(FixupFF(i, reg))
        BY <1>2, FixupFFOK
    <2>2. FixupFF(i, reg).op # "ALU_SPECIAL"
        <3>1. i = Inst(i.op, i.sub, i.flags, i.dest, i.src1, i.src2)
            BY DEF RowOK, RowShape
        <3>. QED BY <1>2, <3>1 DEF FixupFF, Inst
    <2>. QED BY <1>2, <2>1, <2>2 DEF Fixup
<1>3. CASE ~(i.op = "ALU_SPECIAL" /\ i.sub = ALU_MULTI /\ "WEIRD" \in i.flags) /\ i.op # "MULTIPLEXED_FF"
    <2>1. i.op = "ALU_SPECIAL" => i.sub \in {0, 5} /\ "WRITE_DX" \notin i.flags
        BY <1>3 DEF RowOK, Multi, Inst
    <2>2. FixedOK(i)
        BY <2>1 DEF RowOK, FixedOK
    <2>. QED BY <1>3, <2>1, <2>2 DEF Fixup
<1>. QED BY <1>1, <1>2, <1>3
=============================================================================
