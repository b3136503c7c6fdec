----------------------------- MODULE I386Table -----------------------------
(***************************************************************************)
(* The opcode tables of i386.h, which the CPU core and the disassembler    *)
(* share: what operation a byte stands for, and where its operands are.    *)
(* Rows that differ in a register or an operation only are one case here.  *)
(***************************************************************************)
EXTENDS Integers, Sequences

\* Sizes in bytes; the others depend on the operand size in force.
SZ_1632 == 1632
SZ_816  == 816
SZ_3248 == 3248
SZ_3264 == 3264

\* Numbers of some sub_types; the others are positions in a sequence of names.
ALU_MULTI == 8
CARRY == 0
INTERRUPT == 9
DIRECTION == 10
LOOP_NORMAL == 0
LOOPE == 1
LOOPNE == 2

ES == 0
SS == 2
DS == 3

EAX == 0
ECX == 1
EDX == 2
EBX == 3
ESP == 4
EBP == 5
ESI == 6
EDI == 7

Operand(type, size, value) == [type |-> type, size |-> size, value |-> value]

None == Operand("NONE", 1, 0)
RM(size) == Operand("RM_MODRM", size, 0)
Reg(size) == Operand("REG_MODRM", size, 0)
Mem(size) == Operand("MEM_MODRM", size, 0)
Const(size, r) == Operand("CONST_REG", size, r)
ConstSeg(sr) == Operand("CONST_SEG_REG", 2, sr)
Imm(size) == Operand("IMM", size, 0)
SImm == Operand("SIMM", 1, 0)
Constant(size, v) == Operand("CONSTANT", size, v)
Rel(size) == Operand("IP_REL", size, 0)

Inst(op, sub, flags, dest, src1, src2) ==
    [op |-> op, sub |-> sub, flags |-> flags, dest |-> dest, src1 |-> src1, src2 |-> src2]

Plain(op, sub) == Inst(op, sub, {}, None, None, None)
Invalid == Plain("INVALID", 0)
ModRM(op, sub, dest, src1, src2) == Inst(op, sub, {"MODRM"}, dest, src1, src2)
Multi(size) == Inst("ALU_SPECIAL", ALU_MULTI, {"MODRM", "WEIRD"}, None, RM(size), None)

\* Bit 0 of most opcodes tells a byte from the operand size in force.
Sized(byte) == IF byte % 2 = 0 THEN 1 ELSE SZ_1632

\* The six forms of ADD, OR, ADC, SBB, AND, SUB, XOR and CMP.
AluRow(byte) ==
    LET z == Sized(byte)
        form == (byte % 8) \div 2
        left == IF form = 0 THEN RM(z) ELSE IF form = 1 THEN Reg(z) ELSE Const(z, EAX)
        right == IF form = 0 THEN Reg(z) ELSE IF form = 1 THEN RM(z) ELSE Imm(z)
        sub == byte \div 8
    IN Inst("ALU", sub, IF form = 2 THEN {} ELSE {"MODRM"},
            IF sub = 7 THEN None ELSE left, left, right)

StringOps == <<"MOVS", "SCAS", "STOS", "INS", "OUTS", "LODS", "CMPS">>

\* The number i386.h gives a string operation; string operation 0 is MOVS.
StringOp(name) == (CHOOSE i \in 1 .. Len(StringOps) : StringOps[i] = name) - 1

String(byte, name) ==
    Inst("STRING_OP", StringOp(name), {IF byte % 2 = 0 THEN "STR_SZ_8" ELSE "STR_SZ_1632"},
         None, None, None)

\* Rows 0x00 to 0x3F.
Row0(byte) ==
    LET seg == byte \div 8
    IN CASE byte % 8 < 6 -> AluRow(byte)
         [] byte \in {\h06, \h0E, \h16, \h1E} -> Inst("PUSH", 0, {}, None, ConstSeg(seg), None)
         [] byte \in {\h07, \h17, \h1F} -> Inst("POP_SR", 0, {}, ConstSeg(seg), None, None)
         [] byte = \h0F -> Plain("EXTENDED", 0)
         [] byte \in {\h26, \h2E, \h36, \h3E} -> Plain("SEGMENT_OVERRIDE", seg - 4)
         [] byte \in {\h27, \h2F, \h37, \h3F} ->
              Inst("UNARY", seg - 4, {}, Const(1, EAX), Const(1, EAX), None)

\* Rows 0x40 to 0x7F.
Row4(byte) ==
    LET r == Const(SZ_1632, byte % 8)
    IN CASE byte < \h50 -> Inst("INCDEC", (byte \div 8) % 2, {}, r, r, None)
         [] byte \in \h50 .. \h57 -> Inst("PUSH", 0, {}, None, r, None)
         [] byte \in \h58 .. \h5F -> Inst("POP", 0, {}, r, None, None)
         [] byte = \h60 -> Plain("PUSHA", 0)
         [] byte = \h61 -> Plain("POPA", 0)
         [] byte \in {\h62, \h63} -> Invalid
         [] byte \in {\h64, \h65} -> Plain("SEGMENT_OVERRIDE", byte % 16)
         [] byte = \h66 -> Plain("OP_SZ_OVERRIDE", 0)
         [] byte = \h67 -> Plain("ADDR_SZ_OVERRIDE", 0)
         [] byte = \h68 -> Inst("PUSH", 0, {}, None, Imm(SZ_1632), None)
         [] byte = \h6A -> Inst("PUSH", 0, {}, None, Imm(1), None)
         [] byte = \h69 -> ModRM("ALU_SPECIAL", 5, Reg(SZ_1632), RM(SZ_1632), Imm(SZ_1632))
         [] byte = \h6B -> ModRM("ALU_SPECIAL", 5, Reg(SZ_1632), RM(SZ_1632), SImm)
         [] byte \in {\h6C, \h6D} -> String(byte, "INS")
         [] byte \in {\h6E, \h6F} -> String(byte, "OUTS")
         [] byte >= \h70 -> Inst("JUMP", byte % 16, {}, None, Rel(1), None)

\* Rows 0x80 to 0xBF.
Row8(byte) ==
    LET z == Sized(byte)
        acc == Const(z, EAX)
        offset == Operand("OFFSET", z, 0)
    IN CASE byte \in \h80 .. \h82 -> ModRM("ALU", ALU_MULTI, RM(z), RM(z), Imm(z))
         [] byte = \h83 -> ModRM("ALU", ALU_MULTI, RM(z), RM(z), SImm)
         [] byte \in {\h84, \h85} -> ModRM("ALU_SPECIAL", 0, None, RM(z), Reg(z))
         [] byte \in {\h86, \h87} -> ModRM("XCHG", 0, None, RM(z), Reg(z))
         [] byte \in {\h88, \h89} -> ModRM("MOV", 0, RM(z), Reg(z), None)
         [] byte \in {\h8A, \h8B} -> ModRM("MOV", 0, Reg(z), RM(z), None)
         [] byte = \h8C -> ModRM("MOV", 0, RM(SZ_1632), Operand("SEG_REG_MODRM", 2, 0), None)
         [] byte = \h8D -> ModRM("LEA", 0, Reg(SZ_1632), Mem(SZ_1632), None)
         [] byte = \h8E -> ModRM("MOV_TO_SR", 0, Operand("SEG_REG_MODRM", 2, 0), RM(2), None)
         [] byte = \h8F -> ModRM("POP", 0, RM(SZ_1632), None, None)
         [] byte \in \h90 .. \h97 ->
              Inst("XCHG", 0, {}, None, Const(SZ_1632, EAX), Const(SZ_1632, byte % 8))
         [] byte = \h98 -> Inst("CBW_CWDE", 0, {}, Const(SZ_1632, EAX), Const(SZ_816, EAX), None)
         [] byte = \h99 ->
              Inst("CWD_CDQ", 0, {}, Operand("EDX_EAX", SZ_3264, 0), Const(SZ_1632, EAX), None)
         [] byte = \h9A -> Inst("CALL_FAR", 0, {}, None, Operand("FAR_PTR", SZ_3248, 0), None)
         [] byte = \h9B -> Invalid
         [] byte \in \h9C .. \h9F -> Plain(<<"PUSHF", "POPF", "SAHF", "LAHF">>[byte - \h9B], 0)
         [] byte \in {\hA0, \hA1} -> Inst("MOV", 0, {}, acc, offset, None)
         [] byte \in {\hA2, \hA3} -> Inst("MOV", 0, {}, offset, acc, None)
         [] byte \in {\hA4, \hA5} -> String(byte, "MOVS")
         [] byte = \hA6 -> String(byte, "CMPS")
         [] byte \in {\hA7, \hAA, \hAB} -> String(byte, "STOS")
         [] byte \in {\hA8, \hA9} -> Inst("ALU_SPECIAL", 0, {}, None, acc, Imm(z))
         [] byte \in {\hAC, \hAD} -> String(byte, "LODS")
         [] byte \in {\hAE, \hAF} -> String(byte, "SCAS")
         [] byte \in \hB0 .. \hB7 -> Inst("MOV", 0, {}, Const(1, byte % 8), Imm(1), None)
         [] byte \in \hB8 .. \hBF -> Inst("MOV", 0, {}, Const(SZ_1632, byte % 8), Imm(SZ_1632), None)

\* Rows 0xC0 to 0xDF.
RowC(byte) ==
    LET z == Sized(byte)
    IN CASE byte \in {\hC0, \hC1} -> ModRM("SHIFT", 0, RM(z), RM(z), Imm(1))
         [] byte \in {\hC2, \hCA} ->
              Inst(IF byte = \hC2 THEN "RETN" ELSE "RETF", 0, {}, None, Imm(2), None)
         [] byte \in {\hC3, \hCB} ->
              Inst(IF byte = \hC3 THEN "RETN" ELSE "RETF", 0, {}, None, Constant(2, 0), None)
         [] byte \in {\hC4, \hC5} ->
              ModRM("LD_FP", IF byte = \hC4 THEN ES ELSE DS, Reg(SZ_1632), Mem(SZ_3248), None)
         [] byte \in {\hC6, \hC7} -> ModRM("MOV", 0, RM(z), Imm(z), None)
         [] byte = \hC8 -> Inst("ENTER", 0, {}, None, Imm(2), Imm(1))
         [] byte = \hC9 -> Plain("LEAVE", 0)
         [] byte = \hCC -> Inst("INT_OP", 0, {}, None, Constant(1, 0), None)
         [] byte = \hCD -> Inst("INT_OP", 0, {}, None, Imm(1), None)
         [] byte = \hCF -> Plain("IRET", 0)
         [] byte \in {\hD0, \hD1} -> ModRM("SHIFT", 0, RM(z), RM(z), Constant(1, 1))
         [] byte \in {\hD2, \hD3} -> ModRM("SHIFT", 0, RM(SZ_1632), RM(SZ_1632), Const(1, ECX))
         [] byte = \hD7 -> Plain("XLAT", 0)
         [] byte \in {\hCE} \cup \hD4 .. \hD6 \cup \hD8 .. \hDF -> Invalid

\* Rows 0xE0 to 0xFF.
RowE(byte) ==
    LET z == Sized(byte)
        acc == Const(z, EAX)
        port == IF byte < \hE8 THEN Imm(1) ELSE Const(2, EDX)
    IN CASE byte \in \hE0 .. \hE2 ->
              Inst("LOOP", <<LOOPNE, LOOPE, LOOP_NORMAL>>[byte - \hDF], {}, None, Rel(1), None)
         [] byte = \hE3 -> Inst("JUMP", 17, {}, None, Rel(1), None)
         [] byte \in {\hE4, \hE5, \hEC, \hED} -> Inst("IO_IN", 0, {}, acc, port, None)
         [] byte \in {\hE6, \hE7, \hEE, \hEF} -> Inst("IO_OUT", 0, {}, port, acc, None)
         [] byte = \hE8 -> Inst("CALL_NEAR", 0, {}, None, Rel(SZ_1632), None)
         [] byte = \hE9 -> Inst("JUMP", 16, {}, None, Rel(SZ_1632), None)
         [] byte = \hEA -> Inst("JUMP_FAR", 0, {}, None, Operand("FAR_PTR", SZ_3248, 0), None)
         [] byte = \hEB -> Inst("JUMP", 16, {}, None, Rel(1), None)
         [] byte = \hF0 -> Plain("LOCK", 0)
         [] byte \in {\hF1, \hF4} -> Invalid
         [] byte = \hF2 -> Plain("REPNE", 0)
         [] byte = \hF3 -> Plain("REPEZ", 0)
         [] byte = \hF5 -> Plain("CMC", 0)
         [] byte \in {\hF6, \hF7} -> Multi(z)
         [] byte \in \hF8 .. \hFD ->
              Plain(IF byte % 2 = 0 THEN "CLR_FLAG" ELSE "ST_FLAG",
                    <<CARRY, INTERRUPT, DIRECTION>>[(byte - \hF6) \div 2])
         [] byte \in {\hFE, \hFF} -> ModRM("MULTIPLEXED_FF", 0, RM(z), RM(z), None)

InstructionTable(byte) ==
    CASE byte < \h40 -> Row0(byte)
      [] byte \in \h40 .. \h7F -> Row4(byte)
      [] byte \in \h80 .. \hBF -> Row8(byte)
      [] byte \in \hC0 .. \hDF -> RowC(byte)
      [] byte \in \hE0 .. \hFF -> RowE(byte)

\* Behind 0x0F there is the two-operand IMUL only.
ExtendedInstructionTable(byte) ==
    IF byte = \hAF
      THEN ModRM("ALU_SPECIAL", 5, Reg(SZ_1632), Reg(SZ_1632), RM(SZ_1632))
      ELSE Invalid
=============================================================================
