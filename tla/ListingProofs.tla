--------------------------- MODULE ListingProofs ---------------------------
(***************************************************************************)
(* What the listing says of an instruction is what the CPU core makes of   *)
(* it.  All rows of the tables but three have one number at most; for them *)
(* the listing and the core take the same bytes.  Then the prefixes: the   *)
(* core sets flags, the listing counts, and both have the same sizes when  *)
(* no prefix is misread.                                                   *)
(***************************************************************************)
EXTENDS Listing, I386TableProofs, FiniteSetTheorems, TLAPS

----------------------------------------------------------------------------
(* Rows of the tables *)

\* The operands whose number stands in the code.
Coded == {"OFFSET", "IMM", "SIMM", "FAR_PTR", "IP_REL"}

\* Operands that have none, and those whose size both programs find.
Quiet(o) == o.type \notin Coded
Number(o) == o.type \in {"OFFSET", "IMM", "SIMM"} /\ o.size \in {1, 2, SZ_1632, SZ_816}
Target(o) == o.type = "IP_REL" /\ o.size \in {1, 2, SZ_1632, SZ_816}
Far(o) == o.type = "FAR_PTR" /\ o.size = SZ_3248

\* A row other than ENTER's: one number at most stands in the code, and the
\* place a jump or call goes to never behind an address.
OneNumber(i) ==
    /\ i = Inst(i.op, i.sub, i.flags, i.dest, i.src1, i.src2)
    /\ \/ Quiet(i.dest) /\ Quiet(i.src1) /\ (Quiet(i.src2) \/ Number(i.src2))
       \/ Quiet(i.dest) /\ Number(i.src1) /\ Quiet(i.src2)
       \/ Number(i.dest) /\ Quiet(i.src1) /\ Quiet(i.src2)
       \/ /\ Quiet(i.dest) /\ (Target(i.src1) \/ Far(i.src1)) /\ Quiet(i.src2)
          /\ "MODRM" \notin i.flags

\* Such a row that fixup_f6 leaves alone; prefixes have no Mod R/M byte.
LineRow(i) ==
    OneNumber(i) /\ "WEIRD" \notin i.flags /\ (i.op \in DisPrefixes => "MODRM" \notin i.flags)

LEMMA LineOf ==
    ASSUME NEW op, NEW sub, NEW flags, NEW a, NEW b, NEW c, "WEIRD" \notin flags,
           "MODRM" \notin flags \/
             op \notin {"LOCK", "OP_SZ_OVERRIDE", "ADDR_SZ_OVERRIDE", "SEGMENT_OVERRIDE", "REPEZ", "REPNE"},
           \/ Quiet(a) /\ Quiet(b) /\ (Quiet(c) \/ Number(c))
           \/ Quiet(a) /\ Number(b) /\ Quiet(c)
           \/ Number(a) /\ Quiet(b) /\ Quiet(c)
           \/ Quiet(a) /\ (Target(b) \/ Far(b)) /\ Quiet(c) /\ "MODRM" \notin flags
    PROVE  LineRow(Inst(op, sub, flags, a, b, c))
<1>. DEFINE i == Inst(op, sub, flags, a, b, c)
<1>1. /\ i = Inst(i.op, i.sub, i.flags, i.dest, i.src1, i.src2) /\ i.flags = flags /\ i.op = op
      /\ i.dest = a /\ i.src1 = b /\ i.src2 = c
    BY DEF Inst
<1>. HIDE DEF i
<1>2. LineRow(i)
    BY <1>1 DEF LineRow, OneNumber, DisPrefixes
<1>. QED BY <1>2 DEF i

\* The operands that rows are made of.
LEMMA QuietOnes ==
    /\ Quiet(None) /\ \A t \in {"SEG_REG_MODRM", "EDX_EAX"} : \A z : Quiet(Operand(t, z, 0))
    /\ \A z : Quiet(RM(z)) /\ Quiet(Mem(z)) /\ Quiet(Reg(z)) /\ Quiet(ConstSeg(z))
    /\ \A z, v : Quiet(Const(z, v)) /\ Quiet(Constant(z, v))
BY DEF Quiet, Coded, Operand, None, RM, Mem, Reg, Const, ConstSeg, Constant

LEMMA NumberOnes ==
    /\ Number(SImm) /\ Far(Operand("FAR_PTR", SZ_3248, 0))
    /\ \A z \in {1, 2, SZ_1632, SZ_816} :
         Number(Imm(z)) /\ Number(Operand("OFFSET", z, 0)) /\ Target(Rel(z))
BY DEF Number, Far, Target, Operand, SImm, Imm, Rel

\* A row without operands.
LEMMA PlainLine == ASSUME NEW op, NEW sub PROVE LineRow(Plain(op, sub))
BY LineOf, QuietOnes DEF Plain

LEMMA StringLine == ASSUME NEW byte, NEW name PROVE LineRow(String(byte, name))
BY LineOf, QuietOnes DEF String

\* ADD to CMP.
LEMMA AluLine == ASSUME NEW byte \in 0 .. 63, byte % 8 < 6 PROVE LineRow(AluRow(byte))
<1>. DEFINE z == Sized(byte)
            form == (byte % 8) \div 2
            flags == IF form = 2 THEN {} ELSE {"MODRM"}
            left == IF form = 0 THEN RM(z) ELSE IF form = 1 THEN Reg(z) ELSE Const(z, EAX)
            right == IF form = 0 THEN Reg(z) ELSE IF form = 1 THEN RM(z) ELSE Imm(z)
            dest == IF byte \div 8 = 7 THEN None ELSE left
<1>1. AluRow(byte) = Inst("ALU", byte \div 8, flags, dest, left, right)
    BY DEF AluRow
<1>2. z \in {1, SZ_1632}
    BY DEF Sized
<1>. HIDE DEF z
<1>3. Quiet(left) /\ Quiet(dest) /\ (Quiet(right) \/ Number(right)) /\ "WEIRD" \notin flags
    BY <1>2, QuietOnes, NumberOnes
<1>. HIDE DEF flags, left, right, dest
<1>. QED BY <1>1, <1>3, LineOf

LEMMA Row0Line == ASSUME NEW byte \in 0 .. 63 PROVE LineRow(Row0(byte))
<1>1. CASE byte % 8 < 6
    <2>1. LineRow(AluRow(byte))
        BY <1>1, AluLine
    <2>. QED BY <1>1, <2>1 DEF Row0
<1>2. CASE byte \in {\h06, \h0E, \h16, \h1E}
    <2>1. LineRow(Inst("PUSH", 0, {}, None, ConstSeg(byte \div 8), None))
        BY LineOf, QuietOnes, NumberOnes
    <2>. QED BY <1>2, <2>1 DEF Row0
<1>3. CASE byte \in {\h07, \h17, \h1F}
    <2>1. LineRow(Inst("POP_SR", 0, {}, ConstSeg(byte \div 8), None, None))
        BY LineOf, QuietOnes, NumberOnes
    <2>. QED BY <1>3, <2>1 DEF Row0
<1>4. CASE byte \in {\h27, \h2F, \h37, \h3F}
    <2>1. LineRow(Inst("UNARY", byte \div 8 - 4, {}, Const(1, EAX), Const(1, EAX), None))
        BY LineOf, QuietOnes, NumberOnes
    <2>. QED BY <1>4, <2>1 DEF Row0
<1>5. CASE byte \in {\h26, \h2E, \h36, \h3E}
    <2>1. LineRow(Plain("SEGMENT_OVERRIDE", byte \div 8 - 4))
        BY PlainLine
    <2>. QED BY <1>5, <2>1 DEF Row0
<1>6. CASE byte = \h0F
    <2>1. LineRow(Plain("EXTENDED", 0))
        BY PlainLine
    <2>. QED BY <1>6, <2>1 DEF Row0
<1>. QED BY <1>1, <1>2, <1>3, <1>4, <1>5, <1>6

LEMMA Row4Line == ASSUME NEW byte \in 64 .. 127 PROVE LineRow(Row4(byte))
<1>1. CASE byte < \h50
    <2>1. LineRow(Inst("INCDEC", (byte \div 8) % 2, {}, Const(SZ_1632, byte % 8), Const(SZ_1632, byte % 8), None))
        BY LineOf, QuietOnes, NumberOnes
    <2>. QED BY <1>1, <2>1 DEF Row4
<1>2. CASE byte \in \h50 .. \h57
    <2>1. LineRow(Inst("PUSH", 0, {}, None, Const(SZ_1632, byte % 8), None))
        BY LineOf, QuietOnes, NumberOnes
    <2>. QED BY <1>2, <2>1 DEF Row4
<1>3. CASE byte \in \h58 .. \h5F
    <2>1. LineRow(Inst("POP", 0, {}, Const(SZ_1632, byte % 8), None, None))
        BY LineOf, QuietOnes, NumberOnes
    <2>. QED BY <1>3, <2>1 DEF Row4
<1>4. CASE byte = \h60
    <2>1. LineRow(Plain("PUSHA", 0))
        BY PlainLine
    <2>. QED BY <1>4, <2>1 DEF Row4
<1>5. CASE byte = \h61
    <2>1. LineRow(Plain("POPA", 0))
        BY PlainLine
    <2>. QED BY <1>5, <2>1 DEF Row4
<1>6. CASE byte \in {\h62, \h63}
    <2>1. LineRow(Invalid)
        BY PlainLine DEF Invalid
    <2>. QED BY <1>6, <2>1 DEF Row4
<1>7. CASE byte \in {\h64, \h65}
    <2>1. LineRow(Plain("SEGMENT_OVERRIDE", byte % 16))
        BY PlainLine
    <2>. QED BY <1>7, <2>1 DEF Row4
<1>8. CASE byte = \h66
    <2>1. LineRow(Plain("OP_SZ_OVERRIDE", 0))
        BY PlainLine
    <2>. QED BY <1>8, <2>1 DEF Row4
<1>9. CASE byte = \h67
    <2>1. LineRow(Plain("ADDR_SZ_OVERRIDE", 0))
        BY PlainLine
    <2>. QED BY <1>9, <2>1 DEF Row4
<1>10. CASE byte = \h68
    <2>1. LineRow(Inst("PUSH", 0, {}, None, Imm(SZ_1632), None))
        BY LineOf, QuietOnes, NumberOnes
    <2>. QED BY <1>10, <2>1 DEF Row4
<1>11. CASE byte = \h6A
    <2>1. LineRow(Inst("PUSH", 0, {}, None, Imm(1), None))
        BY LineOf, QuietOnes, NumberOnes
    <2>. QED BY <1>11, <2>1 DEF Row4
<1>12. CASE byte = \h69
    <2>1. LineRow(ModRM("ALU_SPECIAL", 5, Reg(SZ_1632), RM(SZ_1632), Imm(SZ_1632)))
        BY LineOf, QuietOnes, NumberOnes DEF ModRM
    <2>. QED BY <1>12, <2>1 DEF Row4
<1>13. CASE byte = \h6B
    <2>1. LineRow(ModRM("ALU_SPECIAL", 5, Reg(SZ_1632), RM(SZ_1632), SImm))
        BY LineOf, QuietOnes, NumberOnes DEF ModRM
    <2>. QED BY <1>13, <2>1 DEF Row4
<1>14. CASE byte \in {\h6C, \h6D}
    <2>1. LineRow(String(byte, "INS"))
        BY StringLine
    <2>. QED BY <1>14, <2>1 DEF Row4
<1>15. CASE byte \in {\h6E, \h6F}
    <2>1. LineRow(String(byte, "OUTS"))
        BY StringLine
    <2>. QED BY <1>15, <2>1 DEF Row4
<1>16. CASE byte >= \h70
    <2>1. LineRow(Inst("JUMP", byte % 16, {}, None, Rel(1), None))
        BY LineOf, QuietOnes, NumberOnes
    <2>. QED BY <1>16, <2>1 DEF Row4
<1>. QED BY <1>1, <1>2, <1>3, <1>4, <1>5, <1>6, <1>7, <1>8, <1>9, <1>10, <1>11, <1>12, <1>13, <1>14, <1>15, <1>16

LEMMA Row8Line == ASSUME NEW byte \in 128 .. 191 PROVE LineRow(Row8(byte))
<1>. DEFINE z == Sized(byte)
<1>0. z \in {1, SZ_1632}
    BY DEF Sized
<1>. HIDE DEF z
<1>1. CASE byte \in \h80 .. \h82
    <2>1. LineRow(ModRM("ALU", ALU_MULTI, RM(z), RM(z), Imm(z)))
        BY LineOf, QuietOnes, NumberOnes, <1>0 DEF ModRM
    <2>. QED BY <1>1, <2>1 DEF Row8, z
<1>2. CASE byte = \h83
    <2>1. LineRow(ModRM("ALU", ALU_MULTI, RM(z), RM(z), SImm))
        BY LineOf, QuietOnes, NumberOnes, <1>0 DEF ModRM
    <2>. QED BY <1>2, <2>1 DEF Row8, z
<1>3. CASE byte \in {\h84, \h85}
    <2>1. LineRow(ModRM("ALU_SPECIAL", 0, None, RM(z), Reg(z)))
        BY LineOf, QuietOnes, NumberOnes, <1>0 DEF ModRM
    <2>. QED BY <1>3, <2>1 DEF Row8, z
<1>4. CASE byte \in {\h86, \h87}
    <2>1. LineRow(ModRM("XCHG", 0, None, RM(z), Reg(z)))
        BY LineOf, QuietOnes, NumberOnes, <1>0 DEF ModRM
    <2>. QED BY <1>4, <2>1 DEF Row8, z
<1>5. CASE byte \in {\h88, \h89}
    <2>1. LineRow(ModRM("MOV", 0, RM(z), Reg(z), None))
        BY LineOf, QuietOnes, NumberOnes, <1>0 DEF ModRM
    <2>. QED BY <1>5, <2>1 DEF Row8, z
<1>6. CASE byte \in {\h8A, \h8B}
    <2>1. LineRow(ModRM("MOV", 0, Reg(z), RM(z), None))
        BY LineOf, QuietOnes, NumberOnes, <1>0 DEF ModRM
    <2>. QED BY <1>6, <2>1 DEF Row8, z
<1>7. CASE byte = \h8C
    <2>1. LineRow(ModRM("MOV", 0, RM(SZ_1632), Operand("SEG_REG_MODRM", 2, 0), None))
        BY LineOf, QuietOnes, NumberOnes DEF ModRM
    <2>. QED BY <1>7, <2>1 DEF Row8
<1>8. CASE byte = \h8D
    <2>1. LineRow(ModRM("LEA", 0, Reg(SZ_1632), Mem(SZ_1632), None))
        BY LineOf, QuietOnes, NumberOnes DEF ModRM
    <2>. QED BY <1>8, <2>1 DEF Row8
<1>9. CASE byte = \h8E
    <2>1. LineRow(ModRM("MOV_TO_SR", 0, Operand("SEG_REG_MODRM", 2, 0), RM(2), None))
        BY LineOf, QuietOnes, NumberOnes DEF ModRM
    <2>. QED BY <1>9, <2>1 DEF Row8
<1>10. CASE byte = \h8F
    <2>1. LineRow(ModRM("POP", 0, RM(SZ_1632), None, None))
        BY LineOf, QuietOnes, NumberOnes DEF ModRM
    <2>. QED BY <1>10, <2>1 DEF Row8
<1>11. CASE byte \in \h90 .. \h97
    <2>1. LineRow(Inst("XCHG", 0, {}, None, Const(SZ_1632, EAX), Const(SZ_1632, byte % 8)))
        BY LineOf, QuietOnes, NumberOnes
    <2>. QED BY <1>11, <2>1 DEF Row8
<1>12. CASE byte = \h98
    <2>1. LineRow(Inst("CBW_CWDE", 0, {}, Const(SZ_1632, EAX), Const(SZ_816, EAX), None))
        BY LineOf, QuietOnes, NumberOnes
    <2>. QED BY <1>12, <2>1 DEF Row8
<1>13. CASE byte = \h99
    <2>1. LineRow(Inst("CWD_CDQ", 0, {}, Operand("EDX_EAX", SZ_3264, 0), Const(SZ_1632, EAX), None))
        BY LineOf, QuietOnes, NumberOnes
    <2>. QED BY <1>13, <2>1 DEF Row8
<1>14. CASE byte = \h9A
    <2>1. LineRow(Inst("CALL_FAR", 0, {}, None, Operand("FAR_PTR", SZ_3248, 0), None))
        BY LineOf, QuietOnes, NumberOnes
    <2>. QED BY <1>14, <2>1 DEF Row8
<1>15. CASE byte = \h9B
    <2>1. LineRow(Invalid)
        BY PlainLine DEF Invalid
    <2>. QED BY <1>15, <2>1 DEF Row8
<1>16. CASE byte \in \h9C .. \h9F
    <2>1. LineRow(Plain(<<"PUSHF", "POPF", "SAHF", "LAHF">>[byte - \h9B], 0))
        BY PlainLine
    <2>. QED BY <1>16, <2>1 DEF Row8
<1>17. CASE byte \in {\hA0, \hA1}
    <2>1. LineRow(Inst("MOV", 0, {}, Const(z, EAX), Operand("OFFSET", z, 0), None))
        BY LineOf, QuietOnes, NumberOnes, <1>0
    <2>. QED BY <1>17, <2>1 DEF Row8, z
<1>18. CASE byte \in {\hA2, \hA3}
    <2>1. LineRow(Inst("MOV", 0, {}, Operand("OFFSET", z, 0), Const(z, EAX), None))
        BY LineOf, QuietOnes, NumberOnes, <1>0
    <2>. QED BY <1>18, <2>1 DEF Row8, z
<1>19. CASE byte \in {\hA4, \hA5}
    <2>1. LineRow(String(byte, "MOVS"))
        BY StringLine
    <2>. QED BY <1>19, <2>1 DEF Row8
<1>20. CASE byte = \hA6
    <2>1. LineRow(String(byte, "CMPS"))
        BY StringLine
    <2>. QED BY <1>20, <2>1 DEF Row8
<1>21. CASE byte \in {\hA7, \hAA, \hAB}
    <2>1. LineRow(String(byte, "STOS"))
        BY StringLine
    <2>. QED BY <1>21, <2>1 DEF Row8
<1>22. CASE byte \in {\hA8, \hA9}
    <2>1. LineRow(Inst("ALU_SPECIAL", 0, {}, None, Const(z, EAX), Imm(z)))
        BY LineOf, QuietOnes, NumberOnes, <1>0
    <2>. QED BY <1>22, <2>1 DEF Row8, z
<1>23. CASE byte \in {\hAC, \hAD}
    <2>1. LineRow(String(byte, "LODS"))
        BY StringLine
    <2>. QED BY <1>23, <2>1 DEF Row8
<1>24. CASE byte \in {\hAE, \hAF}
    <2>1. LineRow(String(byte, "SCAS"))
        BY StringLine
    <2>. QED BY <1>24, <2>1 DEF Row8
<1>25. CASE byte \in \hB0 .. \hB7
    <2>1. LineRow(Inst("MOV", 0, {}, Const(1, byte % 8), Imm(1), None))
        BY LineOf, QuietOnes, NumberOnes
    <2>. QED BY <1>25, <2>1 DEF Row8
<1>26. CASE byte \in \hB8 .. \hBF
    <2>1. LineRow(Inst("MOV", 0, {}, Const(SZ_1632, byte % 8), Imm(SZ_1632), None))
        BY LineOf, QuietOnes, NumberOnes
    <2>. QED BY <1>26, <2>1 DEF Row8
<1>. QED BY <1>1, <1>2, <1>3, <1>4, <1>5, <1>6, <1>7, <1>8, <1>9, <1>10, <1>11, <1>12, <1>13, <1>14, <1>15, <1>16, <1>17, <1>18, <1>19, <1>20, <1>21, <1>22, <1>23, <1>24, <1>25, <1>26

LEMMA RowCLine == ASSUME NEW byte \in 192 .. 223, byte # \hC8 PROVE LineRow(RowC(byte))
<1>. DEFINE z == Sized(byte)
<1>0. z \in {1, SZ_1632}
    BY DEF Sized
<1>. HIDE DEF z
<1>1. CASE byte \in {\hC0, \hC1}
    <2>1. LineRow(ModRM("SHIFT", 0, RM(z), RM(z), Imm(1)))
        BY LineOf, QuietOnes, NumberOnes, <1>0 DEF ModRM
    <2>. QED BY <1>1, <2>1 DEF RowC, z
<1>2. CASE byte \in {\hC2, \hCA}
    <2>1. LineRow(Inst(IF byte = \hC2 THEN "RETN" ELSE "RETF", 0, {}, None, Imm(2), None))
        BY LineOf, QuietOnes, NumberOnes
    <2>. QED BY <1>2, <2>1 DEF RowC
<1>3. CASE byte \in {\hC3, \hCB}
    <2>1. LineRow(Inst(IF byte = \hC3 THEN "RETN" ELSE "RETF", 0, {}, None, Constant(2, 0), None))
        BY LineOf, QuietOnes, NumberOnes
    <2>. QED BY <1>3, <2>1 DEF RowC
<1>4. CASE byte \in {\hC4, \hC5}
    <2>1. LineRow(ModRM("LD_FP", IF byte = \hC4 THEN ES ELSE DS, Reg(SZ_1632), Mem(SZ_3248), None))
        BY LineOf, QuietOnes, NumberOnes DEF ModRM
    <2>. QED BY <1>4, <2>1 DEF RowC
<1>5. CASE byte \in {\hC6, \hC7}
    <2>1. LineRow(ModRM("MOV", 0, RM(z), Imm(z), None))
        BY LineOf, QuietOnes, NumberOnes, <1>0 DEF ModRM
    <2>. QED BY <1>5, <2>1 DEF RowC, z
<1>7. CASE byte = \hC9
    <2>1. LineRow(Plain("LEAVE", 0))
        BY PlainLine
    <2>. QED BY <1>7, <2>1 DEF RowC
<1>8. CASE byte = \hCC
    <2>1. LineRow(Inst("INT_OP", 0, {}, None, Constant(1, 0), None))
        BY LineOf, QuietOnes, NumberOnes
    <2>. QED BY <1>8, <2>1 DEF RowC
<1>9. CASE byte = \hCD
    <2>1. LineRow(Inst("INT_OP", 0, {}, None, Imm(1), None))
        BY LineOf, QuietOnes, NumberOnes
    <2>. QED BY <1>9, <2>1 DEF RowC
<1>10. CASE byte = \hCF
    <2>1. LineRow(Plain("IRET", 0))
        BY PlainLine
    <2>. QED BY <1>10, <2>1 DEF RowC
<1>11. CASE byte \in {\hD0, \hD1}
    <2>1. LineRow(ModRM("SHIFT", 0, RM(z), RM(z), Constant(1, 1)))
        BY LineOf, QuietOnes, NumberOnes, <1>0 DEF ModRM
    <2>. QED BY <1>11, <2>1 DEF RowC, z
<1>12. CASE byte \in {\hD2, \hD3}
    <2>1. LineRow(ModRM("SHIFT", 0, RM(SZ_1632), RM(SZ_1632), Const(1, ECX)))
        BY LineOf, QuietOnes, NumberOnes DEF ModRM
    <2>. QED BY <1>12, <2>1 DEF RowC
<1>13. CASE byte = \hD7
    <2>1. LineRow(Plain("XLAT", 0))
        BY PlainLine
    <2>. QED BY <1>13, <2>1 DEF RowC
<1>14. CASE byte \in {\hCE} \cup \hD4 .. \hD6 \cup \hD8 .. \hDF
    <2>1. LineRow(Invalid)
        BY PlainLine DEF Invalid
    <2>. QED BY <1>14, <2>1 DEF RowC
<1>. QED BY <1>1, <1>2, <1>3, <1>4, <1>5, <1>7, <1>8, <1>9, <1>10, <1>11, <1>12, <1>13, <1>14

LEMMA RowELine == ASSUME NEW byte \in 224 .. 255, byte \notin {\hF6, \hF7} PROVE LineRow(RowE(byte))
<1>. DEFINE z == Sized(byte)
<1>0. z \in {1, SZ_1632}
    BY DEF Sized
<1>. HIDE DEF z
<1>1. CASE byte \in \hE0 .. \hE2
    <2>1. LineRow(Inst("LOOP", <<LOOPNE, LOOPE, LOOP_NORMAL>>[byte - \hDF], {}, None, Rel(1), None))
        BY LineOf, QuietOnes, NumberOnes
    <2>. QED BY <1>1, <2>1 DEF RowE
<1>2. CASE byte = \hE3
    <2>1. LineRow(Inst("JUMP", 17, {}, None, Rel(1), None))
        BY LineOf, QuietOnes, NumberOnes
    <2>. QED BY <1>2, <2>1 DEF RowE
<1>3. CASE byte \in {\hE4, \hE5, \hEC, \hED}
    <2>1. LineRow(Inst("IO_IN", 0, {}, Const(z, EAX), IF byte < \hE8 THEN Imm(1) ELSE Const(2, EDX), None))
        BY LineOf, QuietOnes, NumberOnes, <1>0
    <2>. QED BY <1>3, <2>1 DEF RowE, z
<1>4. CASE byte \in {\hE6, \hE7, \hEE, \hEF}
    <2>1. LineRow(Inst("IO_OUT", 0, {}, IF byte < \hE8 THEN Imm(1) ELSE Const(2, EDX), Const(z, EAX), None))
        BY LineOf, QuietOnes, NumberOnes, <1>0
    <2>. QED BY <1>4, <2>1 DEF RowE, z
<1>5. CASE byte = \hE8
    <2>1. LineRow(Inst("CALL_NEAR", 0, {}, None, Rel(SZ_1632), None))
        BY LineOf, QuietOnes, NumberOnes
    <2>. QED BY <1>5, <2>1 DEF RowE
<1>6. CASE byte = \hE9
    <2>1. LineRow(Inst("JUMP", 16, {}, None, Rel(SZ_1632), None))
        BY LineOf, QuietOnes, NumberOnes
    <2>. QED BY <1>6, <2>1 DEF RowE
<1>7. CASE byte = \hEA
    <2>1. LineRow(Inst("JUMP_FAR", 0, {}, None, Operand("FAR_PTR", SZ_3248, 0), None))
        BY LineOf, QuietOnes, NumberOnes
    <2>. QED BY <1>7, <2>1 DEF RowE
<1>8. CASE byte = \hEB
    <2>1. LineRow(Inst("JUMP", 16, {}, None, Rel(1), None))
        BY LineOf, QuietOnes, NumberOnes
    <2>. QED BY <1>8, <2>1 DEF RowE
<1>9. CASE byte = \hF0
    <2>1. LineRow(Plain("LOCK", 0))
        BY PlainLine
    <2>. QED BY <1>9, <2>1 DEF RowE
<1>10. CASE byte \in {\hF1, \hF4}
    <2>1. LineRow(Invalid)
        BY PlainLine DEF Invalid
    <2>. QED BY <1>10, <2>1 DEF RowE
<1>11. CASE byte = \hF2
    <2>1. LineRow(Plain("REPNE", 0))
        BY PlainLine
    <2>. QED BY <1>11, <2>1 DEF RowE
<1>12. CASE byte = \hF3
    <2>1. LineRow(Plain("REPEZ", 0))
        BY PlainLine
    <2>. QED BY <1>12, <2>1 DEF RowE
<1>13. CASE byte = \hF5
    <2>1. LineRow(Plain("CMC", 0))
        BY PlainLine
    <2>. QED BY <1>13, <2>1 DEF RowE
<1>15. CASE byte \in \hF8 .. \hFD
    <2>1. LineRow(Plain(IF byte % 2 = 0 THEN "CLR_FLAG" ELSE "ST_FLAG", <<CARRY, INTERRUPT, DIRECTION>>[(byte - \hF6) \div 2]))
        BY PlainLine
    <2>. QED BY <1>15, <2>1 DEF RowE
<1>16. CASE byte \in {\hFE, \hFF}
    <2>1. LineRow(ModRM("MULTIPLEXED_FF", 0, RM(z), RM(z), None))
        BY LineOf, QuietOnes, NumberOnes, <1>0 DEF ModRM
    <2>. QED BY <1>16, <2>1 DEF RowE, z
<1>. QED BY <1>1, <1>2, <1>3, <1>4, <1>5, <1>6, <1>7, <1>8, <1>9, <1>10, <1>11, <1>12, <1>13, <1>15, <1>16

\* All rows, but for ENTER, and 0xF6 and 0xF7.
LEMMA TableLine ==
    ASSUME NEW byte \in (0 .. 255) \ {\hC8, \hF6, \hF7} PROVE LineRow(InstructionTable(byte))
<1>1. CASE byte < \h40
    <2>1. LineRow(Row0(byte))
        BY <1>1, Row0Line
    <2>. QED BY <1>1, <2>1 DEF InstructionTable
<1>2. CASE byte \in \h40 .. \h7F
    <2>1. LineRow(Row4(byte))
        BY <1>2, Row4Line
    <2>. QED BY <1>2, <2>1 DEF InstructionTable
<1>3. CASE byte \in \h80 .. \hBF
    <2>1. LineRow(Row8(byte))
        BY <1>3, Row8Line
    <2>. QED BY <1>3, <2>1 DEF InstructionTable
<1>4. CASE byte \in \hC0 .. \hDF
    <2>1. LineRow(RowC(byte))
        BY <1>4, RowCLine
    <2>. QED BY <1>4, <2>1 DEF InstructionTable
<1>5. CASE byte \in \hE0 .. \hFF
    <2>1. LineRow(RowE(byte))
        BY <1>5, RowELine
    <2>. QED BY <1>5, <2>1 DEF InstructionTable
<1>. QED BY <1>1, <1>2, <1>3, <1>4, <1>5

LEMMA OtherRows ==
    /\ InstructionTable(\hC8) = Inst("ENTER", 0, {}, None, Imm(2), Imm(1))
    /\ InstructionTable(\hF6) = Multi(1) /\ InstructionTable(\hF7) = Multi(SZ_1632)
<1>1. RowC(\hC8) = Inst("ENTER", 0, {}, None, Imm(2), Imm(1))
    BY DEF RowC
<1>2. RowE(\hF6) = Multi(Sized(\hF6)) /\ RowE(\hF7) = Multi(Sized(\hF7))
    BY DEF RowE
<1>3. Sized(\hF6) = 1 /\ Sized(\hF7) = SZ_1632
    BY DEF Sized
<1>. QED BY <1>1, <1>2, <1>3 DEF InstructionTable

LEMMA ExtendedLine == ASSUME NEW byte PROVE LineRow(ExtendedInstructionTable(byte))
<1>1. LineRow(ModRM("ALU_SPECIAL", 5, Reg(SZ_1632), Reg(SZ_1632), RM(SZ_1632)))
    BY LineOf, QuietOnes DEF ModRM
<1>2. LineRow(Invalid)
    BY PlainLine DEF Invalid
<1>. QED BY <1>1, <1>2 DEF ExtendedInstructionTable

----------------------------------------------------------------------------
(* Bytes behind the opcode *)

\* What the listing reads at a place, with the sizes of the core.
Shown(address, vaddr, o) == disasm_operand(task.code, address, vaddr, o, Ops32, Addr32)

\* The bytes that the core takes for an operand.
Taken(o) == OperandBytes(o.type, RealSize(o.size))

\* An operand takes as many bytes in the listing as in the core, but for far
\* pointers, which take none.
LEMMA SameBytes ==
    ASSUME NEW o, NEW address, NEW vaddr
    PROVE  /\ Quiet(o) => Shown(address, vaddr, o).bytes = 0 /\ Taken(o) = 0
           /\ Number(o) \/ Target(o) =>
                Shown(address, vaddr, o).bytes = Taken(o) /\ Taken(o) \in {1, 2, 4}
           /\ Far(o) => /\ Shown(address, vaddr, o).bytes = 0 /\ Taken(o) \in {0, 4}
                        /\ RealSize(o.size) = 4 <=> Taken(o) = 4
<1>1. Quiet(o) => Shown(address, vaddr, o).bytes = 0 /\ Taken(o) = 0
    BY DEF Quiet, Coded, Shown, disasm_operand, Taken, OperandBytes
<1>2. o.size \in {1, 2, SZ_1632, SZ_816} =>
        RealSize(o.size) = DisSize(o.size, Ops32) /\ RealSize(o.size) \in {1, 2, 4}
    BY DEF RealSize, DisSize, SZ_1632, SZ_816, SZ_3248, SZ_3264
<1>3. Number(o) \/ Target(o) =>
        Shown(address, vaddr, o).bytes = Taken(o) /\ Taken(o) \in {1, 2, 4}
    BY <1>2 DEF Number, Target, Shown, disasm_operand, Taken, OperandBytes
<1>4. Far(o) => /\ Shown(address, vaddr, o).bytes = 0 /\ Taken(o) \in {0, 4}
                /\ RealSize(o.size) = 4 <=> Taken(o) = 4
    <2>1. RealSize(SZ_3248) = IF Ops32 THEN 6 ELSE 4
        BY DEF RealSize, SZ_1632, SZ_816, SZ_3248, SZ_3264
    <2>. QED BY <2>1 DEF Far, Shown, disasm_operand, Taken, OperandBytes
<1>. QED BY <1>1, <1>3, <1>4

\* The bytes that the listing gives the address of a Mod R/M byte at `at'.
AddressBytes(at) ==
    LET mod == task.code[at + 1] \div 64
        r == task.code[at + 1] % 8
    IN IF Addr32 THEN rm32(task.code[at + 2], mod, r) ELSE rm16(mod, r)

\* The code goes on behind a place.
GoesOn(at) == {at + 1, at + 2} \subseteq DOMAIN task.code

LEMMA CodeAt == ASSUME NEW e, e + 1 \in DOMAIN task.code PROVE Code(e) = task.code[e + 1]
BY DEF Code

\* They are as many as the core takes for it.
LEMMA SameAddress ==
    ASSUME NEW at \in Nat, NEW s, GoesOn(at), AddressAt(task.code, at)
    PROVE  DecodeRM(s, at).eip = at + 1 + AddressBytes(at) /\ AddressBytes(at) \in 0 .. 5
<1>. DEFINE byte == task.code[at + 1]
            sib == task.code[at + 2]
            mod == byte \div 64
            r == byte % 8
<1>1. /\ CodeByte(at) = byte /\ byte \in 0 .. 255
      /\ r = 4 /\ mod # 3 => CodeByte(at + 1) = sib /\ sib \in 0 .. 255
    <2>1. Code(at) = byte /\ Code(at + 1) = sib
        <3>1. at + 1 \in DOMAIN task.code /\ (at + 1) + 1 \in DOMAIN task.code /\ at + 2 = (at + 1) + 1
            BY DEF GoesOn
        <3>. QED BY <3>1, CodeAt
    <2>2. byte \in 0 .. 255 /\ (r = 4 /\ byte < 192 => sib \in 0 .. 255)
        BY DEF AddressAt
    <2>3. byte \div 64 # 3 => byte < 192
        BY <2>2
    <2>. HIDE DEF byte, sib
    <2>. QED BY <2>1, <2>2, <2>3 DEF CodeByte
<1>2. mod \in 0 .. 3 /\ r \in 0 .. 7
    BY <1>1
<1>. HIDE DEF byte, sib
<1>3. CASE Addr32
    <2>. DEFINE p == Place32(s, at + 1, mod, r)
    <2>1. p.bytes = (IF mod = 0 /\ (r = 5 \/ (r = 4 /\ sib % 8 = 5)) THEN 4 ELSE 0)
                    + (IF r = 4 THEN 1 ELSE 0)
        BY <1>1, <1>2 DEF Place32, Sib, Place
    <2>. HIDE DEF p
    <2>2. DecodeRM(s, at).eip =
            IF mod = 3 THEN at + 1
            ELSE at + 1 + p.bytes + (CASE mod = 0 -> 0 [] mod = 1 -> 1 [] mod = 2 -> 4)
        BY <1>1, <1>3 DEF DecodeRM, p
    <2>3. AddressBytes(at) = rm32(sib, mod, r)
        BY <1>3 DEF AddressBytes, byte, sib
    <2>. QED BY <1>2, <2>1, <2>2, <2>3 DEF rm32
<1>4. CASE ~Addr32
    <2>. DEFINE p == Place16(s, at + 1, mod, r)
    <2>1. p.bytes = IF mod = 0 /\ r = 6 THEN 2 ELSE 0
        BY <1>2 DEF Place16, Place
    <2>. HIDE DEF p
    <2>2. DecodeRM(s, at).eip =
            IF mod = 3 THEN at + 1
            ELSE at + 1 + p.bytes + (CASE mod = 0 -> 0 [] mod = 1 -> 1 [] mod = 2 -> 2)
        BY <1>1, <1>4 DEF DecodeRM, p
    <2>3. AddressBytes(at) = rm16(mod, r)
        BY <1>4 DEF AddressBytes, byte
    <2>. QED BY <1>2, <2>1, <2>2, <2>3 DEF rm16
<1>. QED BY <1>3, <1>4

----------------------------------------------------------------------------
(* Instructions behind the opcode *)

\* The Mod R/M byte of an instruction, and the address it stands for, are passed.
Address(at, i) == IF "MODRM" \in i.flags THEN at + 1 ELSE at
Behind(at, i) == IF "MODRM" \in i.flags THEN at + 1 + AddressBytes(at) ELSE at

LEMMA Places ==
    ASSUME NEW at \in Nat, NEW i, GoesOn(at), "MODRM" \in i.flags => AddressAt(task.code, at)
    PROVE  Address(at, i) \in Nat /\ Behind(at, i) \in at .. at + 6
<1>1. "MODRM" \in i.flags => AddressBytes(at) \in 0 .. 5
    BY SameAddress
<1>. QED BY <1>1 DEF Address, Behind

\* What the listing makes of a row, with its operands one behind the other.
Listed(at, i) == DisOperands(task.code, at, i, Ops32, Addr32)
ListedDest(at, i) == Shown(Address(at, i), Behind(at, i), i.dest)
Listed1(at, i) == Behind(at, i) + ListedDest(at, i).bytes
ListedSrc1(at, i) == Shown(Address(at, i), Listed1(at, i), i.src1)
Listed2(at, i) == Listed1(at, i) + ListedSrc1(at, i).bytes
ListedSrc2(at, i) == Shown(Address(at, i), Listed2(at, i), i.src2)

LEMMA ListedAt ==
    ASSUME NEW at \in Nat, NEW i
    PROVE  /\ Listed(at, i).end = Listed2(at, i) + ListedSrc2(at, i).bytes
           /\ Listed(at, i).src1 = ListedSrc1(at, i).shown
           /\ Listed(at, i).src2 = ListedSrc2(at, i).shown
<1>. DEFINE modrm == "MODRM" \in i.flags
            address == IF modrm THEN at + 1 ELSE at
            end == address + (IF ~modrm THEN 0
                              ELSE IF Addr32 THEN rm32(task.code[at + 2], task.code[at + 1] \div 64,
                                                       task.code[at + 1] % 8)
                              ELSE rm16(task.code[at + 1] \div 64, task.code[at + 1] % 8))
            dest == disasm_operand(task.code, address, end, i.dest, Ops32, Addr32)
            src1 == disasm_operand(task.code, address, end + dest.bytes, i.src1, Ops32, Addr32)
            src2 == disasm_operand(task.code, address, end + dest.bytes + src1.bytes, i.src2,
                                   Ops32, Addr32)
<1>1. address = Address(at, i)
    BY DEF Address
<1>2. end = Behind(at, i)
    BY DEF Behind, AddressBytes
<1>3. Listed(at, i) = [end |-> end + dest.bytes + src1.bytes + src2.bytes, inst |-> i,
                       dest |-> dest.shown, src1 |-> src1.shown, src2 |-> src2.shown]
    BY Zenon DEF Listed, DisOperands
<1>. HIDE DEF address, end
<1>4. /\ dest = ListedDest(at, i)
      /\ src1 = ListedSrc1(at, i)
      /\ src2 = ListedSrc2(at, i)
      /\ end + dest.bytes + src1.bytes = Listed2(at, i)
    BY <1>1, <1>2, Zenon DEF ListedDest, ListedSrc1, ListedSrc2, Shown, Listed1, Listed2
<1>. HIDE DEF dest, src1, src2, end
<1>. QED BY <1>3, <1>4

\* The row as the core takes it once the Mod R/M byte has told the operation,
\* and its operands.
Told(at, j) == Fixup(j, IF "MODRM" \in j.flags THEN (CodeByte(at) \div 8) % 8 ELSE 0)
Decoding(at, j) == DecodeAt(m, [inst |-> j, eip |-> at])
Taken1(at, j) == Behind(at, j) + Taken(Told(at, j).dest)
Taken2(at, j) == Taken1(at, j) + Taken(Told(at, j).src1)
Taken3(at, j) == Taken2(at, j) + Taken(Told(at, j).src2)

\* What the core makes of a row.
LEMMA DecodedAt ==
    ASSUME NEW at \in Nat, NEW j, GoesOn(at), "MODRM" \in j.flags => AddressAt(task.code, at),
           {"eip", "old_eip"} \subseteq DOMAIN m
    PROVE  /\ Decoding(at, j).inst = Told(at, j)
           /\ Decoding(at, j).next.eip = U32(Taken3(at, j))
           /\ Decoding(at, j).next.old_eip = U32(Taken3(at, j))
           /\ \E rm, reg :
                /\ Decoding(at, j).src1 = DecodeOperand(Taken1(at, j), rm, reg, Told(at, j).src1)
                /\ Decoding(at, j).src2 = DecodeOperand(Taken2(at, j), rm, reg, Told(at, j).src2)
<1>. DEFINE f == Told(at, j)
            e1 == Taken1(at, j)
            e2 == Taken2(at, j)
            e3 == U32(Taken3(at, j))
            n == [m EXCEPT !.eip = e3, !.old_eip = e3]
<1>1. ASSUME NEW rm, NEW r, rm.eip = Behind(at, j)
      PROVE  LET o == Operands(m, rm, r, f)
             IN /\ o.inst = f /\ o.next = n
                /\ o.src1 = DecodeOperand(e1, rm, r, f.src1)
                /\ o.src2 = DecodeOperand(e2, rm, r, f.src2)
    <2>1. /\ e1 = rm.eip + OperandBytes(f.dest.type, RealSize(f.dest.size))
          /\ e2 = e1 + OperandBytes(f.src1.type, RealSize(f.src1.size))
          /\ e3 = U32(e2 + OperandBytes(f.src2.type, RealSize(f.src2.size)))
        BY <1>1, Zenon DEF Taken1, Taken2, Taken3, Taken
    <2>. HIDE DEF f, e1, e2, e3
    <2>. QED BY <2>1 DEF Operands
<1>2. n.eip = e3 /\ n.old_eip = e3
    <2>. HIDE DEF e3
    <2>. QED OBVIOUS
<1>3. \E rm, r : rm.eip = Behind(at, j) /\ Decoding(at, j) = Operands(m, rm, r, f)
    <2>1. CASE "MODRM" \in j.flags
        <3>1. Decoding(at, j) = Operands(m, DecodeRM(m, at), (CodeByte(at) \div 8) % 8, f)
            BY <2>1 DEF DecodeAt, Told, Decoding
        <3>2. DecodeRM(m, at).eip = Behind(at, j)
            BY <2>1, SameAddress DEF Behind
        <3>. QED BY <3>1, <3>2, Zenon
    <2>2. CASE "MODRM" \notin j.flags
        <3>. DEFINE rm == [type |-> "NONE", id |-> 0, sr |-> 0, eip |-> at]
        <3>1. Decoding(at, j) = Operands(m, rm, 0, f)
            BY <2>2 DEF DecodeAt, Told, Decoding
        <3>2. rm.eip = Behind(at, j)
            BY <2>2 DEF Behind
        <3>. QED BY <3>1, <3>2, Zenon
    <2>. QED BY <2>1, <2>2
<1>. HIDE DEF n, e1, e2, e3
<1>4. PICK rm, r : rm.eip = Behind(at, j) /\ Decoding(at, j) = Operands(m, rm, r, f)
    BY <1>3
<1>5. /\ Decoding(at, j).inst = f /\ Decoding(at, j).next = n
      /\ Decoding(at, j).src1 = DecodeOperand(e1, rm, r, f.src1)
      /\ Decoding(at, j).src2 = DecodeOperand(e2, rm, r, f.src2)
    BY <1>1, <1>4
<1>. QED BY <1>2, <1>5, Zenon DEF e1, e2, e3

\* A row whose operation a repetition has taken over.
SameOperands(i, j) ==
    /\ i.dest = j.dest /\ i.src1 = j.src1 /\ i.src2 = j.src2 /\ i.flags = j.flags

\* A row that fixup_f6 leaves alone, for its flags or its operation.
Kept(j) == OneNumber(j) /\ (j.op = "ALU_SPECIAL" => "WEIRD" \notin j.flags)

\* The other fixups change nothing that the listing is about.
LEMMA LineTold ==
    ASSUME NEW j, Kept(j), NEW at
    PROVE  SameOperands(Told(at, j), j) /\ (j.op # "MULTIPLEXED_FF" => Told(at, j).op = j.op)
<1>1. /\ ~(j.op = "ALU_SPECIAL" /\ j.sub = ALU_MULTI /\ "WEIRD" \in j.flags)
      /\ j = Inst(j.op, j.sub, j.flags, j.dest, j.src1, j.src2)
    BY DEF Kept, OneNumber
<1>2. ASSUME NEW r PROVE SameOperands(FixupFF(j, r), j)
    <2>1. ASSUME NEW op PROVE SameOperands([j EXCEPT !.op = op], j)
        BY <1>1 DEF SameOperands, Inst
    <2>2. ASSUME NEW op, NEW sub PROVE SameOperands([j EXCEPT !.op = op, !.sub = sub], j)
        <3>1. PICK k, l, f, a, b, c : j = Inst(k, l, f, a, b, c)
            BY <1>1
        <3>2. [j EXCEPT !.op = op] = Inst(op, l, f, a, b, c)
            BY <3>1 DEF Inst
        <3>3. [Inst(op, l, f, a, b, c) EXCEPT !.sub = sub] = Inst(op, sub, f, a, b, c)
            BY DEF Inst
        <3>4. [j EXCEPT !.op = op, !.sub = sub] = Inst(op, sub, f, a, b, c)
            BY <3>2, <3>3
        <3>. QED BY <3>1, <3>4 DEF SameOperands, Inst
    <2>3. SameOperands(j, j)
        BY DEF SameOperands
    <2>. QED BY <2>1, <2>2, <2>3 DEF FixupFF
<1>3. ASSUME NEW r PROVE SameOperands(Fixup(j, r), j)
    BY <1>1, <1>2 DEF Fixup, SameOperands
<1>4. ASSUME NEW r, j.op # "MULTIPLEXED_FF" PROVE Fixup(j, r).op = j.op
    BY <1>1, <1>4 DEF Fixup
<1>. QED BY <1>3, <1>4 DEF Told

\* The bytes of the operands, of the rows that have one number at most.
LEMMA LineBytes ==
    ASSUME NEW at \in Nat, NEW i, OneNumber(i), NEW j, Kept(j), SameOperands(i, j), GoesOn(at),
           "MODRM" \in i.flags => AddressAt(task.code, at)
    PROVE  /\ Taken3(at, j) \in at .. at + 10
           /\ (Listed2(at, i) + ListedSrc2(at, i).bytes = Taken3(at, j))
              <=> ~(i.src1.type = "FAR_PTR" /\ RealSize(i.src1.size) = 4)
           /\ i.src1.type = "IP_REL" =>
                Address(at, i) = at /\ Listed1(at, i) = at /\ Taken1(at, j) = at
           /\ i.src2.type \in {"IMM", "SIMM"} => Taken2(at, j) = Behind(at, i)
<1>. DEFINE f == Told(at, j)
<1>1. f.dest = i.dest /\ f.src1 = i.src1 /\ f.src2 = i.src2
    BY LineTold DEF SameOperands
<1>2. Behind(at, i) \in at .. at + 6 /\ Behind(at, i) = Behind(at, j)
    BY Places DEF SameOperands, Behind
<1>. DEFINE e == Behind(at, i)
            b0 == ListedDest(at, i).bytes
            b1 == ListedSrc1(at, i).bytes
            b2 == ListedSrc2(at, i).bytes
            t0 == Taken(i.dest)
            t1 == Taken(i.src1)
            t2 == Taken(i.src2)
<1>3. /\ Quiet(i.dest) => b0 = 0 /\ t0 = 0
      /\ Number(i.dest) => b0 = t0 /\ t0 \in {1, 2, 4}
    BY SameBytes DEF ListedDest
<1>4. /\ Quiet(i.src1) => b1 = 0 /\ t1 = 0
      /\ Number(i.src1) \/ Target(i.src1) => b1 = t1 /\ t1 \in {1, 2, 4}
      /\ Far(i.src1) => b1 = 0 /\ t1 \in {0, 4} /\ (RealSize(i.src1.size) = 4 <=> t1 = 4)
    BY SameBytes DEF ListedSrc1
<1>5. /\ Quiet(i.src2) => b2 = 0 /\ t2 = 0
      /\ Number(i.src2) => b2 = t2 /\ t2 \in {1, 2, 4}
    BY SameBytes DEF ListedSrc2
<1>6. /\ Taken1(at, j) = e + t0 /\ Taken2(at, j) = e + t0 + t1 /\ Taken3(at, j) = e + t0 + t1 + t2
      /\ Listed1(at, i) = e + b0 /\ Listed2(at, i) = e + b0 + b1
    BY <1>1, <1>2, Zenon DEF Taken1, Taken2, Taken3, Listed1, Listed2
<1>7. i.src1.type = "FAR_PTR" => Far(i.src1)
    BY DEF OneNumber, Quiet, Number, Target, Coded
<1>8. i.src1.type = "IP_REL" => Address(at, i) = at /\ e = at
    BY DEF OneNumber, Quiet, Number, Target, Far, Coded, Address, Behind
<1>9. i.src1.type = "IP_REL" => Quiet(i.dest)
    BY DEF OneNumber, Quiet, Number, Target, Far, Coded
<1>10. i.src2.type \in {"IMM", "SIMM"} => Quiet(i.dest) /\ Quiet(i.src1)
    BY DEF OneNumber, Quiet, Number, Coded
<1>11. /\ Far(i.src1) => i.src1.type = "FAR_PTR"
       /\ Quiet(i.src1) \/ Number(i.src1) \/ Target(i.src1) => i.src1.type # "FAR_PTR"
    BY DEF Far, Quiet, Number, Target, Coded
<1>12. \/ Quiet(i.dest) /\ Quiet(i.src1) /\ (Quiet(i.src2) \/ Number(i.src2))
       \/ Quiet(i.dest) /\ Number(i.src1) /\ Quiet(i.src2)
       \/ Number(i.dest) /\ Quiet(i.src1) /\ Quiet(i.src2)
       \/ Quiet(i.dest) /\ (Target(i.src1) \/ Far(i.src1)) /\ Quiet(i.src2)
    BY DEF OneNumber
<1>. HIDE DEF f, e, b0, b1, b2, t0, t1, t2
<1>13. Taken3(at, j) \in at .. at + 10
    BY <1>2, <1>3, <1>4, <1>5, <1>6, <1>12 DEF e
<1>14. (e + b0 + b1 + b2 = e + t0 + t1 + t2)
       <=> ~(i.src1.type = "FAR_PTR" /\ RealSize(i.src1.size) = 4)
    BY <1>2, <1>3, <1>4, <1>5, <1>11, <1>12 DEF e
<1>15. i.src1.type = "IP_REL" =>
         Address(at, i) = at /\ Listed1(at, i) = at /\ Taken1(at, j) = at
    BY <1>3, <1>6, <1>8, <1>9
<1>16. i.src2.type \in {"IMM", "SIMM"} => Taken2(at, j) = e
    BY <1>2, <1>3, <1>4, <1>6, <1>10 DEF e
<1>. QED BY <1>6, <1>13, <1>14, <1>15, <1>16 DEF b2, e

\* Numbers below 2^32 are as they are.
LEMMA Uncut == ASSUME NEW v \in Nat, v < W(4) PROVE U32(v) = v
<1>1. Byte \in Nat /\ Byte >= 2
    BY ByteAssumption
<1>2. ASSUME NEW x \in Nat \ {0}, NEW y \in Nat \ {0} PROVE x * y \in Nat \ {0}
    BY <1>2
<1>. HIDE DEF Byte
<1>3. Byte * Byte \in Nat \ {0}
    BY <1>1, <1>2
<1>4. (Byte * Byte) * Byte \in Nat \ {0}
    BY <1>1, <1>2, <1>3
<1>5. ((Byte * Byte) * Byte) * Byte \in Nat \ {0}
    BY <1>1, <1>2, <1>4
<1>6. W(4) = Byte * Byte * Byte * Byte
    BY DEF W
<1>7. W(4) \in Nat \ {0}
    BY <1>5, <1>6, Zenon
<1>. QED BY <1>7 DEF U32

\* A number that both programs read at the same place is the same number.
LEMMA SameTarget ==
    ASSUME NEW e \in Nat, e + 1 \in DOMAIN task.code, NEW o, Target(o), NEW rm, NEW reg
    PROVE  Shown(e, e, o).shown = DecodeOperand(e, rm, reg, o).id
<1>1. RealSize(o.size) = DisSize(o.size, Ops32) /\ RealSize(o.size) \in {1, 2, 4}
    BY DEF Target, RealSize, DisSize, SZ_1632, SZ_816, SZ_3248, SZ_3264
<1>2. o.type = "IP_REL"
    BY DEF Target
<1>. DEFINE n == RealSize(o.size)
<1>3. Shown(e, e, o).shown = U32(e + n + SX(n, task.code[e + 1]))
    BY <1>1, <1>2 DEF Shown, disasm_operand
<1>4. OperandBytes(o.type, n) = n
    BY <1>1, <1>2 DEF OperandBytes
<1>5. DecodeOperand(e, rm, reg, o).id = U32((e + n) + SX(n, Code(e)))
    BY <1>2, <1>4 DEF DecodeOperand, Decoded
<1>. QED BY <1>3, <1>5, CodeAt

LEMMA SameImmediate ==
    ASSUME NEW e \in Nat, e + 1 \in DOMAIN task.code, NEW vaddr, NEW o, Number(o), o.type # "OFFSET",
           NEW rm, NEW reg
    PROVE  Shown(e, vaddr, o).shown = DecodeOperand(e, rm, reg, o).id
<1>1. RealSize(o.size) = DisSize(o.size, Ops32) /\ RealSize(o.size) \in {1, 2, 4}
    BY DEF Number, RealSize, DisSize, SZ_1632, SZ_816, SZ_3248, SZ_3264
<1>. DEFINE n == RealSize(o.size)
<1>2. CASE o.type = "IMM"
    <2>1. Shown(e, vaddr, o).shown = task.code[e + 1]
        BY <1>2 DEF Shown, disasm_operand
    <2>2. DecodeOperand(e, rm, reg, o).id = Code(e)
        BY <1>1, <1>2 DEF DecodeOperand, Decoded
    <2>. QED BY <2>1, <2>2, CodeAt
<1>3. CASE o.type = "SIMM"
    <2>1. Shown(e, vaddr, o).shown = U32(SX(n, task.code[e + 1]))
        BY <1>1, <1>3 DEF Shown, disasm_operand
    <2>2. DecodeOperand(e, rm, reg, o).id = U32(SX(n, Code(e)))
        BY <1>3 DEF DecodeOperand, Decoded
    <2>. QED BY <2>1, <2>2, CodeAt
<1>. QED BY <1>2, <1>3 DEF Number

\* What the listing says of an instruction, and what the core makes of it, for
\* the rows with one number at most.
LEMMA LineAgrees ==
    ASSUME NEW at \in Nat, NEW i, OneNumber(i), NEW j, Kept(j), SameOperands(i, j), GoesOn(at),
           "MODRM" \in i.flags => AddressAt(task.code, at), at + 10 < W(4),
           {"eip", "old_eip"} \subseteq DOMAIN m
    PROVE  /\ Decoding(at, j).next.eip \in at .. at + 10
           /\ Decoding(at, j).next.old_eip = Decoding(at, j).next.eip
           /\ (Listed(at, i).end = Decoding(at, j).next.eip)
              <=> ~(i.src1.type = "FAR_PTR" /\ RealSize(i.src1.size) = 4)
           /\ i.src1.type = "IP_REL" => Listed(at, i).src1 = Decoding(at, j).src1.id
           /\ i.src2.type \in {"IMM", "SIMM"} /\ Behind(at, i) = Address(at, i)
                => Listed(at, i).src2 = Decoding(at, j).src2.id
           /\ SameOperands(Decoding(at, j).inst, i)
<1>1. "MODRM" \in j.flags => AddressAt(task.code, at)
    BY DEF SameOperands
<1>2. Taken3(at, j) \in at .. at + 10 /\ U32(Taken3(at, j)) = Taken3(at, j)
    <2>1. Taken3(at, j) \in at .. at + 10
        BY LineBytes
    <2>2. Taken3(at, j) \in Nat /\ Taken3(at, j) < W(4)
        <3>1. W(4) \in Int
            BY ByteAssumption DEF W
        <3>. QED BY <2>1, <3>1
    <2>. QED BY <2>1, <2>2, Uncut
<1>3. Told(at, j).src1 = i.src1 /\ Told(at, j).src2 = i.src2 /\ SameOperands(Told(at, j), i)
    BY LineTold DEF SameOperands
<1>4. PICK rm, reg :
        /\ Decoding(at, j).src1 = DecodeOperand(Taken1(at, j), rm, reg, i.src1)
        /\ Decoding(at, j).src2 = DecodeOperand(Taken2(at, j), rm, reg, i.src2)
    BY <1>1, <1>3, DecodedAt
<1>5. /\ Decoding(at, j).inst = Told(at, j) /\ Decoding(at, j).next.eip = Taken3(at, j)
      /\ Decoding(at, j).next.old_eip = Taken3(at, j)
    BY <1>1, <1>2, DecodedAt
<1>6. (Listed(at, i).end = Decoding(at, j).next.eip)
      <=> ~(i.src1.type = "FAR_PTR" /\ RealSize(i.src1.size) = 4)
    <2>1. Listed(at, i).end = Listed2(at, i) + ListedSrc2(at, i).bytes
        BY ListedAt
    <2>. QED BY <1>5, <2>1, LineBytes
<1>7. ASSUME i.src1.type = "IP_REL" PROVE Listed(at, i).src1 = Decoding(at, j).src1.id
    <2>1. Address(at, i) = at /\ Listed1(at, i) = at /\ Taken1(at, j) = at
        BY <1>7, LineBytes
    <2>2. Listed(at, i).src1 = Shown(at, at, i.src1).shown
        BY <2>1, ListedAt DEF ListedSrc1
    <2>3. Target(i.src1)
        BY <1>7 DEF OneNumber, Quiet, Number, Far, Coded
    <2>4. at + 1 \in DOMAIN task.code
        BY DEF GoesOn
    <2>5. Shown(at, at, i.src1).shown = DecodeOperand(at, rm, reg, i.src1).id
        BY <2>3, <2>4, SameTarget
    <2>. QED BY <1>4, <2>1, <2>2, <2>5
<1>8. ASSUME i.src2.type \in {"IMM", "SIMM"}, Behind(at, i) = Address(at, i)
      PROVE  Listed(at, i).src2 = Decoding(at, j).src2.id
    <2>. DEFINE e == Address(at, i)
    <2>1. Taken2(at, j) = e
        BY <1>8, LineBytes
    <2>2. Listed(at, i).src2 = Shown(e, Listed2(at, i), i.src2).shown
        BY ListedAt DEF ListedSrc2
    <2>3. Number(i.src2) /\ i.src2.type # "OFFSET"
        BY <1>8 DEF OneNumber, Quiet, Number, Coded
    <2>4. e \in Nat /\ e + 1 \in DOMAIN task.code
        BY DEF GoesOn, Address
    <2>. HIDE DEF e
    <2>5. Shown(e, Listed2(at, i), i.src2).shown = DecodeOperand(e, rm, reg, i.src2).id
        BY <2>3, <2>4, SameImmediate
    <2>. QED BY <1>4, <2>1, <2>2, <2>5
<1>9. SameOperands(Decoding(at, j).inst, i)
    BY <1>3, <1>5
<1>10. Decoding(at, j).next.eip \in at .. at + 10 /\ Decoding(at, j).next.old_eip = Decoding(at, j).next.eip
    BY <1>2, <1>5
<1>. QED BY <1>6, <1>7, <1>8, <1>9, <1>10

\* ENTER has two numbers, and both programs pass them.
LEMMA EnterAgrees ==
    ASSUME NEW at \in Nat, NEW i, i = Inst("ENTER", 0, {}, None, Imm(2), Imm(1)),
           NEW j, SameOperands(i, j), j.op \notin {"ALU_SPECIAL", "MULTIPLEXED_FF"},
           GoesOn(at), at + 10 < W(4), {"eip", "old_eip"} \subseteq DOMAIN m
    PROVE  /\ Listed(at, i).end = at + 3
           /\ Decoding(at, j).next.eip = at + 3 /\ Decoding(at, j).next.old_eip = at + 3
           /\ Decoding(at, j).inst = j
<1>1. Told(at, j) = j
    BY DEF Told, Fixup
<1>2. j.flags = {} /\ j.dest = None /\ j.src1 = Imm(2) /\ j.src2 = Imm(1)
      /\ i.flags = {} /\ i.dest = None /\ i.src1 = Imm(2) /\ i.src2 = Imm(1)
    BY DEF SameOperands, Inst
<1>3. Behind(at, j) = at /\ Behind(at, i) = at /\ "MODRM" \notin j.flags
    BY <1>2 DEF Behind
<1>4. /\ Taken(None) = 0 /\ Taken(Imm(2)) = 2 /\ Taken(Imm(1)) = 1
      /\ \A a, v : /\ Shown(a, v, None).bytes = 0 /\ Shown(a, v, Imm(2)).bytes = 2
                   /\ Shown(a, v, Imm(1)).bytes = 1
    BY DEF Taken, OperandBytes, RealSize, Shown, disasm_operand, DisSize, None, Imm, Operand,
           SZ_1632, SZ_816, SZ_3248, SZ_3264
<1>5. Taken3(at, j) = at + 3
    BY <1>1, <1>2, <1>3, <1>4 DEF Taken1, Taken2, Taken3
<1>6. Listed2(at, i) + ListedSrc2(at, i).bytes = at + 3
    BY <1>2, <1>3, <1>4 DEF ListedDest, Listed1, ListedSrc1, Listed2, ListedSrc2
<1>7. U32(at + 3) = at + 3
    <2>1. W(4) \in Int
        BY ByteAssumption DEF W
    <2>2. at + 3 \in Nat /\ at + 3 < W(4)
        BY <2>1
    <2>. QED BY <2>2, Uncut
<1>8. /\ Decoding(at, j).inst = j
      /\ Decoding(at, j).next.eip = at + 3 /\ Decoding(at, j).next.old_eip = at + 3
    BY <1>1, <1>3, <1>5, <1>7, DecodedAt
<1>9. Listed(at, i).end = at + 3
    BY <1>6, ListedAt
<1>. QED BY <1>8, <1>9

\* What fixup_f6 makes of the row of 0xF6 and 0xF7: TEST gets a number.
MultiForm(f, z) ==
    /\ f.op = "ALU_SPECIAL" /\ Quiet(f.dest) /\ Quiet(f.src1)
    /\ f.src2 = Imm(z) \/ Quiet(f.src2)

LEMMA MultiTold ==
    ASSUME NEW z \in {1, SZ_1632}, NEW r \in 0 .. 7
    PROVE  MultiForm(Fixup(Multi(z), r), z)
<1>. DEFINE inst == Multi(z)
            f == FixupF6(inst, r)
<1>1. /\ inst = Inst("ALU_SPECIAL", ALU_MULTI, {"MODRM", "WEIRD"}, None, RM(z), None)
      /\ inst.op = "ALU_SPECIAL" /\ inst.sub = ALU_MULTI /\ "WEIRD" \in inst.flags
      /\ inst.src1.size = z /\ inst.dest = None /\ inst.src1 = RM(z) /\ inst.src2 = None
    BY DEF Multi, ModRM, Inst, RM, Operand
<1>2. Fixup(inst, r) = f
    BY <1>1, Zenon DEF Fixup
<1>. HIDE DEF inst
<1>3. ASSUME r = 0 PROVE MultiForm(f, z)
    <2>1. f = Inst("ALU_SPECIAL", r, inst.flags, None, RM(z), Imm(z))
        BY <1>1, <1>3 DEF FixupF6, SpecialOps
    <2>2. f.op = "ALU_SPECIAL" /\ f.dest = None /\ f.src1 = RM(z) /\ f.src2 = Imm(z)
        BY <2>1 DEF Inst
    <2>. QED BY <2>2, QuietOnes DEF MultiForm
<1>4. ASSUME r = 1 PROVE MultiForm(f, z)
    <2>1. f = [inst EXCEPT !.sub = r]
        BY <1>1, <1>4 DEF FixupF6, SpecialOps
    <2>2. f.op = "ALU_SPECIAL" /\ f.dest = None /\ f.src1 = RM(z) /\ f.src2 = None
        BY <1>1, <2>1 DEF Inst
    <2>. QED BY <2>2, QuietOnes DEF MultiForm
<1>5. ASSUME r \in {2, 3} PROVE MultiForm(f, z)
    <2>1. f = Inst("ALU_SPECIAL", r, inst.flags, RM(z), RM(z), None)
        BY <1>1, <1>5 DEF FixupF6, SpecialOps
    <2>2. f.op = "ALU_SPECIAL" /\ f.dest = RM(z) /\ f.src1 = RM(z) /\ f.src2 = None
        BY <2>1 DEF Inst
    <2>. QED BY <2>2, QuietOnes DEF MultiForm
<1>6. ASSUME r \in {4, 5} PROVE MultiForm(f, z)
    <2>1. f = Inst("ALU_SPECIAL", r, {"WRITE_DX"}, Const(z, EAX), Const(z, EAX), RM(z))
        BY <1>1, <1>6 DEF FixupF6, SpecialOps
    <2>2. /\ f.op = "ALU_SPECIAL" /\ f.dest = Const(z, EAX) /\ f.src1 = Const(z, EAX)
          /\ f.src2 = RM(z)
        BY <2>1 DEF Inst
    <2>. QED BY <2>2, QuietOnes DEF MultiForm
<1>7. ASSUME r \in {6, 7} PROVE MultiForm(f, z)
    <2>. DEFINE left == IF z = 1 THEN Const(2, EAX) ELSE Operand("EDX_EAX", SZ_3264, 0)
    <2>1. f = Inst("ALU_SPECIAL", r, {"WRITE_DX"}, Const(z, EAX), left, RM(z))
        BY <1>1, <1>7 DEF FixupF6, SpecialOps
    <2>2. Quiet(left)
        BY QuietOnes
    <2>. HIDE DEF left
    <2>3. /\ f.op = "ALU_SPECIAL" /\ f.dest = Const(z, EAX) /\ f.src1 = left
          /\ f.src2 = RM(z)
        BY <2>1 DEF Inst
    <2>. QED BY <2>2, <2>3, QuietOnes DEF MultiForm
<1>8. Fixup(inst, r) = Fixup(Multi(z), r)
    BY DEF inst
<1>. HIDE DEF f
<1>9. MultiForm(f, z)
    BY <1>3, <1>4, <1>5, <1>6, <1>7
<1>. QED BY <1>2, <1>8, <1>9

LEMMA MultiAgrees ==
    ASSUME NEW at \in Nat, NEW z \in {1, SZ_1632}, GoesOn(at), AddressAt(task.code, at),
           at + 10 < W(4), {"eip", "old_eip"} \subseteq DOMAIN m
    PROVE  LET i == Multi(z)
               d == Decoding(at, i)
           IN /\ (Listed(at, i).end = d.next.eip) <=> d.inst.src2.type # "IMM"
              /\ d.next.eip \in at .. at + 10 /\ d.next.old_eip = d.next.eip
              /\ d.inst.op = "ALU_SPECIAL" /\ Quiet(d.inst.src1) /\ d.inst.src2.type # "SIMM"
<1>. DEFINE i == Multi(z)
            f == Told(at, i)
            e == Behind(at, i)
<1>1. i.dest = None /\ i.src1 = RM(z) /\ i.src2 = None /\ "MODRM" \in i.flags
    BY DEF Multi, ModRM, Inst
<1>. HIDE DEF i
<1>2. e \in at .. at + 6
    BY Places
<1>3. Listed(at, i).end = e
    <2>1. Quiet(i.dest) /\ Quiet(i.src1) /\ Quiet(i.src2)
        BY <1>1, QuietOnes
    <2>2. ListedDest(at, i).bytes = 0 /\ ListedSrc1(at, i).bytes = 0 /\ ListedSrc2(at, i).bytes = 0
        BY <2>1, SameBytes DEF ListedDest, ListedSrc1, ListedSrc2
    <2>3. Listed(at, i).end = e + 0 + 0 + 0
        BY <2>2, ListedAt, Zenon DEF Listed1, Listed2
    <2>. QED BY <1>2, <2>3
<1>4. /\ f.op = "ALU_SPECIAL" /\ Quiet(f.dest) /\ Quiet(f.src1)
      /\ f.src2 = Imm(z) \/ Quiet(f.src2)
    <2>1. CodeByte(at) \in 0 .. 255
        <3>1. Code(at) \in 0 .. 255
            BY CodeAt DEF GoesOn, AddressAt
        <3>. QED BY <3>1 DEF CodeByte
    <2>2. (CodeByte(at) \div 8) % 8 \in 0 .. 7
        BY <2>1
    <2>3. f = Fixup(Multi(z), (CodeByte(at) \div 8) % 8)
        BY <1>1 DEF Told, i
    <2>. QED BY <2>2, <2>3, MultiTold DEF MultiForm
<1>5. Taken3(at, i) = e + Taken(f.src2)
    <2>1. Taken(f.dest) = 0 /\ Taken(f.src1) = 0
        BY <1>4, SameBytes
    <2>2. Taken3(at, i) = e + 0 + 0 + Taken(f.src2)
        BY <2>1, Zenon DEF Taken1, Taken2, Taken3
    <2>3. e + 0 + 0 = e
        BY <1>2
    <2>. QED BY <2>2, <2>3
<1>6. /\ f.src2.type = "IMM" => Taken(f.src2) \in {1, 2, 4}
      /\ f.src2.type # "IMM" => Taken(f.src2) = 0
      /\ f.src2.type # "SIMM"
    <2>1. CASE Quiet(f.src2)
        <3>1. Taken(f.src2) = 0
            BY <2>1, SameBytes
        <3>. QED BY <2>1, <3>1 DEF Quiet, Coded
    <2>2. CASE f.src2 = Imm(z)
        <3>1. Number(Imm(z)) /\ Imm(z).type = "IMM"
            BY NumberOnes DEF Imm, Operand
        <3>2. Taken(Imm(z)) \in {1, 2, 4}
            BY <3>1, SameBytes
        <3>. QED BY <2>2, <3>1, <3>2
    <2>. QED BY <1>4, <2>1, <2>2
<1>7. Taken3(at, i) \in at .. at + 10 /\ (e = Taken3(at, i) <=> f.src2.type # "IMM")
    BY <1>2, <1>5, <1>6
<1>8. U32(Taken3(at, i)) = Taken3(at, i)
    <2>1. W(4) \in Int
        BY ByteAssumption DEF W
    <2>2. Taken3(at, i) \in Nat /\ Taken3(at, i) < W(4)
        BY <1>7, <2>1
    <2>. QED BY <2>2, Uncut
<1>9. /\ Decoding(at, i).inst = f
      /\ Decoding(at, i).next.eip = Taken3(at, i) /\ Decoding(at, i).next.old_eip = Taken3(at, i)
    BY <1>8, DecodedAt
<1>. HIDE DEF f
<1>10. /\ (Listed(at, i).end = Decoding(at, i).next.eip) <=> Decoding(at, i).inst.src2.type # "IMM"
       /\ Decoding(at, i).next.eip \in at .. at + 10
       /\ Decoding(at, i).next.old_eip = Decoding(at, i).next.eip
       /\ Decoding(at, i).inst.op = "ALU_SPECIAL" /\ Quiet(Decoding(at, i).inst.src1)
       /\ Decoding(at, i).inst.src2.type # "SIMM"
    BY <1>3, <1>4, <1>6, <1>7, <1>9
<1>. QED BY <1>10 DEF i

----------------------------------------------------------------------------
(* Prefixes *)

\* What is known of the instruction.
LEMMA TheLine ==
    ASSUME task \in Tasks
    PROVE  /\ task.prefix \in Seq(0 .. 255) /\ Len(task.prefix) \in Nat
           /\ Len(task.prefix) + 16 < W(4) /\ DOMAIN task.prefix = 1 .. Len(task.prefix)
           /\ \A i \in 1 .. Len(task.prefix) :
                How(i) \in DisPrefixes /\ task.prefix[i] \in 0 .. 255 /\ task.code[i] = task.prefix[i]
           /\ task.opcode \in 0 .. 255 /\ InstructionTable(task.opcode).op \notin DisPrefixes
           /\ task.use32 \in BOOLEAN
           /\ Len(task.code) \in Nat /\ DOMAIN task.code = 1 .. Len(task.code)
           /\ Len(task.code) >= Len(task.prefix) + 4
           /\ task.code[Len(task.prefix) + 1] = task.opcode
           /\ task.code[Len(task.prefix) + 2] = task.modrm
           /\ "MODRM" \in InstructionTable(task.opcode).flags => AddressAt(task.code, Len(task.prefix) + 1)
           /\ InstructionTable(task.opcode).op = "EXTENDED" =>
                task.modrm \in 0 .. 255 /\ AddressAt(task.code, Len(task.prefix) + 2)
<1>. DEFINE n == Len(task.prefix)
            first == InstructionTable(task.opcode)
<1>1. /\ task.prefix \in Seq(0 .. 255) /\ n + 16 < W(4)
      /\ \A i \in 1 .. n : InstructionTable(task.prefix[i]).op \in DisPrefixes
      /\ task.opcode \in 0 .. 255 /\ first.op \notin DisPrefixes
      /\ task.use32 \in BOOLEAN
      /\ task.code \in Seq(Nat) /\ Len(task.code) >= n + 4
      /\ \A i \in 1 .. n : task.code[i] = task.prefix[i]
      /\ task.code[n + 1] = task.opcode /\ task.code[n + 2] = task.modrm
      /\ "MODRM" \in first.flags => AddressAt(task.code, n + 1)
      /\ first.op = "EXTENDED" => task.modrm \in 0 .. 255 /\ AddressAt(task.code, n + 2)
    BY LinesAssumption, Zenon
<1>2. n \in Nat /\ DOMAIN task.prefix = 1 .. n /\ \A i \in 1 .. n : task.prefix[i] \in 0 .. 255
    <2>1. ASSUME NEW S, NEW p \in Seq(S)
          PROVE  Len(p) \in Nat /\ DOMAIN p = 1 .. Len(p) /\ \A i \in 1 .. Len(p) : p[i] \in S
        OBVIOUS
    <2>. QED BY <1>1, <2>1, Zenon
<1>3. Len(task.code) \in Nat /\ DOMAIN task.code = 1 .. Len(task.code)
    BY <1>1
<1>4. \A i \in 1 .. n : How(i) \in DisPrefixes
    BY <1>1 DEF How
<1>. QED BY <1>1, <1>2, <1>3, <1>4, Zenon

\* Of a kind of prefix that is there once at most, an odd number is there, or none.
LEMMA OneAtMost ==
    ASSUME NEW n \in Nat, NEW A, A \subseteq 0 .. n - 1, NEW B, B \subseteq 1 .. n,
           \A i \in 0 .. n - 1 : i \in A <=> i + 1 \in B, ~(Cardinality(B) > 1)
    PROVE  Cardinality(A) % 2 = 1 <=> B # {}
<1>1. IsFiniteSet(B) /\ Cardinality(B) \in Nat
    <2>1. IsFiniteSet(1 .. n)
        BY FS_Interval
    <2>2. IsFiniteSet(B)
        BY <2>1, FS_Subset
    <2>. QED BY <2>2, FS_CardinalityType
<1>2. CASE Cardinality(B) = 0
    <2>1. B = {}
        BY <1>1, <1>2, FS_EmptySet
    <2>2. A = {}
        BY <2>1
    <2>. QED BY <2>1, <2>2, FS_EmptySet
<1>3. CASE Cardinality(B) = 1
    <2>1. PICK x : B = {x}
        BY <1>1, <1>3, FS_Singleton
    <2>2. x \in 1 .. n
        BY <2>1
    <2>3. A = {x - 1}
        <3>1. x - 1 \in A
            BY <2>1, <2>2
        <3>2. \A y \in A : y = x - 1
            BY <2>1, <2>2
        <3>. QED BY <3>1, <3>2
    <2>4. Cardinality(A) = 1
        BY <2>3, FS_Singleton
    <2>. QED BY <2>1, <2>4
<1>. QED BY <1>1, <1>2, <1>3

\* The prefixes that are there.
There(ops) == \E i \in 1 .. Len(task.prefix) : How(i) \in ops

\* Prefixes that the listing counts.
Counted(ops) ==
    {i \in 0 .. Len(task.prefix) - 1 : InstructionTable(task.code[0 + i + 1]).op \in ops}

LEMMA OddPrefixes ==
    ASSUME task \in Tasks, NEW ops, ~(Count(ops) > 1)
    PROVE  Cardinality(Counted(ops)) % 2 = 1 <=> There(ops)
<1>. DEFINE n == Len(task.prefix)
            B == {i \in DOMAIN task.prefix : How(i) \in ops}
            A == Counted(ops)
<1>1. n \in Nat /\ DOMAIN task.prefix = 1 .. n /\ \A i \in 1 .. n : task.code[i] = task.prefix[i]
    BY TheLine
<1>2. A \subseteq 0 .. n - 1 /\ B \subseteq 1 .. n
    BY <1>1 DEF Counted
<1>3. ASSUME NEW i \in 0 .. n - 1 PROVE i \in A <=> i + 1 \in B
    <2>1. i + 1 \in 1 .. n /\ 0 + i + 1 = i + 1
        BY <1>1
    <2>2. task.code[0 + i + 1] = task.prefix[i + 1]
        BY <1>1, <2>1
    <2>. QED BY <1>1, <2>1, <2>2 DEF Counted, How
<1>4. ~(Cardinality(B) > 1)
    BY DEF Count
<1>5. B # {} <=> There(ops)
    BY <1>1 DEF There
<1>. HIDE DEF n, A, B
<1>6. Cardinality(A) % 2 = 1 <=> B # {}
    BY <1>1, <1>2, <1>3, <1>4, OneAtMost
<1>. QED BY <1>5, <1>6 DEF A

\* dis386 passes all prefixes.
LEMMA AllPassed ==
    ASSUME task \in Tasks
    PROVE  Min({i \in 0 .. Len(task.code) - 0 - 1 :
                    InstructionTable(task.code[0 + i + 1]).op \notin DisPrefixes})
             = Len(task.prefix)
<1>. DEFINE n == Len(task.prefix)
            S == {i \in 0 .. Len(task.code) - 0 - 1 :
                    InstructionTable(task.code[0 + i + 1]).op \notin DisPrefixes}
<1>1. /\ n \in Nat /\ Len(task.code) \in Nat /\ Len(task.code) >= n + 4
      /\ \A i \in 1 .. n : InstructionTable(task.code[i]).op \in DisPrefixes
      /\ InstructionTable(task.code[n + 1]).op \notin DisPrefixes
    <2>1. \A i \in 1 .. n : How(i) \in DisPrefixes /\ task.code[i] = task.prefix[i]
        BY TheLine, Zenon
    <2>2. /\ n \in Nat /\ Len(task.code) \in Nat /\ Len(task.code) >= n + 4
          /\ InstructionTable(task.code[n + 1]).op \notin DisPrefixes
        BY TheLine, Zenon
    <2>. QED BY <2>1, <2>2 DEF How
<1>2. n \in S
    <2>1. 0 + n + 1 = n + 1 /\ n \in 0 .. Len(task.code) - 0 - 1
        BY <1>1
    <2>. QED BY <1>1, <2>1
<1>3. ASSUME NEW i \in S PROVE n <= i
    <2>1. i \in Nat /\ 0 + i + 1 = i + 1
        BY <1>1
    <2>2. i + 1 \notin 1 .. n
        BY <1>1, <2>1
    <2>. QED BY <1>1, <2>1, <2>2
<1>4. S \subseteq Nat /\ S # {}
    BY <1>1, <1>2
<1>. HIDE DEF S, n
<1>5. Min(S) \in S /\ \A y \in S : Min(S) <= y
    BY <1>4, MinElement
<1>6. Min(S) = n
    <2>1. Min(S) <= n /\ n <= Min(S) /\ Min(S) \in Nat
        BY <1>2, <1>3, <1>4, <1>5
    <2>. QED BY <1>1, <2>1
<1>. QED BY <1>6 DEF S, n

\* The machine, which does nothing but pass prefixes.
Machine(e) ==
    [regs |-> [r \in 0 .. 7 |-> 0], flags |-> {}, eip |-> e, old_eip |-> 0,
     segs |-> [sr \in 0 .. 7 |-> [selector |-> 0, base |-> 0]],
     mem |-> [a \in 0 .. MemSize - 1 |-> 0], screen |-> <<>>, status |-> "runs"]

\* A kind of prefix was among those passed.
Met(op) == \E i \in 1 .. m.eip : How(i) = op

\* The overrides are those of the prefixes passed, none of which is a
\* repetition, and the listing was made before the first of them.
ListingInv ==
    /\ task \in Tasks
    /\ m.eip \in 0 .. Len(task.prefix) /\ m = Machine(m.eip) /\ rep = NoRep
    /\ \A i \in 1 .. m.eip : How(i) \in PrefixOps
    /\ op_override \in {0, 1} /\ (op_override = 1 <=> Met("OP_SZ_OVERRIDE"))
    /\ addr_override \in {0, 1} /\ (addr_override = 1 <=> Met("ADDR_SZ_OVERRIDE"))
    /\ overriding_sgmt \in {0, 1} /\ sgmt_override \in 0 .. 5 /\ frames \subseteq PrefixOps
    /\ \/ listed = NoLine /\ m.eip = 0
       \/ listed = [on |-> TRUE, line |-> dis386(task.code, 0, task.use32, task.use32)]
    /\ fetched.on => listed.on

\* The byte that the core is at.
LEMMA ByteAt ==
    ASSUME ListingInv
    PROVE  /\ m.eip \in Nat
           /\ m.eip < Len(task.prefix) => CodeByte(m.eip) = task.prefix[m.eip + 1]
           /\ m.eip = Len(task.prefix) => CodeByte(m.eip) = task.opcode
<1>. DEFINE n == Len(task.prefix)
            e == m.eip
<1>1. /\ n \in Nat /\ e \in 0 .. n
      /\ \A i \in 1 .. n : task.prefix[i] \in 0 .. 255 /\ task.code[i] = task.prefix[i]
      /\ task.opcode \in 0 .. 255 /\ task.code[n + 1] = task.opcode
      /\ DOMAIN task.code = 1 .. Len(task.code) /\ Len(task.code) \in Nat /\ Len(task.code) >= n + 4
    BY TheLine, Zenon DEF ListingInv
<1>. HIDE DEF n, e
<1>2. e \in Nat /\ e + 1 \in DOMAIN task.code
    BY <1>1
<1>3. Code(e) = task.code[e + 1]
    BY <1>2, CodeAt
<1>0. ASSUME NEW b \in 0 .. 255, Code(e) = b PROVE CodeByte(e) = b
    BY <1>0 DEF CodeByte
<1>4. ASSUME e < n PROVE CodeByte(e) = task.prefix[e + 1]
    <2>1. e + 1 \in 1 .. n
        BY <1>1, <1>4
    <2>2. Code(e) = task.prefix[e + 1] /\ task.prefix[e + 1] \in 0 .. 255
        BY <1>1, <1>3, <2>1
    <2>. QED BY <2>2, <1>0
<1>5. ASSUME e = n PROVE CodeByte(e) = task.opcode
    <2>1. Code(e) = task.opcode
        BY <1>1, <1>3, <1>5
    <2>. QED BY <1>1, <2>1, <1>0
<1>. QED BY <1>2, <1>4, <1>5 DEF n, e

LEMMA PrefixOpsPassed == PrefixOps \subseteq DisPrefixes /\ DisPrefixes \ PrefixOps = {"REPEZ", "REPNE"}
BY DEF PrefixOps, DisPrefixes

\* The core takes for the opcode what follows the prefixes, or a repetition.
LEMMA AtOpcode ==
    ASSUME ListingInv, ~AtPrefix, m.eip # Len(task.prefix)
    PROVE  /\ m.eip < Len(task.prefix) /\ How(m.eip + 1) \in {"REPEZ", "REPNE"}
           /\ InstructionTable(CodeByte(m.eip)).op = How(m.eip + 1)
<1>1. m.eip \in 0 .. Len(task.prefix) /\ Len(task.prefix) \in Nat
      /\ \A i \in 1 .. Len(task.prefix) : How(i) \in DisPrefixes
    BY TheLine, Zenon DEF ListingInv
<1>2. m.eip < Len(task.prefix) /\ m.eip + 1 \in 1 .. Len(task.prefix)
    BY <1>1
<1>3. InstructionTable(CodeByte(m.eip)).op = How(m.eip + 1)
    BY <1>2, ByteAt DEF How
<1>4. How(m.eip + 1) \in DisPrefixes /\ How(m.eip + 1) \notin PrefixOps
    BY <1>1, <1>2, <1>3 DEF AtPrefix
<1>. QED BY <1>2, <1>3, <1>4, PrefixOpsPassed

\* Passing a prefix.
LEMMA AtAPrefix ==
    ASSUME ListingInv, AtPrefix
    PROVE  /\ m.eip + 1 \in 1 .. Len(task.prefix) /\ U32(m.eip + 1) = m.eip + 1
           /\ InstructionTable(CodeByte(m.eip)).op = How(m.eip + 1)
           /\ CodeByte(m.eip) \in 0 .. 255
<1>1. m.eip \in 0 .. Len(task.prefix) /\ Len(task.prefix) \in Nat
      /\ InstructionTable(task.opcode).op \notin DisPrefixes /\ Len(task.prefix) + 16 < W(4)
      /\ \A i \in 1 .. Len(task.prefix) : task.prefix[i] \in 0 .. 255
    BY TheLine, Zenon DEF ListingInv
<1>2. m.eip # Len(task.prefix)
    BY <1>1, ByteAt, PrefixOpsPassed DEF AtPrefix
<1>3. m.eip < Len(task.prefix) /\ m.eip + 1 \in 1 .. Len(task.prefix)
    BY <1>1, <1>2
<1>4. CodeByte(m.eip) = task.prefix[m.eip + 1]
    BY <1>3, ByteAt
<1>5. U32(m.eip + 1) = m.eip + 1
    <2>1. W(4) \in Int
        BY ByteAssumption DEF W
    <2>2. m.eip + 1 \in Nat /\ m.eip + 1 < W(4)
        BY <1>1, <1>3, <2>1
    <2>. QED BY <2>2, Uncut
<1>. QED BY <1>1, <1>3, <1>4, <1>5 DEF How

\* Two truth values differ as 0 and 1 do.
LEMMA Differ ==
    ASSUME NEW x \in BOOLEAN, NEW y \in BOOLEAN, NEW k \in {0, 1}, k = 1 <=> y
    PROVE  (x # y) = ((IF x THEN 1 ELSE 0) # k)
<1>1. CASE x = TRUE /\ y = TRUE
    <2>1. k = 1
        BY <1>1
    <2>. QED BY <1>1, <2>1
<1>2. CASE x = TRUE /\ y = FALSE
    <2>1. k = 0
        BY <1>2
    <2>. QED BY <1>2, <2>1
<1>3. CASE x = FALSE /\ y = TRUE
    <2>1. k = 1 /\ 0 # 1
        BY <1>3
    <2>2. (x # y) = TRUE /\ ((IF x THEN 1 ELSE 0) # k) = TRUE
        BY <1>3, <2>1, Zenon
    <2>. QED BY <2>2
<1>4. CASE x = FALSE /\ y = FALSE
    <2>1. k = 0
        BY <1>4
    <2>. QED BY <1>4, <2>1
<1>. QED BY <1>1, <1>2, <1>3, <1>4

\* When nothing is misread, all prefixes were passed but for a repetition.
LEMMA AllMet ==
    ASSUME ListingInv, ~AtPrefix, ~Misread
    PROVE  /\ m.eip = Len(task.prefix) \/
                /\ m.eip + 1 = Len(task.prefix) /\ How(m.eip + 1) \in {"REPEZ", "REPNE"}
                /\ InstructionTable(CodeByte(m.eip)).op = How(m.eip + 1)
                /\ InstructionTable(task.opcode).op # "EXTENDED"
           /\ \A op \in PrefixOps : Met(op) <=> There({op})
<1>1. m.eip \in 0 .. Len(task.prefix) /\ Len(task.prefix) \in Nat /\ DOMAIN task.prefix = 1 .. Len(task.prefix)
    BY TheLine, Zenon DEF ListingInv
<1>2. CASE m.eip = Len(task.prefix)
    BY <1>2, Zenon DEF Met, There
<1>3. CASE m.eip # Len(task.prefix)
    <2>1. m.eip < Len(task.prefix) /\ How(m.eip + 1) \in {"REPEZ", "REPNE"}
          /\ InstructionTable(CodeByte(m.eip)).op = How(m.eip + 1)
        BY <1>3, AtOpcode
    <2>2. m.eip + 1 \in DOMAIN task.prefix
        BY <1>1, <2>1
    <2>3. ~(m.eip + 1 < Len(task.prefix)) /\ InstructionTable(task.opcode).op # "EXTENDED"
        BY <2>1, <2>2 DEF Misread
    <2>4. m.eip + 1 = Len(task.prefix)
        BY <1>1, <2>1, <2>3
    <2>5. ASSUME NEW op \in PrefixOps PROVE Met(op) <=> There({op})
        <3>1. op # How(m.eip + 1)
            BY <2>1 DEF PrefixOps
        <3>2. \A i \in 1 .. Len(task.prefix) : i \in 1 .. m.eip \/ i = m.eip + 1
            BY <1>1, <2>4
        <3>3. \A i \in 1 .. m.eip : i \in 1 .. Len(task.prefix)
            BY <1>1
        <3>. QED BY <3>1, <3>2, <3>3, Zenon DEF Met, There
    <2>. QED BY <2>1, <2>3, <2>4, <2>5
<1>. QED BY <1>2, <1>3

\* When nothing is misread, the listing has the sizes of the core.
LEMMA SameSizes ==
    ASSUME ListingInv, ~AtPrefix, ~Misread
    PROVE  dis386(task.code, 0, task.use32, task.use32)
             = DisBody(task.code, Len(task.prefix), Ops32, Addr32)
<1>. DEFINE n == Min({i \in 0 .. Len(task.code) - 0 - 1 :
                        InstructionTable(task.code[0 + i + 1]).op \notin DisPrefixes})
            C(ops) == {i \in 0 .. n - 1 : InstructionTable(task.code[0 + i + 1]).op \in ops}
            ops == Cardinality(C({"OP_SZ_OVERRIDE"})) % 2 = 1
            addrs == Cardinality(C({"ADDR_SZ_OVERRIDE", "SEGMENT_OVERRIDE"})) % 2 = 1
<1>1. dis386(task.code, 0, task.use32, task.use32)
        = DisBody(task.code, 0 + n, task.use32 # ops, task.use32 # addrs)
    BY Zenon DEF dis386
<1>2. task \in Tasks /\ task.use32 \in BOOLEAN
    BY TheLine, Zenon DEF ListingInv
<1>3. n = Len(task.prefix) /\ 0 + n = n
    <2>1. n = Len(task.prefix)
        BY <1>2, AllPassed
    <2>2. Len(task.prefix) \in Nat
        BY <1>2, TheLine, Zenon
    <2>. HIDE DEF n
    <2>. QED BY <2>1, <2>2
<1>. HIDE DEF n
<1>4. ASSUME NEW kinds PROVE C(kinds) = Counted(kinds)
    BY <1>3, Zenon DEF Counted
<1>. HIDE DEF C
<1>5. ops <=> There({"OP_SZ_OVERRIDE"})
    <2>1. ~(Count({"OP_SZ_OVERRIDE"}) > 1)
        BY Zenon DEF Misread
    <2>2. Cardinality(Counted({"OP_SZ_OVERRIDE"})) % 2 = 1 <=> There({"OP_SZ_OVERRIDE"})
        BY <1>2, <2>1, OddPrefixes
    <2>. QED BY <1>4, <2>2, Zenon
<1>6. addrs <=> There({"ADDR_SZ_OVERRIDE"})
    <2>1. ~(Count({"ADDR_SZ_OVERRIDE"}) > 1) /\ ~(Count({"SEGMENT_OVERRIDE"}) > 0)
        BY Zenon DEF Misread
    <2>2. Cardinality(Counted({"ADDR_SZ_OVERRIDE"})) % 2 = 1 <=> There({"ADDR_SZ_OVERRIDE"})
        BY <1>2, <2>1, OddPrefixes
    <2>3. \A i \in DOMAIN task.prefix : How(i) # "SEGMENT_OVERRIDE"
        <3>. DEFINE S == {i \in DOMAIN task.prefix : How(i) \in {"SEGMENT_OVERRIDE"}}
        <3>1. DOMAIN task.prefix = 1 .. Len(task.prefix) /\ Len(task.prefix) \in Nat
            BY <1>2, TheLine, Zenon
        <3>2. IsFiniteSet(1 .. Len(task.prefix)) /\ S \in SUBSET (1 .. Len(task.prefix))
            BY <3>1, FS_Interval
        <3>3. IsFiniteSet(S)
            BY <3>2, FS_Subset
        <3>4. Cardinality(S) \in Nat /\ ~(Cardinality(S) > 0)
            BY <2>1, <3>3, FS_CardinalityType DEF Count
        <3>5. Cardinality(S) = 0
            BY <3>4
        <3>6. S = {}
            BY <3>3, <3>5, FS_EmptySet
        <3>. QED BY <3>6
    <2>4. Counted({"ADDR_SZ_OVERRIDE", "SEGMENT_OVERRIDE"}) = Counted({"ADDR_SZ_OVERRIDE"})
        <3>1. /\ DOMAIN task.prefix = 1 .. Len(task.prefix) /\ Len(task.prefix) \in Nat
              /\ \A i \in 1 .. Len(task.prefix) : task.code[i] = task.prefix[i]
            BY <1>2, TheLine, Zenon
        <3>2. ASSUME NEW i \in 0 .. Len(task.prefix) - 1
              PROVE  InstructionTable(task.code[0 + i + 1]).op # "SEGMENT_OVERRIDE"
            <4>1. 0 + i + 1 = i + 1 /\ i + 1 \in 1 .. Len(task.prefix)
                BY <3>1
            <4>2. How(i + 1) # "SEGMENT_OVERRIDE"
                BY <2>3, <3>1, <4>1
            <4>. QED BY <3>1, <4>1, <4>2 DEF How
        <3>. QED BY <3>2 DEF Counted
    <2>. QED BY <1>4, <2>2, <2>4, Zenon
<1>7. /\ op_override \in {0, 1} /\ (op_override = 1 <=> ops)
      /\ addr_override \in {0, 1} /\ (addr_override = 1 <=> addrs)
    <2>1. /\ Met("OP_SZ_OVERRIDE") <=> There({"OP_SZ_OVERRIDE"})
          /\ Met("ADDR_SZ_OVERRIDE") <=> There({"ADDR_SZ_OVERRIDE"})
        BY AllMet DEF PrefixOps
    <2>. QED BY <1>5, <1>6, <2>1, Zenon DEF ListingInv
<1>. HIDE DEF ops, addrs
<1>8. ops \in BOOLEAN /\ addrs \in BOOLEAN
    BY DEF ops, addrs
<1>9. (task.use32 # ops) = Ops32
    <2>1. (task.use32 # ops) = ((IF task.use32 THEN 1 ELSE 0) # op_override)
        BY <1>2, <1>7, <1>8, Differ
    <2>. QED BY <2>1, Zenon DEF Ops32, Mode
<1>10. (task.use32 # addrs) = Addr32
    <2>1. (task.use32 # addrs) = ((IF task.use32 THEN 1 ELSE 0) # addr_override)
        BY <1>2, <1>7, <1>8, Differ
    <2>. QED BY <2>1, Zenon DEF Addr32, Mode
<1>. QED BY <1>1, <1>3, <1>9, <1>10, Zenon

\* The same row is listed at a place and decoded at it.
Same(at, i, j) ==
    /\ listed.line = Listed(at, i) /\ Decode(m) = Decoding(at, j)
    /\ \/ /\ at = Len(task.prefix) + 2 /\ InstructionTable(task.opcode).op = "EXTENDED"
          /\ i = ExtendedInstructionTable(task.modrm) /\ j = i
       \/ /\ at = Len(task.prefix) + 1 /\ InstructionTable(task.opcode).op # "EXTENDED"
          /\ i = InstructionTable(task.opcode)
          /\ j = i \/ \E op \in {"REPEZ", "REPNE"} : j = [i EXCEPT !.op = op]

LEMMA AsByte == ASSUME NEW e, Code(e) \in 0 .. 255 PROVE CodeByte(e) = Code(e)
BY DEF CodeByte

LEMMA Compared ==
    ASSUME ListingInv, listed.on, ~AtPrefix, ~Misread
    PROVE  \E at \in Nat : \E i, j : Same(at, i, j)
<1>. DEFINE n == Len(task.prefix)
            e == m.eip
            first == InstructionTable(task.opcode)
<1>1. /\ n \in Nat /\ n + 16 < W(4) /\ e \in 0 .. n /\ task.opcode \in 0 .. 255
      /\ Len(task.code) >= n + 4 /\ DOMAIN task.code = 1 .. Len(task.code) /\ Len(task.code) \in Nat
      /\ task.code[n + 1] = task.opcode /\ task.code[n + 2] = task.modrm
      /\ first.op = "EXTENDED" => task.modrm \in 0 .. 255
      /\ first.op \notin {"REPEZ", "REPNE"}
    <2>1. first.op \notin DisPrefixes
        BY TheLine, Zenon DEF ListingInv
    <2>. QED BY <2>1, TheLine, Zenon DEF ListingInv, DisPrefixes
<1>2. listed.line = DisBody(task.code, n, Ops32, Addr32)
    <2>1. listed.line = dis386(task.code, 0, task.use32, task.use32)
        BY DEF ListingInv, NoLine
    <2>. QED BY <2>1, SameSizes
<1>3. U32(n + 1) = n + 1 /\ U32(n + 2) = n + 2
    <2>1. W(4) \in Int
        BY ByteAssumption DEF W
    <2>. HIDE DEF n
    <2>2. n + 1 \in Nat /\ n + 2 \in Nat /\ n + 1 < W(4) /\ n + 2 < W(4)
        BY <1>1, <2>1
    <2>. QED BY <2>2, Uncut
<1>4. Decode(m) = DecodeAt(m, Opcode(InstructionTable(CodeByte(e)), e))
    BY Zenon DEF Decode
<1>5. CASE e = n
    <2>1. CodeByte(e) = task.opcode
        BY <1>5, ByteAt
    <2>2. CASE first.op = "EXTENDED"
        <3>1. CodeByte(n + 1) = task.modrm
            <4>. HIDE DEF n
            <4>1. (n + 1) + 1 \in DOMAIN task.code /\ (n + 1) + 1 = n + 2
                BY <1>1
            <4>2. Code(n + 1) = task.modrm /\ task.modrm \in 0 .. 255
                BY <1>1, <2>2, <4>1, CodeAt
            <4>. QED BY <4>2, AsByte
        <3>. DEFINE i == ExtendedInstructionTable(task.modrm)
        <3>2. Opcode(first, n) = [inst |-> i, eip |-> n + 2]
            BY <1>3, <2>2, <3>1, Zenon DEF Opcode
        <3>3. Decode(m) = Decoding(n + 2, i)
            BY <1>4, <1>5, <2>1, <3>2, Zenon DEF Decoding
        <3>4. listed.line = Listed(n + 2, i)
            BY <1>1, <1>2, <2>2, Zenon DEF DisBody, Listed
        <3>5. n + 2 \in Nat /\ Same(n + 2, i, i)
            BY <1>1, <2>2, <3>3, <3>4 DEF Same
        <3>. QED BY <3>5, Zenon
    <2>3. CASE first.op # "EXTENDED"
        <3>2. Opcode(first, n) = [inst |-> first, eip |-> n + 1]
            BY <1>1, <1>3, <2>3 DEF Opcode
        <3>3. Decode(m) = Decoding(n + 1, first)
            BY <1>4, <1>5, <2>1, <3>2, Zenon DEF Decoding
        <3>4. listed.line = Listed(n + 1, first)
            BY <1>1, <1>2, <2>3, Zenon DEF DisBody, Listed
        <3>5. n + 1 \in Nat /\ Same(n + 1, first, first)
            BY <1>1, <2>3, <3>3, <3>4 DEF Same
        <3>. QED BY <3>5, Zenon
    <2>. QED BY <2>2, <2>3
<1>6. CASE e # n
    <2>. DEFINE op == How(e + 1)
                j == [first EXCEPT !.op = op]
    <2>1. /\ e + 1 = n /\ op \in {"REPEZ", "REPNE"} /\ InstructionTable(CodeByte(e)).op = op
          /\ first.op # "EXTENDED"
        BY <1>6, AllMet
    <2>2. CodeByte(e + 1) = task.opcode /\ e + 2 = n + 1
        <3>. HIDE DEF n, e
        <3>1. n + 1 \in DOMAIN task.code
            BY <1>1
        <3>2. Code(n) = task.opcode /\ task.opcode \in 0 .. 255
            BY <1>1, <3>1, CodeAt
        <3>3. n \in Nat /\ e \in 0 .. n /\ e + 1 = n
            BY <1>1, <2>1
        <3>4. e + 1 = n /\ e + 2 = n + 1
            BY <3>3
        <3>. QED BY <3>2, <3>4, AsByte
    <2>3. Opcode(InstructionTable(CodeByte(e)), e) = [inst |-> j, eip |-> n + 1]
        <3>. HIDE DEF op, n, e
        <3>. QED BY <1>3, <2>1, <2>2 DEF Opcode
    <2>4. Decode(m) = Decoding(n + 1, j)
        BY <1>4, <2>3, Zenon DEF Decoding
    <2>5. listed.line = Listed(n + 1, first)
        BY <1>1, <1>2, <2>1, Zenon DEF DisBody, Listed
    <2>6. n + 1 \in Nat /\ Same(n + 1, first, j)
        BY <1>1, <2>1, <2>4, <2>5 DEF Same
    <2>. QED BY <2>6, Zenon
<1>. QED BY <1>5, <1>6

----------------------------------------------------------------------------
(* An instruction decoded *)

\* What the properties say of a line and of the instruction decoded for it.
Ends(l, d) == (l.end = d.next.eip) <=> ~Shorter(d)
Aims(l, d) == d.inst.src1.type = "IP_REL" => l.src1 = d.src1.id
Reads(l, d) ==
    ("MODRM" \in d.inst.flags => task.modrm \div 64 = 3) /\ ~Shorter(d) /\ task.opcode # \hC8
    /\ d.inst.src2.type \in {"IMM", "SIMM"} => l.src2 = d.src2.id
Agree(l, d) == Ends(l, d) /\ Aims(l, d) /\ Reads(l, d)

\* The rows with one number at most.
LEMMA OneNumberAgrees ==
    ASSUME NEW at \in Nat, NEW i, OneNumber(i), NEW j, Kept(j), SameOperands(i, j), GoesOn(at),
           "MODRM" \in i.flags => AddressAt(task.code, at), at + 10 < W(4),
           {"eip", "old_eip"} \subseteq DOMAIN m,
           task.opcode \notin {\hF6, \hF7} \/ i.src2.type # "IMM",
           \/ ("MODRM" \in i.flags => task.modrm \div 64 = 3) => Behind(at, i) = Address(at, i)
           \/ i.src2.type \notin {"IMM", "SIMM"}
    PROVE  Agree(Listed(at, i), Decoding(at, j))
<1>. DEFINE l == Listed(at, i)
            d == Decoding(at, j)
<1>1. /\ (l.end = d.next.eip) <=> ~(i.src1.type = "FAR_PTR" /\ RealSize(i.src1.size) = 4)
      /\ i.src1.type = "IP_REL" => l.src1 = d.src1.id
      /\ i.src2.type \in {"IMM", "SIMM"} /\ Behind(at, i) = Address(at, i) => l.src2 = d.src2.id
      /\ SameOperands(d.inst, i)
    BY LineAgrees
<1>. HIDE DEF l, d
<1>2. d.inst.src1 = i.src1 /\ d.inst.src2 = i.src2 /\ d.inst.flags = i.flags
    BY <1>1 DEF SameOperands
<1>3. Shorter(d) <=> i.src1.type = "FAR_PTR" /\ RealSize(i.src1.size) = 4
    BY <1>2 DEF Shorter
<1>4. Ends(l, d)
    BY <1>1, <1>3 DEF Ends
<1>5. Aims(l, d) /\ Reads(l, d)
    BY <1>1, <1>2 DEF Aims, Reads
<1>. QED BY <1>4, <1>5 DEF Agree, l, d

\* A repetition takes over the operation of a row.
LEMMA Repeated ==
    ASSUME NEW i, OneNumber(i), NEW op \in {"REPEZ", "REPNE"}
    PROVE  Kept([i EXCEPT !.op = op]) /\ SameOperands(i, [i EXCEPT !.op = op])
<1>. DEFINE j == [i EXCEPT !.op = op]
<1>1. i = Inst(i.op, i.sub, i.flags, i.dest, i.src1, i.src2)
    BY DEF OneNumber
<1>2. PICK k, s, f, a, b, c : i = Inst(k, s, f, a, b, c)
    BY <1>1
<1>3. j = Inst(op, s, f, a, b, c)
    BY <1>2 DEF Inst
<1>4. /\ i.flags = f /\ i.dest = a /\ i.src1 = b /\ i.src2 = c
      /\ j.flags = f /\ j.dest = a /\ j.src1 = b /\ j.src2 = c
      /\ j.op = op /\ j.sub = s
    BY <1>2, <1>3 DEF Inst
<1>. HIDE DEF j
<1>5. OneNumber(j)
    BY <1>3, <1>4 DEF OneNumber
<1>6. Kept(j) /\ SameOperands(i, j)
    BY <1>4, <1>5 DEF Kept, SameOperands
<1>. QED BY <1>6 DEF j

\* The rows of the table, each as it is and with a repetition.
LEMMA RowAgrees ==
    ASSUME NEW at \in Nat, NEW i, LineRow(i), NEW j,
           j = i \/ \E op \in {"REPEZ", "REPNE"} : j = [i EXCEPT !.op = op], GoesOn(at),
           "MODRM" \in i.flags => AddressAt(task.code, at), at + 10 < W(4),
           {"eip", "old_eip"} \subseteq DOMAIN m,
           task.opcode \notin {\hF6, \hF7},
           \/ ("MODRM" \in i.flags => task.modrm \div 64 = 3) => Behind(at, i) = Address(at, i)
           \/ i.src2.type \notin {"IMM", "SIMM"}
    PROVE  Agree(Listed(at, i), Decoding(at, j))
<1>1. Kept(i) /\ OneNumber(i) /\ SameOperands(i, i)
    BY DEF LineRow, Kept, SameOperands
<1>2. Kept(j) /\ SameOperands(i, j)
    <2>1. ASSUME NEW op \in {"REPEZ", "REPNE"}, j = [i EXCEPT !.op = op]
          PROVE  Kept(j) /\ SameOperands(i, j)
        BY <1>1, <2>1, Repeated, Zenon
    <2>. QED BY <1>1, <2>1, Zenon
<1>. QED BY <1>1, <1>2, OneNumberAgrees

\* 0xF6 and 0xF7.
LEMMA MultiRowAgrees ==
    ASSUME NEW at \in Nat, NEW z \in {1, SZ_1632}, NEW j,
           j = Multi(z) \/ \E op \in {"REPEZ", "REPNE"} : j = [Multi(z) EXCEPT !.op = op],
           GoesOn(at), AddressAt(task.code, at), at + 10 < W(4),
           {"eip", "old_eip"} \subseteq DOMAIN m, task.opcode \in {\hF6, \hF7}
    PROVE  Agree(Listed(at, Multi(z)), Decoding(at, j))
<1>. DEFINE i == Multi(z)
            l == Listed(at, i)
            d == Decoding(at, j)
<1>1. CASE j = i
    <2>1. /\ (l.end = d.next.eip) <=> d.inst.src2.type # "IMM"
          /\ d.inst.op = "ALU_SPECIAL" /\ Quiet(d.inst.src1) /\ d.inst.src2.type # "SIMM"
        BY <1>1, MultiAgrees
    <2>. HIDE DEF l, d
    <2>2. d.inst.src1.type \notin {"FAR_PTR", "IP_REL"}
        BY <2>1 DEF Quiet, Coded
    <2>3. Shorter(d) <=> d.inst.src2.type = "IMM"
        BY <2>1, <2>2 DEF Shorter
    <2>. QED BY <2>1, <2>2, <2>3 DEF Agree, Ends, Aims, Reads, l, d
<1>2. CASE j # i
    <2>1. /\ i.dest = None /\ i.src1 = RM(z) /\ i.src2 = None
          /\ i = Inst(i.op, i.sub, i.flags, i.dest, i.src1, i.src2)
        BY DEF Multi, Inst
    <2>. HIDE DEF i
    <2>2. OneNumber(i) /\ i.src2.type \notin {"IMM", "SIMM"}
        <3>1. None.type \notin {"IMM", "SIMM"}
            BY DEF None, Operand
        <3>. QED BY <2>1, <3>1, QuietOnes DEF OneNumber
    <2>3. Kept(j) /\ SameOperands(i, j)
        <3>1. PICK op \in {"REPEZ", "REPNE"} : j = [i EXCEPT !.op = op]
            BY <1>2, Zenon DEF i
        <3>. QED BY <2>2, <3>1, Repeated, Zenon
    <2>4. Agree(Listed(at, i), Decoding(at, j))
        BY <2>2, <2>3, OneNumberAgrees
    <2>. QED BY <2>4 DEF i
<1>. QED BY <1>1, <1>2

\* ENTER.
LEMMA EnterRepeated ==
    ASSUME NEW i, i = Inst("ENTER", 0, {}, None, Imm(2), Imm(1)), NEW j,
           j = i \/ \E op \in {"REPEZ", "REPNE"} : j = [i EXCEPT !.op = op]
    PROVE  /\ SameOperands(i, j) /\ j.src1 = Imm(2)
           /\ j.op \notin {"ALU_SPECIAL", "MULTIPLEXED_FF"}
<1>1. ASSUME NEW op \in {"REPEZ", "REPNE"}, j = [i EXCEPT !.op = op]
      PROVE  j = Inst(op, 0, {}, None, Imm(2), Imm(1))
    BY <1>1 DEF Inst
<1>2. \E op \in {"ENTER", "REPEZ", "REPNE"} : j = Inst(op, 0, {}, None, Imm(2), Imm(1))
    BY <1>1
<1>. QED BY <1>2 DEF SameOperands, Inst

LEMMA EnterRowAgrees ==
    ASSUME NEW at \in Nat, NEW i, i = Inst("ENTER", 0, {}, None, Imm(2), Imm(1)), NEW j,
           j = i \/ \E op \in {"REPEZ", "REPNE"} : j = [i EXCEPT !.op = op],
           GoesOn(at), at + 10 < W(4), {"eip", "old_eip"} \subseteq DOMAIN m, task.opcode = \hC8
    PROVE  Agree(Listed(at, i), Decoding(at, j))
<1>. DEFINE l == Listed(at, i)
            d == Decoding(at, j)
<1>1. /\ SameOperands(i, j) /\ j.src1 = Imm(2)
      /\ j.op \notin {"ALU_SPECIAL", "MULTIPLEXED_FF"}
    BY EnterRepeated
<1>2. l.end = at + 3 /\ d.next.eip = at + 3 /\ d.inst = j
    BY <1>1, EnterAgrees
<1>. HIDE DEF l, d
<1>3. d.inst.src1.type = "IMM"
    BY <1>1, <1>2 DEF Imm, Operand
<1>4. ~Shorter(d)
    BY <1>3 DEF Shorter
<1>. QED BY <1>2, <1>3, <1>4 DEF Agree, Ends, Aims, Reads, l, d

LEMMA MachineFields == ASSUME NEW e PROVE {"eip", "old_eip"} \subseteq DOMAIN Machine(e)
BY DEF Machine

\* The instructions behind 0Fh have no number.
LEMMA ExtendedShows ==
    ASSUME NEW byte PROVE ExtendedInstructionTable(byte).src2.type \notin {"IMM", "SIMM"}
<1>1. RM(SZ_1632).type \notin {"IMM", "SIMM"} /\ None.type \notin {"IMM", "SIMM"}
    BY DEF RM, None, Operand
<1>2. /\ ModRM("ALU_SPECIAL", 5, Reg(SZ_1632), Reg(SZ_1632), RM(SZ_1632)).src2 = RM(SZ_1632)
      /\ Invalid.src2 = None
    BY DEF ModRM, Inst, Invalid, Plain
<1>. QED BY <1>1, <1>2 DEF ExtendedInstructionTable

\* What both programs make of the instruction, when nothing is misread.
LEMMA FetchAgrees ==
    ASSUME ListingInv, listed.on, ~AtPrefix, ~Misread
    PROVE  Agree(listed.line, Decode(m))
<1>. DEFINE n == Len(task.prefix)
            first == InstructionTable(task.opcode)
<1>1. PICK at \in Nat : \E i, j : Same(at, i, j)
    BY Compared
<1>2. PICK i, j : Same(at, i, j)
    BY <1>1
<1>3. /\ n \in Nat /\ n + 16 < W(4) /\ task.opcode \in 0 .. 255
      /\ Len(task.code) >= n + 4 /\ DOMAIN task.code = 1 .. Len(task.code) /\ Len(task.code) \in Nat
      /\ task.code[n + 2] = task.modrm
      /\ "MODRM" \in first.flags => AddressAt(task.code, n + 1)
      /\ first.op = "EXTENDED" => task.modrm \in 0 .. 255 /\ AddressAt(task.code, n + 2)
    BY TheLine, Zenon DEF ListingInv
<1>4. {"eip", "old_eip"} \subseteq DOMAIN m
    BY Zenon, MachineFields DEF ListingInv
<1>5. at \in {n + 1, n + 2}
    BY <1>2 DEF Same
<1>. HIDE DEF n, first
<1>6. GoesOn(at) /\ at + 10 < W(4)
    <2>1. W(4) \in Int
        BY ByteAssumption DEF W
    <2>. QED BY <1>3, <1>5, <2>1 DEF GoesOn
<1>7. CASE first.op = "EXTENDED"
    <2>1. at = n + 2 /\ i = ExtendedInstructionTable(task.modrm) /\ j = i
        BY <1>2, <1>7 DEF Same, n, first
    <2>2. LineRow(i) /\ i.src2.type \notin {"IMM", "SIMM"}
        BY <2>1, ExtendedLine, ExtendedShows
    <2>3. AddressAt(task.code, at)
        BY <1>3, <1>7, <2>1
    <2>4. task.opcode \notin {\hF6, \hF7}
        <3>1. Multi(1).op # "EXTENDED" /\ Multi(SZ_1632).op # "EXTENDED"
            BY DEF Multi, Inst
        <3>. QED BY <1>7, <3>1, OtherRows DEF first
    <2>5. Agree(Listed(at, i), Decoding(at, j))
        BY <1>4, <1>6, <2>1, <2>2, <2>3, <2>4, RowAgrees
    <2>. QED BY <1>2, <2>5 DEF Same
<1>8. CASE first.op # "EXTENDED"
    <2>1. /\ at = n + 1 /\ i = first
          /\ j = i \/ \E op \in {"REPEZ", "REPNE"} : j = [i EXCEPT !.op = op]
        BY <1>2, <1>8 DEF Same, n, first
    <2>2. "MODRM" \in i.flags => AddressAt(task.code, at)
        BY <1>3, <2>1
    <2>3. CASE task.opcode \in {\hF6, \hF7}
        <3>1. PICK z \in {1, SZ_1632} : i = Multi(z)
            BY <2>1, <2>3, OtherRows DEF first
        <3>2. AddressAt(task.code, at)
            BY <2>2, <3>1 DEF Multi, Inst
        <3>3. Agree(Listed(at, Multi(z)), Decoding(at, j))
            <4>1. j = Multi(z) \/ \E op \in {"REPEZ", "REPNE"} : j = [Multi(z) EXCEPT !.op = op]
                BY <2>1, <3>1, Zenon
            <4>. QED BY <1>4, <1>6, <2>3, <3>2, <4>1, MultiRowAgrees
        <3>. QED BY <1>2, <3>1, <3>3 DEF Same
    <2>4. CASE task.opcode = \hC8
        <3>1. i = Inst("ENTER", 0, {}, None, Imm(2), Imm(1))
            BY <2>1, <2>4, OtherRows DEF first
        <3>2. Agree(Listed(at, i), Decoding(at, j))
            BY <1>4, <1>6, <2>1, <2>4, <3>1, EnterRowAgrees
        <3>. QED BY <1>2, <3>2 DEF Same
    <2>5. CASE task.opcode \notin {\hC8, \hF6, \hF7}
        <3>1. LineRow(i)
            BY <1>3, <2>1, <2>5, TableLine DEF first
        <3>2. ("MODRM" \in i.flags => task.modrm \div 64 = 3) => Behind(at, i) = Address(at, i)
            <4>1. ASSUME "MODRM" \in i.flags, task.modrm \div 64 = 3 PROVE AddressBytes(at) = 0
                <5>1. task.code[at + 1] = task.modrm
                    BY <1>3, <2>1
                <5>. QED BY <4>1, <5>1 DEF AddressBytes, rm16, rm32
            <4>. QED BY <4>1 DEF Behind, Address
        <3>3. Agree(Listed(at, i), Decoding(at, j))
            BY <1>4, <1>6, <2>1, <2>2, <2>5, <3>1, <3>2, RowAgrees
        <3>. QED BY <1>2, <3>3 DEF Same
    <2>. QED BY <2>3, <2>4, <2>5
<1>. QED BY <1>7, <1>8

\* The bytes that the core takes for a row of the table.
LEMMA RowFits ==
    ASSUME NEW at \in Nat, NEW byte \in 0 .. 255, NEW i, i = InstructionTable(byte), NEW j,
           j = i \/ \E op \in {"REPEZ", "REPNE"} : j = [i EXCEPT !.op = op],
           GoesOn(at), "MODRM" \in i.flags => AddressAt(task.code, at), at + 10 < W(4),
           {"eip", "old_eip"} \subseteq DOMAIN m
    PROVE  Decoding(at, j).next.old_eip \in at .. at + 10
<1>0. ASSUME OneNumber(i), NEW op \in {"REPEZ", "REPNE"}, j = [i EXCEPT !.op = op]
      PROVE  Decoding(at, j).next.old_eip \in at .. at + 10
    <2>1. Kept(j) /\ SameOperands(i, j)
        BY <1>0, Repeated, Zenon
    <2>. QED BY <1>0, <2>1, LineAgrees
<1>1. CASE byte \notin {\hC8, \hF6, \hF7}
    <2>1. LineRow(i)
        BY <1>1, TableLine
    <2>2. CASE j = i
        <3>1. OneNumber(i) /\ Kept(j) /\ SameOperands(i, j)
            BY <2>1, <2>2 DEF LineRow, Kept, SameOperands
        <3>. QED BY <3>1, LineAgrees
    <2>. QED BY <1>0, <2>1, <2>2 DEF LineRow
<1>2. CASE byte = \hC8
    <2>1. i = Inst("ENTER", 0, {}, None, Imm(2), Imm(1))
        BY <1>2, OtherRows
    <2>2. SameOperands(i, j) /\ j.op \notin {"ALU_SPECIAL", "MULTIPLEXED_FF"}
        BY <2>1, EnterRepeated
    <2>3. Decoding(at, j).next.old_eip = at + 3
        BY <2>1, <2>2, EnterAgrees
    <2>. QED BY <2>3
<1>3. CASE byte \in {\hF6, \hF7}
    <2>1. PICK z \in {1, SZ_1632} : i = Multi(z)
        BY <1>3, OtherRows
    <2>2. /\ i.dest = None /\ i.src1 = RM(z) /\ i.src2 = None /\ "MODRM" \in i.flags
          /\ i = Inst(i.op, i.sub, i.flags, i.dest, i.src1, i.src2)
        BY <2>1 DEF Multi, Inst
    <2>3. CASE j = i
        <3>1. /\ Decoding(at, Multi(z)).next.eip \in at .. at + 10
              /\ Decoding(at, Multi(z)).next.old_eip = Decoding(at, Multi(z)).next.eip
            BY <2>2, MultiAgrees
        <3>. QED BY <2>1, <2>3, <3>1
    <2>4. OneNumber(i)
        BY <2>2, QuietOnes DEF OneNumber
    <2>. QED BY <1>0, <2>3, <2>4
<1>. QED BY <1>1, <1>2, <1>3

\* The prefixes the core has passed are of different kinds, four at most.
LEMMA FourKinds ==
    ASSUME NEW e \in Nat, \A i \in 1 .. e : How(i) \in PrefixOps,
           \A i, j \in 1 .. e : How(i) = How(j) => i = j
    PROVE  e <= 4
<1>. SUFFICES ASSUME e >= 5 PROVE FALSE
    OBVIOUS
<1>1. {1, 2, 3, 4, 5} \subseteq 1 .. e
    OBVIOUS
<1>2. {How(1), How(2), How(3), How(4), How(5)} \subseteq PrefixOps
    BY <1>1
<1>3. /\ How(1) # How(2) /\ How(1) # How(3) /\ How(1) # How(4) /\ How(1) # How(5)
      /\ How(2) # How(3) /\ How(2) # How(4) /\ How(2) # How(5)
      /\ How(3) # How(4) /\ How(3) # How(5) /\ How(4) # How(5)
    BY <1>1
<1>. QED BY <1>2, <1>3 DEF PrefixOps

LEMMA FetchFits ==
    ASSUME ListingInv, ~AtPrefix, \A i, j \in DOMAIN task.prefix : How(i) = How(j) => i = j
    PROVE  Decode(m).next.old_eip <= 16
<1>. DEFINE n == Len(task.prefix)
            e == m.eip
            first == InstructionTable(task.opcode)
            row == InstructionTable(CodeByte(e))
<1>1. /\ n \in Nat /\ n + 16 < W(4) /\ e \in 0 .. n /\ task.opcode \in 0 .. 255
      /\ DOMAIN task.prefix = 1 .. n
      /\ Len(task.code) >= n + 4 /\ DOMAIN task.code = 1 .. Len(task.code) /\ Len(task.code) \in Nat
      /\ task.code[n + 1] = task.opcode /\ task.code[n + 2] = task.modrm
      /\ \A i \in 1 .. n : How(i) \in DisPrefixes /\ task.prefix[i] \in 0 .. 255 /\ task.code[i] = task.prefix[i]
      /\ first.op \notin DisPrefixes
      /\ "MODRM" \in first.flags => AddressAt(task.code, n + 1)
      /\ first.op = "EXTENDED" => task.modrm \in 0 .. 255 /\ AddressAt(task.code, n + 2)
    BY TheLine, Zenon DEF ListingInv
<1>2. e <= 4
    <2>1. \A i \in 1 .. e : How(i) \in PrefixOps
        BY DEF ListingInv
    <2>2. e \in Nat /\ \A i \in 1 .. e : i \in DOMAIN task.prefix
        BY <1>1
    <2>3. \A i, j \in 1 .. e : How(i) = How(j) => i = j
        BY <2>2
    <2>. QED BY <2>1, <2>2, <2>3, FourKinds
<1>3. {"eip", "old_eip"} \subseteq DOMAIN m
    BY Zenon, MachineFields DEF ListingInv
<1>4. Decode(m) = DecodeAt(m, Opcode(row, e))
    BY Zenon DEF Decode
<1>5. ASSUME NEW at \in {e + 1, e + 2}, NEW j, Opcode(row, e) = [inst |-> j, eip |-> at],
             Decoding(at, j).next.old_eip \in at .. at + 10
      PROVE  Decode(m).next.old_eip <= 16
    <2>1. Decode(m).next.old_eip \in at .. at + 10
        BY <1>4, <1>5, Zenon DEF Decoding
    <2>. HIDE DEF e
    <2>. QED BY <1>1, <1>2, <2>1
<1>6. /\ U32(e + 1) = e + 1 /\ U32(e + 2) = e + 2
      /\ \A at \in {e + 1, e + 2} : at \in Nat /\ at + 10 < W(4)
    <2>1. W(4) \in Int
        BY ByteAssumption DEF W
    <2>. HIDE DEF n, e
    <2>2. /\ e + 1 \in Nat /\ e + 2 \in Nat /\ e + 1 < W(4) /\ e + 2 < W(4)
          /\ e + 1 + 10 < W(4) /\ e + 2 + 10 < W(4)
        BY <1>1, <2>1
    <2>. QED BY <2>2, Uncut
<1>7. CASE e = n /\ first.op = "EXTENDED"
    <2>. DEFINE i == ExtendedInstructionTable(task.modrm)
    <2>1. row = first
        BY <1>7, ByteAt
    <2>2. CodeByte(e + 1) = task.modrm
        <3>. HIDE DEF n, e
        <3>1. (e + 1) + 1 \in DOMAIN task.code /\ (e + 1) + 1 = n + 2
            BY <1>1, <1>7
        <3>2. Code(e + 1) = task.modrm /\ task.modrm \in 0 .. 255
            BY <1>1, <1>7, <3>1, CodeAt
        <3>. QED BY <3>2, AsByte
    <2>3. Opcode(row, e) = [inst |-> i, eip |-> e + 2]
        BY <1>6, <1>7, <2>1, <2>2, Zenon DEF Opcode
    <2>4. GoesOn(e + 2)
        <3>. HIDE DEF n, e
        <3>. QED BY <1>1, <1>7 DEF GoesOn
    <2>5. OneNumber(i) /\ Kept(i) /\ SameOperands(i, i)
        BY ExtendedLine DEF LineRow, Kept, SameOperands
    <2>6. Decoding(e + 2, i).next.old_eip \in e + 2 .. e + 2 + 10
        <3>1. AddressAt(task.code, e + 2)
            BY <1>1, <1>7
        <3>. HIDE DEF n, e, i
        <3>. QED BY <1>3, <1>6, <2>4, <2>5, <3>1, LineAgrees
    <2>. QED BY <1>5, <2>3, <2>6
<1>8. CASE e = n /\ first.op # "EXTENDED"
    <2>1. row = first
        BY <1>8, ByteAt
    <2>2. first.op \notin {"REPEZ", "REPNE"}
        BY <1>1 DEF DisPrefixes
    <2>3. Opcode(row, e) = [inst |-> first, eip |-> e + 1]
        BY <1>6, <1>8, <2>1, <2>2 DEF Opcode
    <2>4. GoesOn(e + 1)
        <3>. HIDE DEF n, e
        <3>. QED BY <1>1, <1>8 DEF GoesOn
    <2>5. Decoding(e + 1, first).next.old_eip \in e + 1 .. e + 1 + 10
        <3>1. "MODRM" \in first.flags => AddressAt(task.code, e + 1)
            BY <1>1, <1>8
        <3>2. first = InstructionTable(task.opcode)
            OBVIOUS
        <3>. HIDE DEF n, e, first
        <3>. QED BY <1>1, <1>3, <1>6, <2>4, <3>1, <3>2, RowFits
    <2>. QED BY <1>5, <2>3, <2>5
<1>9. CASE e # n
    <2>. DEFINE op == How(e + 1)
                byte == CodeByte(e + 1)
                i == InstructionTable(byte)
                j == [i EXCEPT !.op = op]
    <2>1. e < n /\ op \in {"REPEZ", "REPNE"} /\ row.op = op
        BY <1>9, AtOpcode
    <2>2. Opcode(row, e) = [inst |-> j, eip |-> e + 2]
        <3>. HIDE DEF op, e
        <3>. QED BY <1>6, <2>1 DEF Opcode
    <2>3. GoesOn(e + 2)
        <3>. HIDE DEF n, e
        <3>. QED BY <1>1, <2>1 DEF GoesOn
    <2>4. byte \in 0 .. 255 /\ ("MODRM" \in i.flags => AddressAt(task.code, e + 2))
        <3>1. CASE e + 1 = n
            <4>1. Code(n) = task.opcode
                <5>. HIDE DEF n
                <5>1. n + 1 \in DOMAIN task.code
                    BY <1>1
                <5>. QED BY <1>1, <5>1, CodeAt
            <4>2. byte = task.opcode
                BY <1>1, <3>1, <4>1, AsByte
            <4>3. e + 2 = n + 1
                <5>. HIDE DEF n, e
                <5>. QED BY <1>1, <3>1
            <4>. QED BY <1>1, <4>2, <4>3
        <3>2. CASE e + 1 # n
            <4>1. e + 2 \in 1 .. n /\ (e + 1) + 1 = e + 2 /\ e + 2 \in DOMAIN task.code
                <5>. HIDE DEF n, e
                <5>. QED BY <1>1, <2>1, <3>2
            <4>2. Code(e + 1) = task.prefix[e + 2] /\ task.prefix[e + 2] \in 0 .. 255
                BY <1>1, <4>1, CodeAt
            <4>3. byte = task.prefix[e + 2] /\ byte \in 0 .. 255
                BY <4>2, AsByte
            <4>4. i.op \in DisPrefixes
                BY <1>1, <4>1, <4>3 DEF How
            <4>5. byte \notin {\hC8, \hF6, \hF7}
                <5>1. InstructionTable(\hC8).op = "ENTER"
                    BY OtherRows DEF Inst
                <5>2. Multi(1).op = "ALU_SPECIAL" /\ Multi(SZ_1632).op = "ALU_SPECIAL"
                    BY DEF Multi, Inst
                <5>. QED BY <4>4, <5>1, <5>2, OtherRows DEF DisPrefixes
            <4>6. "MODRM" \notin i.flags
                BY <4>3, <4>4, <4>5, TableLine DEF LineRow
            <4>. QED BY <4>3, <4>6
        <3>. QED BY <3>1, <3>2
    <2>5. Decoding(e + 2, j).next.old_eip \in e + 2 .. e + 2 + 10
        <3>1. i = InstructionTable(byte)
            OBVIOUS
        <3>2. \E k \in {"REPEZ", "REPNE"} : j = [i EXCEPT !.op = k]
            BY <2>1, Zenon
        <3>. HIDE DEF n, e, i, j, byte
        <3>. QED BY <1>3, <1>6, <2>3, <2>4, <3>1, <3>2, RowFits
    <2>. QED BY <1>5, <2>2, <2>5
<1>. QED BY <1>7, <1>8, <1>9

----------------------------------------------------------------------------
(* The specification *)

\* What was said of an instruction, once it is decoded.
FetchedInv ==
    fetched.on =>
      /\ ~Misread => Agree(listed.line, fetched.d)
      /\ (\A i, j \in DOMAIN task.prefix : How(i) = How(j) => i = j) => fetched.d.next.old_eip <= 16

LEMMA ListingStart == Init => ListingInv /\ FetchedInv
<1>. SUFFICES ASSUME Init PROVE ListingInv /\ FetchedInv
    OBVIOUS
<1>1. task \in Tasks /\ Len(task.prefix) \in Nat
    BY TheLine, Zenon DEF Init
<1>2. m = Machine(0) /\ m.eip = 0
    BY DEF Init, Machine
<1>3. 0 \in 0 .. Len(task.prefix) /\ \A i \in 1 .. 0 : FALSE
    BY <1>1
<1>4. /\ op_override = 0 /\ addr_override = 0 /\ sgmt_override = DS /\ overriding_sgmt = 0
      /\ frames = {} /\ rep = NoRep /\ listed = NoLine /\ fetched = NoInstruction
    BY DEF Init, NoOverride
<1>5. DS \in 0 .. 5
    BY DEF DS
<1>6. ~fetched.on /\ \A op : ~Met(op)
    BY <1>2, <1>3, <1>4 DEF NoInstruction, Met
<1>. QED BY <1>1, <1>2, <1>3, <1>4, <1>5, <1>6 DEF ListingInv, FetchedInv

\* Listing leaves the instruction to be decoded.
LEMMA ListKeeps == ListingInv /\ FetchedInv /\ List => ListingInv' /\ FetchedInv'
<1>. SUFFICES ASSUME ListingInv, FetchedInv, List PROVE ListingInv' /\ FetchedInv'
    OBVIOUS
<1>1. /\ ~listed.on /\ UNCHANGED <<task, m, op_override, addr_override, sgmt_override, overriding_sgmt, frames, rep, fetched>>
      /\ listed' = [on |-> TRUE, line |-> dis386(task.code, m.eip, task.use32, task.use32)]
    BY DEF List, vars, over
<1>2. listed = NoLine /\ m.eip = 0
    BY <1>1 DEF ListingInv
<1>3. ~fetched.on
    BY <1>1 DEF ListingInv
<1>4. listed' = [on |-> TRUE, line |-> dis386(task'.code, 0, task'.use32, task'.use32)] /\ listed'.on
    BY <1>1, <1>2
<1>5. ASSUME NEW i PROVE How(i)' = How(i)
    BY <1>1 DEF How
<1>6. ASSUME NEW op PROVE Met(op)' <=> Met(op)
    BY <1>1, <1>5 DEF Met
<1>7. ListingInv'
    BY <1>1, <1>4, <1>5, <1>6 DEF ListingInv
<1>8. FetchedInv'
    BY <1>1, <1>3 DEF FetchedInv
<1>. QED BY <1>7, <1>8

\* A prefix is passed.
LEMMA PrefixKeeps == ListingInv /\ FetchedInv /\ StepPrefix => ListingInv' /\ FetchedInv'
<1>. SUFFICES ASSUME ListingInv, FetchedInv, StepPrefix PROVE ListingInv' /\ FetchedInv'
    OBVIOUS
<1>. DEFINE p == InstructionTable(CodeByte(m.eip))
            e == m.eip
<1>1. /\ listed.on /\ ~fetched.on /\ UNCHANGED <<task, rep, listed, fetched>>
      /\ p.op \in PrefixOps
      /\ op_override' = IF p.op = "OP_SZ_OVERRIDE" THEN 1 ELSE op_override
      /\ addr_override' = IF p.op = "ADDR_SZ_OVERRIDE" THEN 1 ELSE addr_override
      /\ sgmt_override' = IF p.op = "SEGMENT_OVERRIDE" THEN p.sub ELSE sgmt_override
      /\ overriding_sgmt' = IF p.op = "SEGMENT_OVERRIDE" THEN 1 ELSE overriding_sgmt
      /\ frames' = frames \cup {p.op}
      /\ m' = [m EXCEPT !.eip = U32(m.eip + 1)]
    BY DEF StepPrefix, Prefix
<1>2. /\ e + 1 \in 1 .. Len(task.prefix) /\ U32(e + 1) = e + 1
      /\ p.op = How(e + 1) /\ CodeByte(e) \in 0 .. 255
    BY <1>1, AtAPrefix DEF AtPrefix
<1>3. e \in 0 .. Len(task.prefix) /\ m = Machine(e)
    BY DEF ListingInv
<1>4. m' = Machine(e + 1) /\ m'.eip = e + 1
    <2>1. ASSUME NEW f, NEW k PROVE [Machine(k) EXCEPT !.eip = f] = Machine(f) /\ Machine(f).eip = f
        <3>. DEFINE r == [i \in 0 .. 7 |-> 0]
                    sg == [sr \in 0 .. 7 |-> [selector |-> 0, base |-> 0]]
                    mm == [a \in 0 .. MemSize - 1 |-> 0]
                    none == {}
                    blank == <<>>
                    runs == "runs"
                    M(x) == [regs |-> r, flags |-> none, eip |-> x, old_eip |-> 0, segs |-> sg,
                             mem |-> mm, screen |-> blank, status |-> runs]
        <3>1. Machine(k) = M(k) /\ Machine(f) = M(f)
            BY Zenon DEF Machine
        <3>. HIDE DEF r, sg, mm, none, blank, runs
        <3>2. [M(k) EXCEPT !.eip = f] = M(f) /\ M(f).eip = f
            OBVIOUS
        <3>. HIDE DEF M
        <3>. QED BY <3>1, <3>2
    <2>. HIDE DEF e, p
    <2>2. m' = [Machine(e) EXCEPT !.eip = e + 1]
        BY <1>1, <1>2, <1>3 DEF e
    <2>3. m' = Machine(e + 1)
        BY <2>1, <2>2, Zenon
    <2>4. Machine(e + 1).eip = e + 1
        BY <2>1
    <2>. QED BY <2>3, <2>4
<1>5. p.op = "SEGMENT_OVERRIDE" => p.sub \in 0 .. 5
    <2>1. RowOK(p)
        BY <1>2, TableOK
    <2>. QED BY <2>1 DEF RowOK, RowShape
<1>6. ASSUME NEW i PROVE How(i)' = How(i)
    BY <1>1 DEF How
<1>. HIDE DEF e, p
<1>7. \A i : i \in 1 .. e + 1 <=> i \in 1 .. e \/ i = e + 1
    BY <1>3
<1>8. ASSUME NEW op PROVE Met(op)' <=> Met(op) \/ p.op = op
    <2>1. Met(op)' <=> \E i \in 1 .. e + 1 : How(i) = op
        BY <1>4, <1>6 DEF Met
    <2>2. Met(op) <=> \E i \in 1 .. e : How(i) = op
        BY DEF Met, e
    <2>. QED BY <1>2, <1>7, <2>1, <2>2
<1>9. \A i \in 1 .. e + 1 : How(i)' \in PrefixOps
    <2>1. \A i \in 1 .. e : How(i) \in PrefixOps
        BY DEF ListingInv, e
    <2>. QED BY <1>1, <1>2, <1>6, <1>7, <2>1
<1>10. listed = [on |-> TRUE, line |-> dis386(task.code, 0, task.use32, task.use32)]
    BY <1>1 DEF ListingInv, NoLine
<1>11. /\ op_override' \in {0, 1} /\ (op_override' = 1 <=> Met("OP_SZ_OVERRIDE")')
       /\ addr_override' \in {0, 1} /\ (addr_override' = 1 <=> Met("ADDR_SZ_OVERRIDE")')
       /\ overriding_sgmt' \in {0, 1} /\ sgmt_override' \in 0 .. 5 /\ frames' \subseteq PrefixOps
    <2>1. op_override' \in {0, 1} /\ (op_override' = 1 <=> Met("OP_SZ_OVERRIDE")')
        BY <1>1, <1>8 DEF ListingInv
    <2>2. addr_override' \in {0, 1} /\ (addr_override' = 1 <=> Met("ADDR_SZ_OVERRIDE")')
        BY <1>1, <1>8 DEF ListingInv
    <2>. QED BY <1>1, <1>5, <2>1, <2>2 DEF ListingInv
<1>12. ListingInv'
    <2>1. task' \in Tasks /\ m'.eip \in 0 .. Len(task'.prefix) /\ m' = Machine(m'.eip) /\ rep' = NoRep
        <3>1. task \in Tasks /\ rep = NoRep /\ Len(task.prefix) \in Nat
            BY TheLine, Zenon DEF ListingInv
        <3>. QED BY <1>1, <1>2, <1>3, <1>4, <3>1
    <2>2. \A i \in 1 .. m'.eip : How(i)' \in PrefixOps
        BY <1>4, <1>9
    <2>3. listed' = [on |-> TRUE, line |-> dis386(task'.code, 0, task'.use32, task'.use32)]
          /\ (fetched'.on => listed'.on)
        BY <1>1, <1>10
    <2>. QED BY <1>11, <2>1, <2>2, <2>3 DEF ListingInv
<1>13. FetchedInv'
    BY <1>1 DEF FetchedInv
<1>. QED BY <1>12, <1>13

\* Nothing that the listing is compared with changes any more.
LEMMA StillListed ==
    ASSUME UNCHANGED <<task, m, op_override, addr_override, sgmt_override, overriding_sgmt, frames, rep, listed>>,
           ListingInv, fetched'.on => listed.on
    PROVE  /\ ListingInv' /\ (Misread' <=> Misread)
           /\ \A i : How(i)' = How(i)
           /\ \A size : RealSize(size)' = RealSize(size)
<1>1. ASSUME NEW i PROVE How(i)' = How(i)
    BY DEF How
<1>2. ASSUME NEW op PROVE Met(op)' <=> Met(op)
    BY <1>1 DEF Met
<1>3. ListingInv'
    BY <1>1, <1>2 DEF ListingInv
<1>4. ASSUME NEW ops PROVE Count(ops)' = Count(ops)
    BY <1>1 DEF Count
<1>5. Misread' <=> Misread
    BY <1>1, <1>4 DEF Misread
<1>6. ASSUME NEW size PROVE RealSize(size)' = RealSize(size)
    BY DEF RealSize, Ops32, Mode
<1>. QED BY <1>1, <1>3, <1>5, <1>6

LEMMA FetchKeeps == ListingInv /\ FetchedInv /\ Fetch => ListingInv' /\ FetchedInv'
<1>. SUFFICES ASSUME ListingInv, FetchedInv, Fetch PROVE ListingInv' /\ FetchedInv'
    OBVIOUS
<1>1. /\ listed.on /\ ~fetched.on /\ ~AtPrefix /\ fetched' = [on |-> TRUE, d |-> Decode(m)]
      /\ UNCHANGED <<task, m, op_override, addr_override, sgmt_override, overriding_sgmt, frames, rep, listed>>
    BY DEF Fetch, vars, over
<1>2. ListingInv' /\ (Misread' <=> Misread) /\ \A i : How(i)' = How(i)
    BY <1>1, StillListed
<1>3. ~Misread => Agree(listed.line, Decode(m))
    BY <1>1, FetchAgrees
<1>4. (\A i, j \in DOMAIN task.prefix : How(i) = How(j) => i = j) => Decode(m).next.old_eip <= 16
    BY <1>1, FetchFits
<1>5. Agree(listed.line, fetched.d)' <=> Agree(listed.line, Decode(m))
    <2>. DEFINE d == Decode(m)
    <2>1. fetched'.d = d
        BY <1>1
    <2>. HIDE DEF d
    <2>2. Shorter(fetched.d)' <=> Shorter(d)
        BY <1>1, <2>1 DEF Shorter, RealSize, Ops32, Mode
    <2>3. Ends(listed.line, fetched.d)' <=> Ends(listed.line, d)
        BY <1>1, <2>1, <2>2 DEF Ends
    <2>4. Aims(listed.line, fetched.d)' <=> Aims(listed.line, d)
        BY <1>1, <2>1 DEF Aims
    <2>5. Reads(listed.line, fetched.d)' <=> Reads(listed.line, d)
        BY <1>1, <2>1, <2>2 DEF Reads
    <2>. QED BY <2>3, <2>4, <2>5 DEF Agree, d
<1>6. (~Misread => Agree(listed.line, fetched.d))'
    BY <1>2, <1>3, <1>5
<1>7. ((\A i, j \in DOMAIN task.prefix : How(i) = How(j) => i = j) => fetched.d.next.old_eip <= 16)'
    <2>1. fetched'.d = Decode(m) /\ task' = task
        BY <1>1
    <2>. QED BY <1>2, <1>4, <2>1
<1>8. FetchedInv'
    BY <1>6, <1>7 DEF FetchedInv
<1>. QED BY <1>2, <1>8

\* Each step of the program keeps both.
LEMMA ListingStep == ListingInv /\ FetchedInv /\ [Next]_listVars => ListingInv' /\ FetchedInv'
<1>1. ASSUME ListingInv, FetchedInv, UNCHANGED listVars PROVE ListingInv' /\ FetchedInv'
    <2>1. UNCHANGED <<task, m, op_override, addr_override, sgmt_override, overriding_sgmt, frames, rep,
                      listed, fetched>>
        BY <1>1 DEF listVars, vars, over
    <2>2. fetched.on => listed.on
        BY <1>1 DEF ListingInv
    <2>3. ListingInv' /\ (Misread' <=> Misread) /\ \A i : How(i)' = How(i)
        BY <1>1, <2>1, <2>2, StillListed
    <2>4. Agree(listed.line, fetched.d)' <=> Agree(listed.line, fetched.d)
        <3>1. Shorter(fetched.d)' <=> Shorter(fetched.d)
            BY <2>1 DEF Shorter, RealSize, Ops32, Mode
        <3>. QED BY <2>1, <3>1 DEF Agree, Ends, Aims, Reads
    <2>5. FetchedInv'
        BY <1>1, <2>1, <2>3, <2>4 DEF FetchedInv
    <2>. QED BY <2>3, <2>5
<1>. QED BY <1>1, ListKeeps, PrefixKeeps, FetchKeeps DEF Next

\* What is known of a listing in every state, and of an instruction decoded.
THEOREM ListingSafe == Spec => [](ListingInv /\ FetchedInv)
<1>. QED BY ListingStart, ListingStep, PTL DEF Spec

\* The prefixes met set what i386_step has for them, and nothing else.
THEOREM ListingTyped == Spec => []TypeOK
<1>1. ListingInv => TypeOK
    <2>. SUFFICES ASSUME ListingInv PROVE TypeOK
        OBVIOUS
    <2>1. m.eip \in 0 .. Len(task.prefix)
        BY DEF ListingInv
    <2>2. /\ op_override \in {0, 1} /\ addr_override \in {0, 1} /\ overriding_sgmt \in {0, 1}
          /\ sgmt_override \in 0 .. 5 /\ frames \subseteq PrefixOps /\ (fetched.on => listed.on)
        BY DEF ListingInv
    <2>. QED BY <2>1, <2>2 DEF TypeOK
<1>. QED BY <1>1, ListingSafe, PTL

\* The next line of a listing is the next instruction, unless a prefix is misread
\* or the instruction is one of those that dis386 takes to be shorter.
THEOREM ListingFollowsCode == Spec => []LinesFollow
<1>1. FetchedInv => LinesFollow
    <2>. SUFFICES ASSUME FetchedInv, fetched.on, ~Misread
                  PROVE  (listed.line.end = fetched.d.next.eip) = ~Shorter(fetched.d)
        BY DEF LinesFollow
    <2>1. (listed.line.end = fetched.d.next.eip) <=> ~Shorter(fetched.d)
        BY DEF FetchedInv, Agree, Ends
    <2>. QED BY <2>1 DEF Shorter
<1>. QED BY <1>1, ListingSafe, PTL

\* The listing shows where jumps and calls go.
THEOREM ListingShowsTargets == Spec => []TargetsListed
<1>1. FetchedInv => TargetsListed
    BY DEF FetchedInv, Agree, Aims, TargetsListed
<1>. QED BY <1>1, ListingSafe, PTL

\* The listing shows the number that the core takes, when no address is before it.
THEOREM ListingShowsImmediates == Spec => []ImmediatesListed
<1>1. FetchedInv => ImmediatesListed
    BY DEF FetchedInv, Agree, Reads, ImmediatesListed
<1>. QED BY <1>1, ListingSafe, PTL

\* An instruction fits into the packet of the TRACE command when none of its
\* prefixes is there twice.
THEOREM TraceHoldsInstruction == Spec => []TraceFits
<1>1. FetchedInv => TraceFits
    BY DEF FetchedInv, TraceFits
<1>. QED BY <1>1, ListingSafe, PTL
=============================================================================
