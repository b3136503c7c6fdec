------------------------------- MODULE Dis386 -------------------------------
(***************************************************************************)
(* The disassembler of dis.c, which ICEMAN's `u' and the trace of LOCUTUS  *)
(* use: how many bytes it takes an instruction to have, and the numbers it *)
(* shows.  It reads the tables of the CPU core and has its own decoding.   *)
(* op_sz and addr_sz are TRUE for 32 bits; the names it prints are left    *)
(* out.  Code is laid out as in I386Decode.                                *)
(***************************************************************************)
EXTENDS I386Alu, I386Table, FiniteSets

\* rm16: the bytes of the displacement.
rm16(mod, rm) ==
    CASE mod = 0 -> IF rm = 6 THEN 2 ELSE 0
      [] mod \in {1, 2} -> mod
      [] mod = 3 -> 0

\* Mutation of rm32: the base of the SIB byte is not looked at.
rm32_no_base(sib, mod, rm) ==
    LET disp == CASE mod = 0 -> IF rm = 5 THEN 4 ELSE 0 [] mod = 1 -> 1 [] mod = 2 -> 4
    IN IF mod = 3 THEN 0 ELSE disp + (IF rm = 4 THEN 1 ELSE 0)

\* dis_sib and rm32: a base of 5 has a displacement instead, as long as mod is 0.
rm32(sib, mod, rm) ==
    LET disp == CASE mod = 0 -> IF rm = 5 \/ (rm = 4 /\ sib % 8 = 5) THEN 4 ELSE 0
                  [] mod = 1 -> 1
                  [] mod = 2 -> 4
    IN IF mod = 3 THEN 0 ELSE disp + (IF rm = 4 THEN 1 ELSE 0)

DisSize(size, op_sz) ==
    CASE size = SZ_1632 -> IF op_sz THEN 4 ELSE 2
      [] size = SZ_816 -> IF op_sz THEN 2 ELSE 1
      [] OTHER -> size

\* Mutation of disasm_operand: it reads one byte early.
disasm_operand_early(code, address, vaddr, o, op_sz, addr_sz) ==
    LET n == DisSize(o.size, op_sz)
        v == code[address]
    IN CASE o.type \in {"IMM", "SIMM"} -> [bytes |-> n, shown |-> v]
         [] o.type = "OFFSET" -> [bytes |-> IF addr_sz THEN 4 ELSE 2, shown |-> v]
         [] o.type = "IP_REL" -> [bytes |-> n, shown |-> U32(vaddr + n + v)]
         [] OTHER -> [bytes |-> 0, shown |-> 0]

\* disasm_operand: the bytes an operand takes and the number it shows.  It is
\* always read at `address', behind the Mod R/M byte; vaddr is the address of
\* what comes behind the operands so far.
disasm_operand(code, address, vaddr, o, op_sz, addr_sz) ==
    LET n == DisSize(o.size, op_sz)
        v == code[address + 1]
    IN CASE o.type \in {"IMM", "SIMM"} ->
              [bytes |-> n, shown |-> IF o.type = "SIMM" THEN U32(SX(n, v)) ELSE v]
         [] o.type = "OFFSET" -> [bytes |-> IF addr_sz THEN 4 ELSE 2, shown |-> v]
         [] o.type = "IP_REL" -> [bytes |-> n, shown |-> U32(vaddr + n + SX(n, v))]
         [] o.type = "CONSTANT" -> [bytes |-> 0, shown |-> o.value]
         [] OTHER -> [bytes |-> 0, shown |-> 0]

\* The operands of an instruction whose Mod R/M byte, if it has one, is at `at'.
DisOperands(code, at, inst, op_sz, addr_sz) ==
    LET modrm == "MODRM" \in inst.flags
        mod == code[at + 1] \div 64
        rm == code[at + 1] % 8
        address == IF modrm THEN at + 1 ELSE at
        end == address + (IF ~modrm THEN 0
                          ELSE IF addr_sz THEN rm32(code[at + 2], mod, rm) ELSE rm16(mod, rm))
        dest == disasm_operand(code, address, end, inst.dest, op_sz, addr_sz)
        src1 == disasm_operand(code, address, end + dest.bytes, inst.src1, op_sz, addr_sz)
        src2 == disasm_operand(code, address, end + dest.bytes + src1.bytes, inst.src2, op_sz, addr_sz)
    IN [end |-> end + dest.bytes + src1.bytes + src2.bytes, inst |-> inst,
        dest |-> dest.shown, src1 |-> src1.shown, src2 |-> src2.shown]

\* The part of dis386 behind the prefixes, at e.
DisBody(code, e, op_sz, addr_sz) ==
    LET first == InstructionTable(code[e + 1])
    IN IF first.op = "EXTENDED"
         THEN DisOperands(code, e + 2, ExtendedInstructionTable(code[e + 2]), op_sz, addr_sz)
         ELSE DisOperands(code, e + 1, first, op_sz, addr_sz)

DisPrefixes ==
    {"LOCK", "OP_SZ_OVERRIDE", "ADDR_SZ_OVERRIDE", "SEGMENT_OVERRIDE", "REPEZ", "REPNE"}

\* dis386: it calls itself for each prefix.  An operand size turns the size
\* round, an address size or a segment the size of addresses; a repetition
\* goes on to the instruction.
dis386(code, e, op_sz, addr_sz) ==
    LET Op(i) == InstructionTable(code[e + i + 1]).op
        n == Min({i \in 0 .. Len(code) - e - 1 : Op(i) \notin DisPrefixes})
        Odd(ops) == Cardinality({i \in 0 .. n - 1 : Op(i) \in ops}) % 2 = 1
    IN DisBody(code, e + n, op_sz # Odd({"OP_SZ_OVERRIDE"}),
               addr_sz # Odd({"ADDR_SZ_OVERRIDE", "SEGMENT_OVERRIDE"}))
=============================================================================
