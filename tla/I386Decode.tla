----------------------------- MODULE I386Decode -----------------------------
(***************************************************************************)
(* The state of the CPU core and the decoding of an instruction            *)
(* (run386.c, i386_step and decode_operand).  A machine is the record `m'; *)
(* what the prefixes set stands beside it.  The code of a program is apart *)
(* from its data, one element for each of its bytes, with an immediate     *)
(* whole in the first of the bytes it takes.                               *)
(***************************************************************************)
EXTENDS I386Alu, I386Table

CONSTANTS
    Tasks,      \* programs: code, registers, segments, flags and data they start with
    MemSize,    \* bytes of memory, a power of two: the bus wraps at 1MB
    Dollar,     \* the character '$'
    HostValues  \* what the host may answer: a key, the clock, a system call

VARIABLES
    task,               \* the program
    m,                  \* registers, flags, eip, segments, memory, screen, and how it goes on
    op_override, addr_override, sgmt_override, overriding_sgmt,
    frames,             \* the calls of i386_step that end with the instruction
    rep                 \* the string instruction being repeated, or NoRep

over == <<op_override, addr_override, sgmt_override, overriding_sgmt>>
vars == <<task, m, over, frames, rep>>

NoRep == [sub |-> 0, flags |-> {}, repne |-> FALSE, on |-> FALSE]

----------------------------------------------------------------------------
(* Modes and memory *)

\* MODE(cs) and MODE(ss): set for both segments by LOCUTUS, for neither by MAVERICK.
Mode == IF task.use32 THEN 1 ELSE 0

\* MODE(cs) ^ op_override and MODE(cs) ^ addr_override
Ops32 == Mode # op_override
Addr32 == Mode # addr_override

Load(s, n, a) ==
    LET at(i) == s.mem[(a + i) % MemSize]
    IN CASE n = 1 -> at(0)
         [] n = 2 -> at(0) + at(1) * W(1)
         [] n = 4 -> at(0) + at(1) * W(1) + at(2) * W(2) + at(3) * W(3)

Store(s, n, a, v) ==
    LET at(x) == (x - a) % MemSize
    IN [s EXCEPT !.mem = [x \in DOMAIN s.mem |->
            IF at(x) < n THEN (v \div W(at(x))) % Byte ELSE s.mem[x]]]

\* An 8-bit register is the low (0-3) or the next (4-7) byte of a register.
GetReg(s, n, r) ==
    IF n = 1 THEN (s.regs[r % 4] \div W(r \div 4)) % Byte ELSE s.regs[r] % W(n)

SetReg(s, n, r, v) ==
    LET x == IF n = 1 THEN r % 4 ELSE r
        low == IF n = 1 THEN W(r \div 4) ELSE 1
        old == s.regs[x]
    IN [s EXCEPT !.regs[x] = old + ((v % W(n)) - ((old \div low) % W(n))) * low]

\* Mutation of AddReg: the sum is not cut to 32 bits.
AddRegUncut(s, r, k) == [s EXCEPT !.regs[r] = @ + k]

AddReg(s, r, k) == [s EXCEPT !.regs[r] = U32(@ + k)]

\* Numbers 6 and 7 are behind the array: gdtr and idtr, which nothing else uses.
Base(s, sr) == s.segs[sr].base

Hang(s) == [s EXCEPT !.status = "hangs"]

\* i386_push and i386_pop: the size is that of the stack segment.
StackSize == IF task.use32 THEN 4 ELSE 2

Push(s, v) ==
    LET t == AddReg(s, ESP, -StackSize) IN Store(t, StackSize, Base(t, SS) + t.regs[ESP], v)

Top(s) == Load(s, StackSize, Base(s, SS) + s.regs[ESP])

Popped(s) == AddReg(s, ESP, StackSize)

----------------------------------------------------------------------------
(* Decoding *)

\* Behind the program memory is as fresh from the system, all zeros.
Code(e) == IF e + 1 \in DOMAIN task.code THEN task.code[e + 1] ELSE 0

\* Opcodes, Mod R/M and SIB bytes have eight bits, as many as data or not.
CodeByte(e) == Code(e) % 256

\* decode_sib: `sib' is a signed char, so that SCALE is negative from 0x80 on,
\* and the host shifts by that count modulo 32.
Scale(sib) ==
    CASE sib < \h40 -> 1
      [] sib \in \h40 .. \h7F -> 2
      [] sib \in \h80 .. \hBF -> W(4) \div 4
      [] sib >= \hC0 -> W(4) \div 2

Place(offset, sr, bytes) == [offset |-> offset, sr |-> sr, bytes |-> bytes]

\* Mutation of Sib: a base of 5 is a displacement whatever mod is.
SibAnyMod(s, e, mod) ==
    LET sib == CodeByte(e)
        b == sib % 8
        x == (sib \div 8) % 8
        index == IF x = 4 THEN 0 ELSE s.regs[x] * Scale(sib)
    IN IF b = 5 THEN Place(Code(e + 1) + index, 0, 5)
       ELSE Place(s.regs[b] + index, IF b = 4 THEN SS ELSE 0, 1)

Sib(s, e, mod) ==
    LET sib == CodeByte(e)
        b == sib % 8
        x == (sib \div 8) % 8
        index == IF x = 4 THEN 0 ELSE s.regs[x] * Scale(sib)
    IN IF b = 5 /\ mod = 0
         THEN Place(Code(e + 1) + index, 0, 5)
         ELSE Place(s.regs[b] + index, IF b \in {4, 5} THEN SS ELSE 0, 1)

\* decode_rm_32 before the displacement.
Place32(s, e, mod, r) ==
    CASE r \notin {4, 5} -> Place(s.regs[r], 0, 0)
      [] r = 4 -> Sib(s, e, mod)
      [] r = 5 /\ mod = 0 -> Place(Code(e), 0, 4)
      [] r = 5 /\ mod # 0 -> Place(s.regs[EBP], SS, 0)

\* decode_rm_16 before the displacement.
Place16(s, e, mod, r) ==
    LET index == GetReg(s, 2, IF r % 2 = 0 THEN ESI ELSE EDI)
    IN CASE r \in {0, 1} -> Place(GetReg(s, 2, EBX) + index, 0, 0)
         [] r \in {2, 3} -> Place(GetReg(s, 2, EBP) + index, SS, 0)
         [] r \in {4, 5} -> Place(index, 0, 0)
         [] r = 6 /\ mod = 0 -> Place(Code(e), 0, 2)
         [] r = 6 /\ mod # 0 -> Place(GetReg(s, 2, EBP), SS, 0)
         [] r = 7 -> Place(GetReg(s, 2, EBX), 0, 0)

\* The r/m operand of the Mod R/M byte at e, and where the code goes on.
DecodeRM(s, e) ==
    LET mod == CodeByte(e) \div 64
        r == CodeByte(e) % 8
        size == IF Addr32 THEN 4 ELSE 2
        p == IF Addr32 THEN Place32(s, e + 1, mod, r) ELSE Place16(s, e + 1, mod, r)
        d == e + 1 + p.bytes
        disp == CASE mod = 0 -> 0
                  [] mod = 1 -> SX(1, Code(d))
                  [] mod = 2 -> Code(d)
    IN IF mod = 3
         THEN [type |-> "REGISTER", id |-> r, sr |-> 0, eip |-> e + 1]
         ELSE [type |-> "MEM", id |-> (p.offset + disp) % W(size), sr |-> p.sr,
               eip |-> d + (CASE mod = 0 -> 0 [] mod = 1 -> 1 [] mod = 2 -> size)]

RealSize(size) ==
    CASE size = SZ_1632 -> IF Ops32 THEN 4 ELSE 2
      [] size = SZ_816 -> IF Ops32 THEN 2 ELSE 1
      [] size = SZ_3248 -> IF Ops32 THEN 6 ELSE 4
      [] size = SZ_3264 -> IF Ops32 THEN 8 ELSE 4
      [] OTHER -> size

\* How many bytes of the code an operand takes.
OperandBytes(type, size) ==
    CASE type = "OFFSET" -> IF Addr32 THEN 4 ELSE 2
      [] type \in {"IMM", "SIMM", "FAR_PTR", "IP_REL"} -> IF size = 6 THEN 0 ELSE size
      [] OTHER -> 0

\* Mutation of Segment: the register counts for more than an override.
SegmentOfRegister(rm) == IF rm.sr # 0 THEN rm.sr ELSE sgmt_override

\* The segment of a memory operand: an override counts for more than the register.
Segment(rm) ==
    IF rm.sr # 0 /\ overriding_sgmt = 0 THEN rm.sr ELSE sgmt_override

Decoded(type, size, id, sr) == [type |-> type, size |-> size, id |-> id, sr |-> sr]

\* decode_operand, with e the place in the code.
DecodeOperand(e, rm, reg, o) ==
    LET n == RealSize(o.size)
        next == e + OperandBytes(o.type, n)
    IN CASE o.type = "NONE" -> Decoded("NONE", o.size, 0, 0)
         [] o.type = "OFFSET" -> Decoded("MEM", n, Code(e), sgmt_override)
         [] o.type \in {"RM_MODRM", "MEM_MODRM"} -> Decoded(rm.type, n, rm.id, Segment(rm))
         [] o.type = "REG_MODRM" -> Decoded("REGISTER", n, reg, 0)
         [] o.type = "SEG_REG_MODRM" -> Decoded("SEG_REG", n, reg, 0)
         [] o.type = "CONST_REG" -> Decoded("REGISTER", n, o.value, 0)
         [] o.type = "CONST_SEG_REG" -> Decoded("SEG_REG", n, o.value, 0)
         [] o.type = "SIMM" -> Decoded("IMM", n, U32(SX(n, Code(e))), 0)
         [] o.type \in {"IMM", "FAR_PTR"} -> Decoded("IMM", n, IF n = 6 THEN 0 ELSE Code(e), 0)
         [] o.type = "CONSTANT" -> Decoded("IMM", n, o.value, 0)
         [] o.type = "EDX_EAX" -> Decoded("EDX_EAX", n, 0, 0)
         [] o.type = "IP_REL" -> Decoded("IMM", n, U32(next + SX(n, Code(e))), 0)

\* fixup_f6: the Mod R/M byte says which operation 0xF6 and 0xF7 are.
FixupF6(inst, reg) ==
    LET z == inst.src1.size
        acc == Const(z, EAX)
        name == SpecialOps[reg + 1]
    IN CASE name = "TEST" -> Inst("ALU_SPECIAL", reg, inst.flags, None, RM(z), Imm(z))
         [] name = "UNK" -> [inst EXCEPT !.sub = reg]
         [] name \in {"NOT", "NEG"} -> Inst("ALU_SPECIAL", reg, inst.flags, RM(z), RM(z), None)
         [] name \in {"MUL", "IMUL"} -> Inst("ALU_SPECIAL", reg, {"WRITE_DX"}, acc, acc, RM(z))
         [] name \in {"DIV", "IDIV"} ->
              Inst("ALU_SPECIAL", reg, {"WRITE_DX"}, acc,
                   IF z = 1 THEN Const(2, EAX) ELSE Operand("EDX_EAX", SZ_3264, 0), RM(z))

\* fixup_ff: the far call and jump hang, 7 is no operation.
FixupFF(inst, reg) ==
    CASE reg \in {0, 1} -> [inst EXCEPT !.op = "INCDEC", !.sub = reg]
      [] reg = 2 -> [inst EXCEPT !.op = "CALL_NEAR"]
      [] reg = 4 -> [inst EXCEPT !.op = "JUMP", !.sub = 16]
      [] reg = 6 -> [inst EXCEPT !.op = "PUSH"]
      [] OTHER -> inst

Fixup(inst, reg) ==
    CASE inst.op = "ALU_SPECIAL" /\ inst.sub = ALU_MULTI /\ "WEIRD" \in inst.flags -> FixupF6(inst, reg)
      [] inst.op = "MULTIPLEXED_FF" -> FixupFF(inst, reg)
      [] OTHER -> inst

PrefixOps == {"LOCK", "OP_SZ_OVERRIDE", "ADDR_SZ_OVERRIDE", "SEGMENT_OVERRIDE"}

NoOverride ==
    /\ op_override = 0 /\ addr_override = 0
    /\ sgmt_override = DS /\ overriding_sgmt = 0
    /\ frames = {}

AtInstruction == m.status = "runs" /\ ~rep.on

AtPrefix == InstructionTable(CodeByte(m.eip)).op \in PrefixOps

\* i386_step calls itself for what follows a prefix.
Prefix ==
    /\ AtInstruction
    /\ LET p == InstructionTable(CodeByte(m.eip))
       IN /\ p.op \in PrefixOps
          /\ op_override' = IF p.op = "OP_SZ_OVERRIDE" THEN 1 ELSE op_override
          /\ addr_override' = IF p.op = "ADDR_SZ_OVERRIDE" THEN 1 ELSE addr_override
          /\ sgmt_override' = IF p.op = "SEGMENT_OVERRIDE" THEN p.sub ELSE sgmt_override
          /\ overriding_sgmt' = IF p.op = "SEGMENT_OVERRIDE" THEN 1 ELSE overriding_sgmt
          /\ frames' = frames \cup {p.op}
    /\ m' = [m EXCEPT !.eip = U32(@ + 1)]
    /\ UNCHANGED <<task, rep>>

\* i386_step at an opcode, with the first byte's row: a repeat prefix takes the
\* next byte for a string instruction, whatever it is.
Opcode(first, e) ==
    CASE first.op = "EXTENDED" ->
           [inst |-> ExtendedInstructionTable(CodeByte(e + 1)), eip |-> U32(e + 2)]
      [] first.op \in {"REPEZ", "REPNE"} ->
           [inst |-> [InstructionTable(CodeByte(e + 1)) EXCEPT !.op = first.op], eip |-> U32(e + 2)]
      [] OTHER -> [inst |-> first, eip |-> U32(e + 1)]

\* The operands, one behind the other.  MEM_MODRM with a register, and the
\* unsupported far calls, hang here.
Operands(s, rm, reg, inst) ==
    LET e1 == rm.eip + OperandBytes(inst.dest.type, RealSize(inst.dest.size))
        e2 == e1 + OperandBytes(inst.src1.type, RealSize(inst.src1.size))
        e3 == U32(e2 + OperandBytes(inst.src2.type, RealSize(inst.src2.size)))
    IN [inst |-> inst, reg |-> reg,
        dst |-> DecodeOperand(rm.eip, rm, reg, inst.dest),
        src1 |-> DecodeOperand(e1, rm, reg, inst.src1),
        src2 |-> DecodeOperand(e2, rm, reg, inst.src2),
        stuck |-> \/ rm.type = "REGISTER" /\ "MEM_MODRM" \in {inst.dest.type, inst.src1.type, inst.src2.type}
                  \/ inst.op = "MULTIPLEXED_FF" /\ reg \in {3, 5},
        next |-> [s EXCEPT !.eip = e3, !.old_eip = e3]]

DecodeAt(s, o) ==
    LET reg == (CodeByte(o.eip) \div 8) % 8
    IN IF "MODRM" \in o.inst.flags
         THEN Operands(s, DecodeRM(s, o.eip), reg, Fixup(o.inst, reg))
         ELSE Operands(s, [type |-> "NONE", id |-> 0, sr |-> 0, eip |-> o.eip], 0, Fixup(o.inst, 0))

\* i386_step up to the execution.
Decode(s) == DecodeAt(s, Opcode(InstructionTable(CodeByte(s.eip)), s.eip))
=============================================================================
