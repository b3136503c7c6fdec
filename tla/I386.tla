-------------------------------- MODULE I386 --------------------------------
(***************************************************************************)
(* The CPU core of run386.c executing programs: one step per prefix, per   *)
(* instruction and per round of a repeated string instruction.  The        *)
(* handlers are functions from a machine to a machine, as they call each   *)
(* other; an action per operation applies one of them.                     *)
(***************************************************************************)
EXTENDS I386Decode

\* read_source: a number below W(8).
Read(s, o) ==
    CASE o.type = "NONE" -> 0
      [] o.type = "IMM" -> o.id
      [] o.type = "REGISTER" -> GetReg(s, o.size, o.id)
      [] o.type = "MEM" -> Load(s, o.size, Base(s, o.sr) + o.id)
      [] o.type = "SEG_REG" -> s.segs[o.id].selector
      [] o.type = "EDX_EAX" -> LET n == o.size \div 2
                               IN GetReg(s, n, EDX) * W(n) + GetReg(s, n, EAX)

\* write_dest cuts the value to the size of the operand.
Write(s, o, v) ==
    CASE o.type = "NONE" -> s
      [] o.type = "REGISTER" -> SetReg(s, o.size, o.id, v)
      [] o.type = "MEM" -> Store(s, o.size, Base(s, o.sr) + o.id, v)
      [] o.type = "SEG_REG" -> [s EXCEPT !.segs[o.id].selector = v % W(2)]
      [] o.type = "EDX_EAX" -> LET n == o.size \div 2
                               IN SetReg(SetReg(s, n, EDX, v \div W(n)), n, EAX, v)
      [] o.type = "IMM" -> Hang(s)

----------------------------------------------------------------------------
(* Arithmetic *)

do_alu_op(s, d) ==
    LET op == AluOps[(IF d.inst.sub = ALU_MULTI THEN d.reg ELSE d.inst.sub) + 1]
        a == Read(s, d.src1)
        b == Read(s, d.src2)
        r == AluResult(op, a, b, Flag(s.flags, "CF"))
        t == [s EXCEPT !.flags = AluFlags(op, d.src1.size, a, b, r, @)]
    IN IF op = "CMP" THEN t ELSE Write(t, d.dst, r)

do_alu_special(s, d) ==
    LET op == SpecialOps[d.inst.sub + 1]
        n == IF d.dst.size \in {1, 4} THEN d.dst.size ELSE 2
        a == Read(s, d.src1)
        b == Read(s, d.src2)
        out == SpecialResult(op, n, a, b)
        t == Write([s EXCEPT !.flags = SpecialFlags(op, d.src1.size, a, out.res, @)], d.dst, out.res)
        high == IF d.dst.size = 1 THEN 4 ELSE EDX   \* AH, DX or EDX
    IN CASE op = "UNK" -> Hang(s)
         [] DivideFaults(op, n, a, b) -> [s EXCEPT !.status = "faults"]
         [] OTHER -> IF "WRITE_DX" \in d.inst.flags THEN SetReg(t, d.dst.size, high, out.rem) ELSE t

\* SHL (4) and SHR (5); the other five hang.  Only SHL of a byte sets a flag.
do_shift(s, d) ==
    LET r == Shifted(d.reg = 4, Read(s, d.src1), Read(s, d.src2) % Byte)
        t == IF d.reg = 4 /\ d.dst.size = 1
               THEN [s EXCEPT !.flags = SetTo(@, "CF", CarryOut(1, r))]
               ELSE s
    IN IF d.reg \in {4, 5} THEN Write(t, d.dst, r) ELSE Hang(s)

do_incdec(s, d) ==
    LET a == Read(s, d.src1)
        inc == d.inst.sub = 0
        r == U32(IF inc THEN a + 1 ELSE a - 1)
    IN Write([s EXCEPT !.flags = IncDecFlags(inc, d.src1.size, a, r, @)], d.dst, r)

do_cbw_cwde(s, d) ==
    Write(s, d.dst, SX(IF d.src1.size = 1 THEN 1 ELSE 2, Read(s, d.src1)))

do_cwd_cdq(s, d) ==
    Write(s, d.dst, SX(IF d.src1.size = 2 THEN 2 ELSE 4, Read(s, d.src1)))

----------------------------------------------------------------------------
(* Moves, the stack, segments and flags *)

do_mov(s, d) == Write(s, d.dst, Read(s, d.src1))

do_lea(s, d) == Write(s, d.dst, d.src1.id)

do_xchg(s, d) == Write(Write(s, d.src1, Read(s, d.src2)), d.src2, Read(s, d.src1))

do_push(s, d) == Push(s, Read(s, d.src1))

do_pop(s, d) == Write(Popped(s), d.dst, Top(s))

\* load_seg_reg with cr0 as init_386 leaves it: real mode.
LoadSegment(s, o, selector) ==
    [Write(s, o, selector) EXCEPT !.segs[o.id].base = (selector % W(2)) * 16]

do_mov_to_sr(s, d) == LoadSegment(s, d.dst, Read(s, d.src1))

do_pop_sr(s, d) == LoadSegment(Popped(s), d.dst, Top(s))

do_enter(s, d) ==
    LET t == Push(s, s.regs[EBP])
        u == Push(t, t.regs[ESP])
    IN AddReg([u EXCEPT !.regs[EBP] = t.regs[ESP]], ESP, -Read(u, d.src1))

do_leave(s, d) ==
    LET t == SetReg(s, StackSize, ESP, s.regs[EBP])
    IN [Popped(t) EXCEPT !.regs[EBP] = Top(t)]

do_pushf(s, d) == Push(s, FlagWord(s.flags))

do_popf(s, d) == [Popped(s) EXCEPT !.flags = FlagsIn(Top(s))]

\* What is pushed of ESP is its value before.
do_pusha(s, d) ==
    LET push(t, r) == Push(t, s.regs[r])
        half == push(push(push(push(s, EAX), ECX), EDX), EBX)
    IN push(push(push(push(half, ESP), EBP), ESI), EDI)

PopInto(s, n, r) == SetReg(Popped(s), n, r, Top(s))

\* Mutation of do_popa: the stack pointer is popped like the others.
do_popa_esp(s, d) ==
    LET n == IF Ops32 THEN 4 ELSE 2
        low == PopInto(PopInto(PopInto(s, n, EDI), n, ESI), n, EBP)
        half == PopInto(PopInto(low, n, ESP), n, EBX)
    IN PopInto(PopInto(PopInto(half, n, EDX), n, ECX), n, EAX)

\* The size is that of the operands here, and that of the stack in i386_pop.
do_popa(s, d) ==
    LET n == IF Ops32 THEN 4 ELSE 2
        low == PopInto(PopInto(PopInto(s, n, EDI), n, ESI), n, EBP)
        half == PopInto(SetReg(low, n, ESP, GetReg(low, n, ESP) + n), n, EBX)
    IN PopInto(PopInto(PopInto(half, n, EDX), n, ECX), n, EAX)

do_sahf(s, d) ==
    LET low == {"CF", "PF", "AF", "ZF", "SF"}
    IN [s EXCEPT !.flags = (@ \ low) \cup (FlagsIn(GetReg(s, 1, 4)) \cap low)]

do_lahf(s, d) == SetReg(s, 1, 4, FlagWord(s.flags))

FlagOf(sub) == CASE sub = CARRY -> "CF" [] sub = INTERRUPT -> "IF" [] sub = DIRECTION -> "DF"

do_clear_flag(s, d) == [s EXCEPT !.flags = @ \ {FlagOf(d.inst.sub)}]

do_set_flag(s, d) == [s EXCEPT !.flags = @ \cup {FlagOf(d.inst.sub)}]

do_cmc(s, d) == [s EXCEPT !.flags = SetTo(@, "CF", "CF" \notin @)]

do_xlat(s, d) ==
    SetReg(s, 1, EAX, Load(s, 1, Base(s, sgmt_override) + s.regs[EBX] + GetReg(s, 1, EAX)))

----------------------------------------------------------------------------
(* Control *)

\* The operand is read when the return address is on the stack.
do_call_near(s, d) == LET t == Push(s, s.eip) IN [t EXCEPT !.eip = Read(t, d.src1)]

i386_ret_near(s, d) == AddReg([Popped(s) EXCEPT !.eip = Top(s)], ESP, Read(s, d.src1))

do_near_jump(s, d) ==
    LET countZero == GetReg(s, IF Ops32 THEN 4 ELSE 2, ECX) = 0
    IN IF Holds(d.inst.sub, s.flags, countZero) THEN [s EXCEPT !.eip = Read(s, d.src1)] ELSE s

\* The count is ECX whatever the size of the operands.
do_loop(s, d) ==
    LET t == AddReg(s, ECX, -1)
        again == /\ t.regs[ECX] # 0
                 /\ \/ d.inst.sub = LOOP_NORMAL
                    \/ d.inst.sub = LOOPE /\ "ZF" \in s.flags
                    \/ d.inst.sub = LOOPNE /\ "ZF" \notin s.flags
    IN IF again THEN [t EXCEPT !.eip = Read(s, d.src1)] ELSE t

----------------------------------------------------------------------------
(* String instructions *)

StringSize(flags) == IF "STR_SZ_8" \in flags THEN 1 ELSE IF Ops32 THEN 4 ELSE 2

\* Mutation of SourceAt: overrides are not looked at.
SourceAtDS(s) == Base(s, DS) + s.regs[ESI]

SourceAt(s) == Base(s, sgmt_override) + s.regs[ESI]

DestAt(s) == Base(s, ES) + s.regs[EDI]

Advance(s, r, n) == AddReg(s, r, IF "DF" \in s.flags THEN -n ELSE n)

SetZF(s, n, v) == [s EXCEPT !.flags = SetTo(@, "ZF", v % W(n) = 0)]

\* do_scas takes the flags of the table for a size: a byte is compared with
\* the whole of EAX, a word or dword with nothing.  Behind a REP the row may be
\* one with a Mod R/M byte, whose flag is the size of a byte: its low byte is
\* compared with AL.
Scanned(s, flags, to) ==
    CASE flags = {"MODRM"} -> SetZF(s, 1, s.regs[EAX] - to)
      [] flags = {"STR_SZ_8"} -> SetZF(s, 4, s.regs[EAX] - to)
      [] OTHER -> s

\* do_cmps sets the zero flag from the low byte, whatever the size.
do_string(s, sub, flags) ==
    LET n == StringSize(flags)
        name == IF sub < Len(StringOps) THEN StringOps[sub + 1] ELSE "NONE"
        from == Load(s, n, SourceAt(s))
        to == Load(s, n, DestAt(s))
    IN CASE name = "STOS" -> Advance(Store(s, n, DestAt(s), s.regs[EAX]), EDI, n)
         [] name = "LODS" -> Advance(SetReg(s, n, EAX, from), ESI, n)
         [] name = "CMPS" -> Advance(Advance(SetZF(s, 1, from - to), ESI, n), EDI, n)
         [] name = "MOVS" -> Advance(Advance(Store(s, n, DestAt(s), from), ESI, n), EDI, n)
         [] name = "SCAS" -> Advance(Scanned(s, flags, to), EDI, n)
         [] name \in {"INS", "OUTS", "NONE"} -> Hang(s)

\* Mutation of Broken: REPNE stops where REP does.
BrokenAlike(s) ==
    rep.sub \in {StringOp("CMPS"), StringOp("SCAS")} /\ "ZF" \notin s.flags

\* Whether a repetition ends after a round: REPNE looks at the zero flag for
\* every instruction, REP for those that compare.
Broken(s) ==
    IF rep.repne
      THEN "ZF" \in s.flags
      ELSE rep.sub \in {StringOp("CMPS"), StringOp("SCAS")} /\ "ZF" \notin s.flags

----------------------------------------------------------------------------
(* The services of do_int: printing, keyboard, clock, the system call of OS/2 *)

\* Mutation of Printed: the dollar is printed, too.
PrintedDollar(s) ==
    LET at(k) == Load(s, 1, Base(s, DS) + ((GetReg(s, 2, EDX) + k) % W(2)))
        ends == {k \in 0 .. W(2) - 1 : at(k) = Dollar}
    IN IF ends = {} THEN Hang(s)
       ELSE [s EXCEPT !.screen = @ \o [k \in 1 .. Min(ends) + 1 |-> at(k - 1)]]

\* DS:DX up to the first '$'; without one it prints for ever.
Printed(s) ==
    LET at(k) == Load(s, 1, Base(s, DS) + ((GetReg(s, 2, EDX) + k) % W(2)))
        ends == {k \in 0 .. W(2) - 1 : at(k) = Dollar}
    IN IF ends = {} THEN Hang(s)
       ELSE [s EXCEPT !.screen = @ \o [k \in 1 .. Min(ends) |-> at(k - 1)]]

\* `answer' is what the host returns.
Video(s, fn) ==
    CASE fn = \h02 -> s
      [] fn \in {\h09, \h0E} -> [s EXCEPT !.screen = Append(@, GetReg(s, 1, EAX))]
      [] fn = \h00 -> IF GetReg(s, 1, EAX) = \h13 THEN s ELSE Hang(s)
      [] OTHER -> Hang(s)

Keyboard(s, fn, answer) ==
    CASE fn = \h00 -> SetReg(SetReg(s, 1, EAX, answer), 1, 4, answer)
      [] fn = \h02 -> SetReg(s, 1, EAX, answer)
      [] OTHER -> Hang(s)

do_int(s, d, answer) ==
    LET vector == Read(s, d.src1)
        fn == GetReg(s, 1, 4)
    IN CASE vector = \h80 -> SetReg(s, 4, EAX, answer)
         [] vector = \h21 -> IF fn = \h09 THEN Printed(s) ELSE Hang(s)
         [] vector = \h10 -> Video(s, fn)
         [] vector = \h16 -> Keyboard(s, fn, answer)
         [] vector = \h1A -> IF fn = \h00 THEN SetReg(s, 2, EDX, answer) ELSE Hang(s)
         [] vector = \h20 -> [s EXCEPT !.status = "exits"]
         [] OTHER -> Hang(s)

----------------------------------------------------------------------------
(* i386_step *)

TypeOK ==
    /\ m.regs \in [0 .. 7 -> 0 .. W(4) - 1]
    /\ m.flags \subseteq Flags
    /\ m.eip \in 0 .. W(4) - 1 /\ m.old_eip \in 0 .. W(4) - 1
    /\ \A sr \in 0 .. 7 : m.segs[sr].selector \in 0 .. W(2) - 1 /\ m.segs[sr].base \in Nat
    /\ m.mem \in [0 .. MemSize - 1 -> 0 .. Byte - 1]
    /\ m.screen \in Seq(0 .. Byte - 1)
    /\ m.status \in {"runs", "hangs", "faults", "exits"}
    /\ {op_override, addr_override, overriding_sgmt} \subseteq {0, 1}
    /\ sgmt_override \in 0 .. 5
    /\ frames \subseteq PrefixOps
    /\ rep.on \in BOOLEAN

\* Programs: bytes, or whole immediates, and values their places can hold.
ASSUME ProgramAssumption ==
    /\ MemSize \in Nat \ {0} /\ HostValues \subseteq Nat
    /\ \A t \in Tasks :
        /\ t.code \in Seq(0 .. W(4) - 1)
        /\ t.regs \in [0 .. 7 -> 0 .. W(4) - 1] /\ t.flags \subseteq Flags
        /\ t.segs \in [0 .. 5 -> 0 .. W(2) - 1]
        /\ t.mem \in [0 .. MemSize - 1 -> 0 .. Byte - 1]

\* init_386, which sets all else to zero, and the loading of a program.
Init ==
    /\ task \in Tasks
    /\ m = [regs |-> task.regs, flags |-> task.flags, eip |-> 0, old_eip |-> 0,
            segs |-> [sr \in 0 .. 7 |-> LET x == IF sr < 6 THEN task.segs[sr] ELSE 0
                                       IN [selector |-> x, base |-> 16 * x]],
            mem |-> task.mem, screen |-> <<>>, status |-> "runs"]
    /\ NoOverride
    /\ rep = NoRep

\* Mutation of Return: the operand size is not taken back.
ReturnWide ==
    /\ addr_override' = IF "ADDR_SZ_OVERRIDE" \in frames THEN 0 ELSE addr_override
    /\ sgmt_override' = IF "SEGMENT_OVERRIDE" \in frames THEN DS ELSE sgmt_override
    /\ overriding_sgmt' = IF "SEGMENT_OVERRIDE" \in frames THEN 0 ELSE overriding_sgmt
    /\ frames' = {}
    /\ rep' = NoRep
    /\ UNCHANGED op_override

\* The calls of i386_step return, each taking back what its prefix set.
Return ==
    /\ op_override' = IF "OP_SZ_OVERRIDE" \in frames THEN 0 ELSE op_override
    /\ addr_override' = IF "ADDR_SZ_OVERRIDE" \in frames THEN 0 ELSE addr_override
    /\ sgmt_override' = IF "SEGMENT_OVERRIDE" \in frames THEN DS ELSE sgmt_override
    /\ overriding_sgmt' = IF "SEGMENT_OVERRIDE" \in frames THEN 0 ELSE overriding_sgmt
    /\ frames' = {}
    /\ rep' = NoRep

\* What ends the program or loops for ever does not return.
Finish(s) ==
    /\ m' = s
    /\ IF s.status = "runs" THEN Return ELSE UNCHANGED <<over, frames, rep>>
    /\ UNCHANGED task

Is(op, d) == d.inst.op = op /\ ~d.stuck

Arithmetic(d) == \/ Is("ALU", d) /\ Finish(do_alu_op(d.next, d))
                 \/ Is("ALU_SPECIAL", d) /\ Finish(do_alu_special(d.next, d))
                 \/ Is("SHIFT", d) /\ Finish(do_shift(d.next, d))
                 \/ Is("INCDEC", d) /\ Finish(do_incdec(d.next, d))
                 \/ Is("CBW_CWDE", d) /\ Finish(do_cbw_cwde(d.next, d))
                 \/ Is("CWD_CDQ", d) /\ Finish(do_cwd_cdq(d.next, d))

Moves(d) == \/ Is("MOV", d) /\ Finish(do_mov(d.next, d))
            \/ Is("LEA", d) /\ Finish(do_lea(d.next, d))
            \/ Is("XCHG", d) /\ Finish(do_xchg(d.next, d))
            \/ Is("MOV_TO_SR", d) /\ Finish(do_mov_to_sr(d.next, d))
            \/ Is("POP_SR", d) /\ Finish(do_pop_sr(d.next, d))
            \/ Is("XLAT", d) /\ Finish(do_xlat(d.next, d))

Stack(d) == \/ Is("PUSH", d) /\ Finish(do_push(d.next, d))
            \/ Is("POP", d) /\ Finish(do_pop(d.next, d))
            \/ Is("PUSHA", d) /\ Finish(do_pusha(d.next, d))
            \/ Is("POPA", d) /\ Finish(do_popa(d.next, d))
            \/ Is("PUSHF", d) /\ Finish(do_pushf(d.next, d))
            \/ Is("POPF", d) /\ Finish(do_popf(d.next, d))
            \/ Is("ENTER", d) /\ Finish(do_enter(d.next, d))
            \/ Is("LEAVE", d) /\ Finish(do_leave(d.next, d))

FlagOps(d) == \/ Is("CLR_FLAG", d) /\ Finish(do_clear_flag(d.next, d))
              \/ Is("ST_FLAG", d) /\ Finish(do_set_flag(d.next, d))
              \/ Is("CMC", d) /\ Finish(do_cmc(d.next, d))
              \/ Is("SAHF", d) /\ Finish(do_sahf(d.next, d))
              \/ Is("LAHF", d) /\ Finish(do_lahf(d.next, d))

Control(d) == \/ Is("CALL_NEAR", d) /\ Finish(do_call_near(d.next, d))
              \/ Is("RETN", d) /\ Finish(i386_ret_near(d.next, d))
              \/ Is("JUMP", d) /\ Finish(do_near_jump(d.next, d))
              \/ Is("LOOP", d) /\ Finish(do_loop(d.next, d))

\* The answers of the host, and of its ports in LOCUTUS, which return nothing.
Host(d) == \E answer \in HostValues :
    \/ Is("INT_OP", d) /\ Finish(do_int(d.next, d, answer))
    \/ Is("IO_IN", d) /\ Finish(Write(d.next, d.dst, IF task.use32 THEN answer ELSE \hFC))

StringOnce(d) == Is("STRING_OP", d) /\ Finish(do_string(d.next, d.inst.sub, d.inst.flags))

\* do_rep_string, a step to begin and one for each test of ECX.
Repeat(d) ==
    /\ Is("REPEZ", d) \/ Is("REPNE", d)
    /\ m' = d.next
    /\ rep' = [sub |-> d.inst.sub, flags |-> d.inst.flags, repne |-> d.inst.op = "REPNE", on |-> TRUE]
    /\ UNCHANGED <<task, over, frames>>

RepeatRound ==
    /\ m.status = "runs" /\ rep.on /\ m.regs[ECX] # 0
    /\ LET s == do_string(m, rep.sub, rep.flags)
           t == IF s.status = "runs" THEN AddReg(s, ECX, -1) ELSE s
       IN IF s.status = "runs" /\ ~Broken(t)
            THEN m' = t /\ UNCHANGED <<task, over, frames, rep>>
            ELSE Finish(t)

RepeatEnd == m.status = "runs" /\ rep.on /\ m.regs[ECX] = 0 /\ Finish(m)

Undefined(d) ==
    /\ \/ d.stuck
       \/ d.inst.op \in {"INVALID", "UNARY", "CALL_FAR", "LD_FP", "RETF", "IRET", "IO_OUT",
                         "JUMP_FAR", "MULTIPLEXED_FF"} \cup PrefixOps \cup {"EXTENDED"}
    /\ Finish(Hang(d.next))

Execute ==
    /\ AtInstruction
    /\ ~AtPrefix
    /\ \E d \in {Decode(m)} :
         \/ Arithmetic(d) \/ Moves(d) \/ Stack(d) \/ FlagOps(d) \/ Control(d)
         \/ Host(d) \/ StringOnce(d) \/ Repeat(d) \/ Undefined(d)

Next == Prefix \/ Execute \/ RepeatRound \/ RepeatEnd

Spec == Init /\ [][Next]_vars

\* What the prefixes of an instruction set is gone when the next one begins,
\* however many there were: each call of i386_step takes back its own (run386.c:1451-1475).
OverridesEnd ==
    frames = {} => /\ op_override = 0 /\ addr_override = 0
                   /\ sgmt_override = DS /\ overriding_sgmt = 0

\* A segment's base is sixteen times its selector: no instruction loads the
\* one without the other (load_seg_reg, run386.c:661).
RealModeBases ==
    \A sr \in 0 .. 7 : m.segs[sr].base = 16 * m.segs[sr].selector
=============================================================================
