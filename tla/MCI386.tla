------------------------------ MODULE MCI386 ------------------------------
(***************************************************************************)
(* Programs for the CPU core, and what each must have done when it exits.  *)
(* A byte has five bits here, a dword twenty.  Code is written as bytes;   *)
(* an immediate of two or four bytes is its value followed by zeros.       *)
(***************************************************************************)
EXTENDS I386

CONSTANT Digits   \* bytes that make carries and borrows

\* The order of the flags in eflags, without the gaps between them.
FlagOrder == <<"CF", "PF", "AF", "ZF", "SF", "TF", "IF", "DF", "OF">>
MCFlagBit == [f \in Flags |-> (CHOOSE i \in 1 .. Len(FlagOrder) : FlagOrder[i] = f) - 1]

Exit == <<\hCD, \h20>>

\* An immediate of n bytes.
Wide(n, v) == [i \in 1 .. n |-> IF i = 1 THEN v ELSE 0]

NoRegs == [r \in 0 .. 7 |-> 0]
Flat == [sr \in 0 .. 5 |-> 0]
NoData == [a \in 0 .. MemSize - 1 |-> 0]

Data(at, seq) ==
    [a \in 0 .. MemSize - 1 |-> IF a - at + 1 \in DOMAIN seq THEN seq[a - at + 1] ELSE 0]

Task(kind, info, code, regs, flags, segs, mem, use32) ==
    [kind |-> kind, info |-> info, code |-> code, regs |-> regs, flags |-> flags,
     segs |-> segs, mem |-> mem, use32 |-> use32]

Ended(kind) == m.status # "runs" /\ task.kind = kind

Plain16(kind, info, code, regs) == Task(kind, info, code \o Exit, regs, {}, Flat, NoData, FALSE)

----------------------------------------------------------------------------
(* Compare and jump: CMP AL,imm8, CMP AX,BX or CMP EAX,EBX; Jcc over MOV CL,0 *)

Edges(n) == {0, 1, W(n) \div 2 - 1, W(n) \div 2, W(n) \div 2 + 1, W(n) - 1}

Comparison(n, a, b, cc, code) ==
    Task("compare", <<n, a, b, cc>>, code \o <<\h70 + cc, 2, \hB1, 0>> \o Exit,
         [NoRegs EXCEPT ![EAX] = a, ![EBX] = b, ![ECX] = 1], {}, Flat, NoData, n = 4)

Conditions == 0 .. 15 \ {10, 11}

CompareBytes ==
    {Comparison(1, a, b, cc, <<\h3C, b>>) : a, b \in Edges(1), cc \in Conditions}

CompareWide ==
    UNION {{Comparison(n, a, b, cc, <<\h39, \hD8>>) :
            a, b \in Edges(n), cc \in Conditions} : n \in {2, 4}}

\* What the name of a condition says of the numbers compared.  No dword is
\* below another: SetCF32 tests a bit that a uint32_t does not have (i386.h:1111).
Meaning(n, a, b, cc) ==
    LET x == SX(n, a)
        y == SX(n, b)
        holds == CASE cc \div 2 = 0 -> SX(n, x - y) # x - y
                   [] cc \div 2 = 1 -> n # 4 /\ a < b
                   [] cc \div 2 = 2 -> a = b
                   [] cc \div 2 = 3 -> a = b \/ (n # 4 /\ a < b)
                   [] cc \div 2 = 4 -> SX(n, x - y) < 0
                   [] cc \div 2 = 6 -> x < y
                   [] cc \div 2 = 7 -> x <= y
    IN holds = (cc % 2 = 0)

Taken == GetReg(m, 1, ECX) = 1

\* A conditional jump after a comparison is taken exactly when the numbers
\* compared are in the relation its name says, signed or unsigned: the flag
\* macros of i386.h, do_alu_op and jump_condition (run386.c:368, 496) agree.
\* For the unsigned jumps that ends with words: a dword is never below another,
\* so that JB and JAE never depend on it, and JBE and JA are JE and JNE.
BranchTells ==
    Ended("compare") =>
        LET i == task.info
        IN m.status = "exits" /\ Taken = Meaning(i[1], i[2], i[3], i[4])

----------------------------------------------------------------------------
(* Numbers longer than the CPU's, byte by byte: the carry from a round to the next *)

\* CLC or STC; LODSB; ADC or SBB [DI],AL; INC DI; DEC CX; JNZ -7
LongSums ==
    {Task("sum", <<add, x1 + W(1) * x2, y1 + W(1) * y2, c>>,
          <<\hF8 + c, \hAC, IF add THEN \h10 ELSE \h18, \h05, \h47, \h49, \h75, Byte - 7>> \o Exit,
          [NoRegs EXCEPT ![ESI] = 8, ![EDI] = 16, ![ECX] = 2], {}, Flat,
          [NoData EXCEPT ![8] = x1, ![9] = x2, ![16] = y1, ![17] = y2], FALSE) :
     add \in BOOLEAN, x1, x2, y1, y2 \in Digits, c \in {0, 1}}

\* SHL AL,1; ADC AH,AH: twice AX.
Doublings ==
    {Task("sum", <<TRUE, a, a, 0>>, <<\hD0, \hE0, \h10, \hE4, \hA3, 16, 0>> \o Exit,
          [NoRegs EXCEPT ![EAX] = a], {}, Flat, NoData, FALSE) :
     a \in {x1 + W(1) * x2 : x1, x2 \in Digits}}

\* A sum or difference made byte by byte is the one of the whole numbers, and
\* leaves the carry or borrow of the whole: what LODS, INC, DEC and Jcc do
\* between two rounds leaves CF alone (do_alu_op, do_incdec, do_shift).
CarryTravels ==
    Ended("sum") =>
        LET i == task.info
            exact == IF i[1] THEN i[3] + i[2] + i[4] ELSE i[3] - i[2] - i[4]
        IN /\ m.status = "exits"
           /\ Load(m, 2, 16) = exact % W(2)
           /\ ("CF" \in m.flags) = (exact \notin 0 .. W(2) - 1)

----------------------------------------------------------------------------
(* DIV or IDIV by BL or BX; save the remainder in CX; MUL or IMUL by BL or BX *)

Dividends(n) == {0, 7, W(n) - 1, W(n), W(2 * n) \div 2, W(2 * n) - 1, W(2 * n) - 7}

Division(n, signed, a, b) ==
    Plain16("divide", <<n, signed, a, b>>,
            (IF n = 1 THEN <<\hF6, IF signed THEN \hFB ELSE \hF3, \h88, \hE1, \hF6, IF signed THEN \hEB ELSE \hE3>>
                      ELSE <<\hF7, IF signed THEN \hFB ELSE \hF3, \h89, \hD1, \hF7, IF signed THEN \hEB ELSE \hE3>>),
            [NoRegs EXCEPT ![EAX] = a % W(2), ![EDX] = a \div W(2), ![EBX] = b])

Divisions ==
    UNION {{Division(n, signed, a, b) : signed \in BOOLEAN, a \in Dividends(n), b \in {0, 1, 3, W(n) - 1, W(n) - 2}} :
           n \in {1, 2}}

\* Dividing and multiplying back gives the dividend when the quotient has a
\* place: do_alu_special puts quotient, remainder and the halves of a product
\* where the other operations look for them, with the signs of the operands.
\* Zero for a divisor stops the host itself.
DividesBack ==
    Ended("divide") =>
        LET n == task.info[1]
            Value(size, v) == IF task.info[2] THEN SX(size, v) ELSE v
            a == Value(2 * n, task.info[3])
            b == Value(n, task.info[4])
            r == Value(n, GetReg(m, n, ECX))
            product == GetReg(m, n, EAX) + W(n) * GetReg(m, n, IF n = 1 THEN 4 ELSE EDX)
            fits == b # 0 /\ Quotient(a, b) \in IF task.info[2] THEN -(W(n) \div 2) .. W(n) \div 2 - 1
                                                              ELSE 0 .. W(n) - 1
        IN /\ b = 0 => m.status = "faults"
           /\ fits => /\ m.status = "exits" /\ Value(2 * n, product) + r = a
                      /\ r * r < b * b
                      /\ r # 0 => (r < 0) = (a < 0)

----------------------------------------------------------------------------
(* Copies: [STD] [66] [ES:] REP MOVS, forwards and backwards, also onto itself *)

Marks == [a \in 0 .. MemSize - 1 |-> (7 * a + a \div 32) % Byte]

\* DS and ES at paragraphs 1 and 0; `from' and `to' are the lowest addresses.
Copy(n, use32, down, es, from, to, count) ==
    LET last == IF down /\ count > 0 THEN (count - 1) * n ELSE 0
        prefix == (IF down THEN <<\hFD>> ELSE <<>>)
                  \o (IF n = (IF use32 THEN 2 ELSE 4) THEN <<\h66>> ELSE <<>>)
                  \o (IF es THEN <<\h26>> ELSE <<>>)
    IN Task("copy", <<n, from, to, count>>,
            prefix \o <<\hF3, IF n = 1 THEN \hA4 ELSE \hA5>> \o Exit,
            [NoRegs EXCEPT ![ECX] = count, ![ESI] = from - (IF es THEN 0 ELSE 16) + last, ![EDI] = to + last],
            {}, [Flat EXCEPT ![DS] = 1], Marks, use32)

\* Forwards when the copy lies below, backwards when it lies above.
Copies ==
    {Copy(n, use32, d > 0, es, 24, 24 + d, count) :
        n \in {1, 2, 4}, use32 \in BOOLEAN, es \in BOOLEAN, d \in {-3, -20, 1, 20}, count \in {0, 1, 3}}

\* A repeated MOVS has moved every byte as it was before, changed no other,
\* and counted ECX down to zero, also when the two blocks overlap and the
\* direction is the one that allows it (run386.c:850, 891).
CopiesAll ==
    Ended("copy") =>
        LET n == task.info[1]
            from == task.info[2]
            to == task.info[3]
            bytes == n * task.info[4]
        IN /\ m.status = "exits" /\ m.regs[ECX] = 0
           /\ \A a \in 0 .. MemSize - 1 :
                m.mem[a] = IF a \in to .. to + bytes - 1 THEN task.mem[a - to + from] ELSE task.mem[a]

----------------------------------------------------------------------------
(* Searches for a byte, three ways, and what REPNE makes of the others *)

Wanted == 9

\* REPNE SCASB; JECXZ-guarded LODSB, CMP AL,9, LOOPNE; a copy of the text
\* compared by REPE CMPSB up to the first difference; REPNE before MOVSB, STOSB
\* and LODSB, which look for nothing.
SearchCode(way) ==
    CASE way = "SCAS" -> <<\hF2, \hAE>>
      [] way = "LOOP" -> <<\hE3, 5, \hAC, \h3C, Wanted, \hE0, Byte - 5>>
      [] way = "CMPS" -> <<\hF3, \hA6>>
      [] way = "MOVS" -> <<\hF2, \hA4>>
      [] way = "STOS" -> <<\hF2, \hAA>>
      [] way = "LODS" -> <<\hF2, \hAC>>

Search(way, text, count) ==
    Plain16("search", <<way, text, count>>, SearchCode(way),
            [NoRegs EXCEPT ![EAX] = Wanted, ![ECX] = count, ![ESI] = 8, ![EDI] = 16])

\* The text is where the way looks for it; what CMPS compares differs where it has a hit.
SearchTask(way, text, count) ==
    [Search(way, text, count) EXCEPT
        !.mem = CASE way = "SCAS" -> Data(16, text)
                  [] way = "LOOP" -> Data(8, text)
                  [] way = "CMPS" -> [a \in 0 .. MemSize - 1 |->
                        IF a - 7 \in DOMAIN text /\ text[a - 7] = Wanted THEN 1 ELSE 0]]

Searches ==
    {SearchTask(way, text, count) :
        way \in {"SCAS", "LOOP", "CMPS"}, text \in [1 .. 3 -> {Wanted, 2}], count \in 0 .. 3}

\* The zero flag of some instruction before.
Unasked ==
    {[Search(way, <<>>, count) EXCEPT !.flags = flags] :
        way \in {"MOVS", "STOS", "LODS"}, count \in 0 .. 3, flags \in {{}, {"ZF"}}}

\* A search stops behind the first byte it is looking for, or at the end of
\* the count: ECX holds what was not looked at, and the pointer has moved with
\* it (do_scas, do_cmps, do_rep_string, do_loop, run386.c:812, 828, 891, 696).
\* REPNE before an instruction that looks for nothing stops behind the first
\* round if the zero flag was set before it, and at the end of the count if not.
SearchStops ==
    Ended("search") =>
        LET way == task.info[1]
            text == task.info[2]
            count == task.info[3]
            hits == {i \in 1 .. count : IF text = <<>> THEN "ZF" \in task.flags ELSE text[i] = Wanted}
            seen == IF hits = {} THEN count ELSE Min(hits)
        IN /\ m.status = "exits"
           /\ m.regs[ECX] = count - seen
           /\ way \notin {"LOOP", "LODS"} => m.regs[EDI] = 16 + seen
           /\ way \notin {"SCAS", "STOS"} => m.regs[ESI] = 8 + seen
           /\ count > 0 => ("ZF" \in m.flags) = ((hits # {}) = (way # "CMPS"))

----------------------------------------------------------------------------
(* A call with a frame: everything saved, an argument pushed, a callee that    *)
(* spoils what it can, everything restored                                    *)

\* PUSHF; PUSHA; PUSH DS; PUSH arg; CALL callee; POP DS; POPA; POPF; and the
\* callee: ENTER 2,0; MOV BX,arg; MOV DS,BX; MOV AX,0E00h+BL; STC; STD; INT 10h;
\* POP CX; MOV DI,AX; LEAVE; RET with the argument off the stack.
FrameCode(use32, arg) ==
    LET n == IF use32 THEN 4 ELSE 2
        callee == <<\hC8, 2, 0, 0, \h8B, IF use32 THEN \h5D ELSE \h5E, 2 * n, \h8E, \hDB,
                    \hB4, \h0E, \h88, \hD8, \hF9, \hFD, \hCD, \h10, \h59, \h89, \hC7, \hC9, \hC2, n, 0>>
    IN <<\h9C, \h60, \h1E, \h6A, arg, \hE8>> \o Wide(n, 5) \o <<\h1F, \h61, \h9D>> \o Exit \o callee

Frames ==
    {Task("frame", arg, FrameCode(use32, arg),
          [r \in 0 .. 7 |-> IF r = ESP THEN 40 ELSE (4321 * r + 77) % W(4)], flags,
          [Flat EXCEPT ![SS] = 1, ![DS] = 2], Marks, use32) :
     use32 \in BOOLEAN, arg \in {0, 7}, flags \in {{}, {"CF", "DF"}, Flags}}

\* What was saved on the stack is there again behind the call, whatever the
\* callee did with registers, flags and segments, and the callee has found its
\* argument above the frame pointer: PUSHF to POPF, PUSHA to POPA, ENTER to
\* LEAVE and CALL to RET take off what they put on (run386.c:562-634, 677, 683, 1341).
FrameKept ==
    Ended("frame") =>
        /\ m.status = "exits"
        /\ m.flags = task.flags
        /\ \A r \in 0 .. 7 : m.regs[r] % W(StackSize) = task.regs[r] % W(StackSize)
        /\ m.regs[ESP] = task.regs[ESP]
        /\ \A sr \in 0 .. 5 : m.segs[sr].selector = task.segs[sr]
        /\ m.screen = <<task.info>>

----------------------------------------------------------------------------
(* Loads through segments, with and without overrides *)

\* Paragraphs 0 to 3 belong to ES, CS, SS and DS; a byte tells its address.
Tags == [a \in 0 .. MemSize - 1 |-> 8 * (a \div 16) + (a % 8)]
Paragraph == [sr \in 0 .. 5 |-> sr % 4]
Pointers == [NoRegs EXCEPT ![EBX] = 3, ![ESP] = 2, ![EBP] = 4, ![ESI] = 5, ![EDI] = 6]

\* A way to load CL or AL: its bytes, the offset it means and the segment it takes by itself.
Way(wide, bytes, offset, sr) == [wide |-> wide, bytes |-> bytes, offset |-> offset, sr |-> sr]

Ways ==
    {Way(FALSE, <<\h8A, \h0F>>, 3, DS), Way(FALSE, <<\h8A, \h09>>, 9, DS),
     Way(FALSE, <<\h8A, \h0A>>, 9, SS), Way(FALSE, <<\h8A, \h4E, Byte - 1>>, 3, SS),
     Way(FALSE, <<\h8A, \h0E, 7, 0>>, 7, DS), Way(FALSE, <<\h8A, \h8C, 2, 0>>, 7, DS),
     Way(TRUE, <<\h8A, \h0B>>, 3, DS), Way(TRUE, <<\h8A, \h4D, 1>>, 5, SS),
     Way(TRUE, <<\h8A, \h0D, 7, 0, 0, 0>>, 7, DS), Way(TRUE, <<\h8A, \h0C, \h24>>, 2, SS),
     Way(TRUE, <<\h8A, \h8C, \h5D, 1, 0, 0, 0>>, 11, SS), Way(TRUE, <<\h8A, \h0C, \h1D, 2, 0, 0, 0>>, 5, DS)}
    \cup {Way(wide, <<\hAC, \h88, \hC1>>, 5, DS) : wide \in BOOLEAN}
    \cup {Way(wide, <<\hD7, \h88, \hC1>>, 3, DS) : wide \in BOOLEAN}
    \cup {Way(wide, <<\hA0, 6, 0>> \o (IF wide THEN <<0, 0>> ELSE <<>>) \o <<\h88, \hC1>>, 6, DS) : wide \in BOOLEAN}

\* The override, none for -1, before or behind the address size; then, without
\* an override, MOV CH,[BX] or MOV CH,[EBX].
SegmentLoad(way, override, use32, behind) ==
    LET size == IF way.wide # use32 THEN <<\h67>> ELSE <<>>
        seg == IF override = -1 THEN <<>> ELSE <<<<\h26, \h2E, \h36, \h3E, \h64>>[override + 1]>>
        prefixes == IF behind THEN size \o seg ELSE seg \o size
    IN Task("load", <<16 * Paragraph[IF override = -1 THEN way.sr ELSE override] + way.offset,
                      16 * Paragraph[DS] + 3>>,
            prefixes \o <<\hF0>> \o way.bytes \o <<\h8A, IF use32 THEN \h2B ELSE \h2F>> \o Exit,
            Pointers, {}, Paragraph, Tags, use32)

SegmentLoads ==
    {SegmentLoad(way, override, use32, behind) :
        way \in Ways, override \in -1 .. 4, use32 \in BOOLEAN, behind \in BOOLEAN}

\* A load goes through the segment of its override, and without one through
\* SS for the frame and stack pointers and DS for the others, whatever the
\* order of the prefixes; the next instruction has none of them left
\* (decode_rm_16, decode_rm_32, decode_operand, i386_step; run386.c:1058-1339, 1467).
LoadsThrough ==
    Ended("load") =>
        /\ m.status = "exits"
        /\ GetReg(m, 1, ECX) = task.mem[task.info[1]]
        /\ GetReg(m, 1, 5) = task.mem[task.info[2]]

----------------------------------------------------------------------------
(* Printing, the other services, and what there is no program for above *)

\* MOV AH,9; INT 21h, with DX at the text.
Prints ==
    {[Plain16("print", at, <<\hB4, 9, \hCD, \h21>>, [NoRegs EXCEPT ![EDX] = at]) EXCEPT
        !.mem = [a \in 0 .. MemSize - 1 |-> IF a \in ends THEN Dollar ELSE 5 + (a % 8)]] :
     at \in {3, 7, W(2) - 2}, ends \in {{}, {3}, {7, 9}, {5}}}

\* INT 21h/09h prints the bytes from DX, wrapped at 64K, up to the first '$',
\* and without one for ever (run386.c:979-985).
PrintsText ==
    Ended("print") =>
        LET Char(k) == task.mem[((task.info + k) % W(2)) % MemSize]
            Text(n) == Char(n) = Dollar /\ \A k \in 0 .. n - 1 : Char(k) # Dollar
        IN IF m.status = "exits"
             THEN Text(Len(m.screen)) /\ \A k \in 1 .. Len(m.screen) : m.screen[k] = Char(k - 1)
             ELSE \A a \in 0 .. MemSize - 1 : task.mem[a] # Dollar

\* Every one ends by itself or at an instruction the core does not have.
TourCode ==
    {<<\h8D, \h70, 3, \h93, \h87, \hF7, \hF5, \hE4, 1, \h98, \h99, \h9F, \h9E, \hFA, \hFB, \hFC, \h90, \hEB, 0>>,
     <<\h6B, \hC3, 2, \h0F, \hAF, \hC3, \hA8, 1, \hF6, \hC3, 1, \hF6, \hD3, \hF7, \hDB, \hD1, \hE8, \hFE, \hC0>>,
     <<\hFF, \hF0, \h8F, \hC1, \h50, \h58, \hAA, \hAD, \hA6, \hAE, \hA4, \hB1, 3, \hE1, 0, \h8C, \hD8>>,
     <<\h66, \h60, \h66, \h61, \h66, \h9C, \h66, \h9D, \h66, \h98, \h66, \h99, \hC1, \hE0, 2, \hD3, \hE0>>,
     <<\h0A, \hC3, \h22, \hC3, \h32, \hC3, \h9B>>, <<\hC8, 2, 0, 0, \hC9, \hC8, 2, 0, 0, \hC9, \hD1, \hC0>>}
    \cup {<<\hB4, fn, \hB0, \h13, \hCD, vector>> : fn \in {0, 2, 9, 14, 15}, vector \in {\h10, \h16, \h1A, \h80, \h21, \h33}}
    \cup {<<\h27>>, <<\h8E, \hF3, \h8C, \hF1>>, <<\hFF, \hD8>>, <<\hFF, \hF8>>, <<\h8D, \hC0>>, <<\hF6, \hC8>>, <<\h6C>>, <<\hE6, 1>>, <<\hF3, \h26, \hA4>>, <<\hF3, \h0A, \hC3>>}

Tours ==
    {Task("tour", 0, code \o Exit, [NoRegs EXCEPT ![ESP] = 32, ![EBX] = 3, ![ECX] = 2], {}, Flat, Tags, use32) :
        code \in TourCode, use32 \in BOOLEAN}

----------------------------------------------------------------------------
MCTasks ==
    CompareBytes \cup CompareWide \cup LongSums \cup Doublings \cup Divisions \cup Copies
    \cup Searches \cup Unasked \cup Frames \cup SegmentLoads \cup Prints \cup Tours
=============================================================================
