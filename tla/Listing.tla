------------------------------- MODULE Listing -------------------------------
(***************************************************************************)
(* The trace of LOCUTUS (Exec32): each instruction is disassembled, then   *)
(* stepped.  What the listing says of an instruction is compared with what *)
(* the CPU core decodes; executing it is left to I386.                     *)
(***************************************************************************)
EXTENDS I386Decode, Dis386

\* A Mod R/M byte at e, and the SIB byte behind one that has it.
AddressAt(code, e) ==
    /\ code[e + 1] \in 0 .. 255
    /\ code[e + 1] % 8 = 4 /\ code[e + 1] < 192 => code[e + 2] \in 0 .. 255

\* An instruction is some prefixes, an opcode of one byte or two, what says
\* where its operands are, and numbers.  It has its place in the address space,
\* with all of its prefixes.
ASSUME LinesAssumption ==
    \A t \in Tasks :
      LET n == Len(t.prefix)
          first == InstructionTable(t.opcode)
      IN /\ t.prefix \in Seq(0 .. 255) /\ n + 16 < W(4)
         /\ \A i \in 1 .. n : InstructionTable(t.prefix[i]).op \in DisPrefixes
         /\ t.opcode \in 0 .. 255 /\ first.op \notin DisPrefixes
         /\ t.use32 \in BOOLEAN
         /\ t.code \in Seq(Nat) /\ Len(t.code) >= n + 4
         /\ \A i \in 1 .. n : t.code[i] = t.prefix[i]
         /\ t.code[n + 1] = t.opcode /\ t.code[n + 2] = t.modrm
         /\ "MODRM" \in first.flags => AddressAt(t.code, n + 1)
         /\ first.op = "EXTENDED" => t.modrm \in 0 .. 255 /\ AddressAt(t.code, n + 2)

VARIABLES
    listed,     \* the line shown, or NoLine
    fetched     \* the instruction decoded, or NoInstruction

listVars == <<vars, listed, fetched>>

NoLine == [on |-> FALSE]
NoInstruction == [on |-> FALSE]

Init ==
    /\ task \in Tasks
    /\ m = [regs |-> [r \in 0 .. 7 |-> 0], flags |-> {}, eip |-> 0, old_eip |-> 0,
            segs |-> [sr \in 0 .. 7 |-> [selector |-> 0, base |-> 0]],
            mem |-> [a \in 0 .. MemSize - 1 |-> 0], screen |-> <<>>, status |-> "runs"]
    /\ NoOverride
    /\ rep = NoRep
    /\ listed = NoLine /\ fetched = NoInstruction

\* dis386 with the sizes of the segment, as LOCUTUS and ICEMAN's `u' call it.
List ==
    /\ ~listed.on
    /\ listed' = [on |-> TRUE, line |-> dis386(task.code, m.eip, task.use32, task.use32)]
    /\ UNCHANGED <<vars, fetched>>

StepPrefix ==
    /\ listed.on /\ ~fetched.on
    /\ Prefix
    /\ UNCHANGED <<listed, fetched>>

\* Mutation of Fetch: the instruction is stepped before it is listed.
FetchUnlisted ==
    /\ ~fetched.on
    /\ ~AtPrefix
    /\ fetched' = [on |-> TRUE, d |-> Decode(m)]
    /\ UNCHANGED <<vars, listed>>

\* i386_step up to the execution of the instruction.
Fetch ==
    /\ listed.on /\ ~fetched.on
    /\ ~AtPrefix
    /\ fetched' = [on |-> TRUE, d |-> Decode(m)]
    /\ UNCHANGED <<vars, listed>>

Next == List \/ StepPrefix \/ Fetch

Spec == Init /\ [][Next]_listVars

----------------------------------------------------------------------------
(* What the listing says, against what the core decodes *)

\* What the prefixes met so far may have set (i386_step, run386.c:1440-1490);
\* the instruction is decoded once it has been listed.
TypeOK ==
    /\ m.eip \in 0 .. Len(task.prefix)
    /\ {op_override, addr_override, overriding_sgmt} \subseteq {0, 1}
    /\ sgmt_override \in 0 .. 5
    /\ frames \subseteq PrefixOps
    /\ fetched.on => listed.on

How(i) == InstructionTable(task.prefix[i]).op

Count(ops) == Cardinality({i \in DOMAIN task.prefix : How(i) \in ops})

\* Prefixes that the two programs take differently: one that is there twice,
\* a segment, which changes the size of addresses in a listing, and another
\* prefix or 0Fh behind a repetition, which the core takes for the instruction.
Misread ==
    \/ Count({"OP_SZ_OVERRIDE"}) > 1
    \/ Count({"ADDR_SZ_OVERRIDE"}) > 1
    \/ Count({"SEGMENT_OVERRIDE"}) > 0
    \/ \E i \in DOMAIN task.prefix :
         /\ How(i) \in {"REPEZ", "REPNE"}
         /\ i < Len(task.prefix) \/ InstructionTable(task.opcode).op = "EXTENDED"

\* TEST with an immediate in 0xF6 and 0xF7, and far pointers, take bytes that
\* the listing leaves for the next line.
Shorter(d) ==
    \/ d.inst.op = "ALU_SPECIAL" /\ d.inst.src2.type = "IMM" /\ task.opcode \in {\hF6, \hF7}
    \/ d.inst.src1.type = "FAR_PTR" /\ RealSize(d.inst.src1.size) = 4

\* An instruction takes as many bytes in the listing as the core takes for it,
\* but for what is said above: the next line of the listing is the next
\* instruction (dis.c:342-392, run386.c:1440-1518; ICEMAN adds up the lengths,
\* iceman.c:351).
LinesFollow ==
    fetched.on /\ ~Misread =>
        (listed.line.end = fetched.d.next.eip) = ~Shorter(fetched.d)

\* A jump or call is listed with the address it goes to.
TargetsListed ==
    fetched.on /\ ~Misread /\ fetched.d.inst.src1.type = "IP_REL" =>
        listed.line.src1 = fetched.d.src1.id

\* An immediate is listed as the core takes it when the other operand is a
\* register.  Behind the bytes of an address it is not, nor is the second one
\* of ENTER: the listing reads every operand from the place behind the Mod R/M
\* byte (dis.c:390-392).
ImmediatesListed ==
    LET d == fetched.d
        register == "MODRM" \in d.inst.flags => task.modrm \div 64 = 3
    IN fetched.on /\ ~Misread /\ register /\ ~Shorter(d) /\ task.opcode # \hC8
       /\ d.inst.src2.type \in {"IMM", "SIMM"} => listed.line.src2 = d.src2.id

\* An instruction with each of its prefixes once has a place in the sixteen
\* bytes of a step_pkt: the TRACE command copies old_eip - eip of them
\* (main.c:417-423, cmd.h:16).
TraceFits ==
    fetched.on /\ (\A i, j \in DOMAIN task.prefix : How(i) = How(j) => i = j) =>
        fetched.d.next.old_eip <= 16
=============================================================================
