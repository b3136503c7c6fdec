--------------------------- MODULE IceDebugProofs ---------------------------
(***************************************************************************)
(* What holds of a debugging session for every program, every breakpoint   *)
(* table, every pipe and every user.                                       *)
(***************************************************************************)
EXTENDS IceDebug, SequenceTheorems, TLAPS

----------------------------------------------------------------------------
\* The emulator thread is past its test of `running` and may end one more
\* instruction before it looks again.
PastTheTest == emu \in {"check", "exec"}

(***************************************************************************)
(* The inductive invariant.  When `running` is cleared behind the back of  *)
(* the emulator thread, the one instruction it may still end has to be     *)
(* counted before it ends, or the bound would not survive EmuExec.         *)
(***************************************************************************)
StragglerInv ==
    /\ after \in Nat
    /\ running => after = 0
    /\ ~running => (after = 0 \/ (after = 1 /\ ~PastTheTest))

\* A step that touches neither the CPU nor the place of the emulator thread.
LEMMA CpuUntouched ==
    ASSUME StragglerInv, UNCHANGED <<running, after, emu>>
    PROVE  StragglerInv'
BY DEF StragglerInv, PastTheTest

\* The emulator thread goes round the loop of Exec386Subroutine_Near32.
LEMMA EmulatorStep ==
    ASSUME StragglerInv, Emulator
    PROVE  StragglerInv'
<1>. USE DEF StragglerInv, PastTheTest, cpuVars
<1>1. CASE EmuCreate
    BY <1>1 DEF EmuCreate
<1>2. CASE EmuPark
    BY <1>2 DEF EmuPark
<1>3. CASE EmuAlloc \/ EmuLoad
    BY <1>3 DEF EmuAlloc, EmuLoad
<1>4. CASE EmuTop
    BY <1>4 DEF EmuTop
<1>5. CASE EmuExit
    BY <1>5 DEF EmuExit
<1>6. CASE EmuSpin
    BY <1>6 DEF EmuSpin
<1>7. CASE EmuHit
    BY <1>7 DEF EmuHit
<1>8. CASE EmuFetch
    BY <1>8 DEF EmuFetch
<1>9. CASE EmuExec
    BY <1>9 DEF EmuExec
<1>10. CASE EmuReport
    BY <1>10 DEF EmuReport
<1>11. CASE EmuClear
    BY <1>11 DEF EmuClear
<1>. QED
    BY <1>1, <1>2, <1>3, <1>4, <1>5, <1>6, <1>7, <1>8, <1>9, <1>10, <1>11 DEF Emulator

\* The ICE thread writes `running` while the emulator thread is anywhere.
LEMMA IceThreadStep ==
    ASSUME StragglerInv, IceThread
    PROVE  StragglerInv'
<1>1. CASE IceGo
    BY <1>1, CpuUntouched DEF IceGo, emuVars
<1>2. CASE IceRun
    BY <1>2 DEF IceRun, emuVars, StragglerInv, PastTheTest
<1>3. CASE IceBreak
    BY <1>3 DEF IceBreak, emuVars, StragglerInv, PastTheTest
<1>4. CASE IceTraced
    BY <1>4, CpuUntouched DEF IceTraced, emuVars
<1>5. CASE \/ IceConnect \/ IceRead \/ IceDisconnect \/ IceCsip \/ IceTrace \/ IceQuery
           \/ IceSetBP \/ IceUnsetBP \/ IceDefault \/ IceWrite
    BY <1>5, CpuUntouched
       DEF IceConnect, IceRead, IceDisconnect, IceCsip, IceTrace, IceQuery, IceSetBP,
           IceUnsetBP, IceDefault, IceWrite, cpuVars, emuVars
<1>6. CASE IceFault
    BY <1>6 DEF IceFault, cpuVars, StragglerInv, PastTheTest
<1>. QED
    BY <1>1, <1>2, <1>3, <1>4, <1>5, <1>6 DEF IceThread

\* No thread of MAVERICK ends more than one instruction on the emulator
\* thread after `running` was cleared, whoever cleared it and however the
\* two threads and the debugger are interleaved.
THEOREM AtMostOneStraggler ==
    Spec => []OneStraggler
<1>1. Init => StragglerInv
    BY DEF Init, MavInit, StragglerInv
<1>2. StragglerInv /\ [Next]_vars => StragglerInv'
    <2>. SUFFICES ASSUME StragglerInv, [Next]_vars
                  PROVE  StragglerInv'
        OBVIOUS
    <2>1. CASE MavStep
        BY <2>1, EmulatorStep, IceThreadStep DEF MavStep
    <2>2. CASE CliStep
        BY <2>2, CpuUntouched DEF CliStep, mavVars, cpuVars, emuVars
    <2>3. CASE UNCHANGED vars
        BY <2>3, CpuUntouched DEF vars, mavVars, cpuVars, emuVars
    <2>. QED
        BY <2>1, <2>2, <2>3 DEF Next
<1>3. StragglerInv => OneStraggler
    BY DEF StragglerInv, OneStraggler
<1>. QED
    BY <1>1, <1>2, <1>3, PTL DEF Spec

----------------------------------------------------------------------------
(***************************************************************************)
(* Words and pipe operations.                                              *)
(***************************************************************************)

\* The sizes of the replies.
LEMMA ReplySizes ==
    /\ ReplyWords["hit"] = 2 /\ ReplyWords["brk"] = 2 /\ ReplyWords["step"] = 7
    /\ ReplyWords["list"] = 12 /\ ReplyWords["regs"] = 68 /\ ReplyWords["idx"] = 1
    /\ HitKind = "hit" /\ BrkKind = "brk"
    /\ \A n \in Nat : MemoryWords(n) = 4 * n
BY DEF ReplyWords, HitKind, BrkKind, MemoryWords

LEMMA KindNames ==
    Kinds = {"hit", "brk", "step", "list", "regs", "idx", "mem"}
BY DEF Kinds, ReplyWords

\* A reply of n words is a sequence of that length.
LEMMA WordsAreWire ==
    ASSUME NEW k \in Kinds, NEW n \in Nat
    PROVE  Words(k, n) \in Seq(Wire) /\ Len(Words(k, n)) = n
<1>1. \A i \in 1 .. n : <<k, i>> \in Wire
    BY DEF Wire
<1>2. Words(k, n) \in [1 .. n -> Wire]
    BY <1>1 DEF Words
<1>. QED
    BY <1>2

LEMMA RepliesAreWire ==
    /\ Reply(HitKind) \in Seq(Wire) /\ Len(Reply(HitKind)) = 2
    /\ Reply(BrkKind) \in Seq(Wire) /\ Len(Reply(BrkKind)) = 2
    /\ Reply("step") \in Seq(Wire) /\ Len(Reply("step")) = 7
    /\ Reply("list") \in Seq(Wire) /\ Len(Reply("list")) = 12
    /\ Reply("regs") \in Seq(Wire) /\ Len(Reply("regs")) = 68
    /\ Reply("idx") \in Seq(Wire) /\ Len(Reply("idx")) = 1
<1>1. /\ Reply("hit") = Words("hit", 2) /\ Reply("brk") = Words("brk", 2)
      /\ Reply("step") = Words("step", 7) /\ Reply("list") = Words("list", 12)
      /\ Reply("regs") = Words("regs", 68) /\ Reply("idx") = Words("idx", 1)
    BY DEF Reply, ReplyWords
<1>2. /\ "hit" \in Kinds /\ "brk" \in Kinds /\ "step" \in Kinds
      /\ "list" \in Kinds /\ "regs" \in Kinds /\ "idx" \in Kinds
    BY KindNames
<1>3. ASSUME NEW k \in Kinds
      PROVE  /\ Words(k, 2) \in Seq(Wire) /\ Len(Words(k, 2)) = 2
             /\ Words(k, 7) \in Seq(Wire) /\ Len(Words(k, 7)) = 7
             /\ Words(k, 12) \in Seq(Wire) /\ Len(Words(k, 12)) = 12
             /\ Words(k, 68) \in Seq(Wire) /\ Len(Words(k, 68)) = 68
             /\ Words(k, 1) \in Seq(Wire) /\ Len(Words(k, 1)) = 1
    BY WordsAreWire
<1>. QED
    BY <1>1, <1>2, <1>3 DEF HitKind, BrkKind

\* A read of n words splits what is in the pipe.
LEMMA SplitWords ==
    ASSUME NEW s \in Seq(Wire), NEW n \in Nat
    PROVE  /\ First(s, n) \in Seq(Wire) /\ Rest(s, n) \in Seq(Wire)
           /\ Len(First(s, n)) = IF Len(s) < n THEN Len(s) ELSE n
           /\ Len(Rest(s, n)) = IF Len(s) < n THEN 0 ELSE Len(s) - n
           /\ Len(s) <= n => First(s, n) = s /\ Rest(s, n) = <<>>
<1>1. Len(s) \in Nat /\ \A i \in 1 .. Len(s) : s[i] \in Wire
    BY ElementOfSeq, LenProperties
<1>2. /\ First(s, n) \in Seq(Wire)
      /\ Len(First(s, n)) = IF Len(s) < n THEN Len(s) ELSE n
    <2>. DEFINE k == IF Len(s) < n THEN Len(s) ELSE n
    <2>1. k \in Int /\ \A i \in 1 .. k : s[i] \in Wire
        BY <1>1
    <2>2. SubSeq(s, 1, k) \in Seq(Wire) /\ Len(SubSeq(s, 1, k)) = IF 1 <= k THEN k - 1 + 1 ELSE 0
        BY <2>1, SubSeqProperties
    <2>. QED
        BY <1>1, <2>1, <2>2 DEF First
<1>3. /\ Rest(s, n) \in Seq(Wire)
      /\ Len(Rest(s, n)) = IF Len(s) < n THEN 0 ELSE Len(s) - n
    <2>1. \A i \in (n + 1) .. Len(s) : s[i] \in Wire
        BY <1>1
    <2>2. /\ SubSeq(s, n + 1, Len(s)) \in Seq(Wire)
          /\ Len(SubSeq(s, n + 1, Len(s)))
               = IF n + 1 <= Len(s) THEN Len(s) - (n + 1) + 1 ELSE 0
        BY <1>1, <2>1, SubSeqProperties
    <2>. QED
        BY <1>1, <2>2 DEF Rest
<1>4. ASSUME Len(s) <= n
      PROVE  First(s, n) = s /\ Rest(s, n) = <<>>
    <2>1. (IF Len(s) < n THEN Len(s) ELSE n) = Len(s)
        BY <1>1, <1>4
    <2>2. First(s, n) = s
        BY <2>1, SubSeqFull DEF First
    <2>3. Rest(s, n) = <<>>
        BY <1>1, <1>4, SubSeqEmpty DEF Rest
    <2>. QED
        BY <2>2, <2>3
<1>. QED
    BY <1>2, <1>3, <1>4

----------------------------------------------------------------------------
(***************************************************************************)
(* The types of the variables.  The packets in the pipe are the ones       *)
(* ICEMAN sends: the argument of GO is a location or -1, that of           *)
(* DUMP_MEMORY a number of paragraphs.                                     *)
(***************************************************************************)
Sent == {p \in Packets : /\ p.cmd = "GO" => p.arg \in Addr \cup {-1}
                         /\ p.cmd = "DUMP_MEMORY" => p.arg \in Nat \ {0}}

MavTypes ==
    /\ eip \in Addr /\ running \in BOOLEAN /\ after \in Nat
    /\ bps \in [Slots -> Breakpoint]
    /\ emu \in EmuStates /\ lin \in Addr /\ emuAt \in Addr
    /\ ice \in IceStates /\ iceAt \in Addr /\ iceBuf \in Seq(Wire)

PipeTypes ==
    /\ link \in {"none", "listening", "open", "closed", "broken"}
    /\ toServer \in Seq(Sent) /\ toClient \in Seq(Wire)
    /\ srvPending \in BOOLEAN /\ srvBuf \in Seq(Sent)
    /\ cliPending \in Nat /\ cliBuf \in Seq(Wire)

CliTypes ==
    /\ cli \in CliStates /\ expect \in Kinds /\ need \in Nat
    /\ wt \in WtStates /\ complete \in BOOLEAN
    /\ strikes \in 0 .. MaxStrikes

Types == MavTypes /\ PipeTypes /\ CliTypes

LEMMA TypesGiveTypeOK ==
    Types => TypeOK
<1>1. Sent \subseteq Packets
    BY DEF Sent
<1>2. Seq(Sent) \subseteq Seq(Packets)
    BY <1>1, SeqMonotonic
<1>. QED
    BY <1>2 DEF Types, MavTypes, PipeTypes, CliTypes, TypeOK

\* The packets ICEMAN writes.
LEMMA PacketsAreSent ==
    /\ \A a \in Targets \cup {-1} : Packet("GO", a) \in Sent
    /\ \A a \in Targets : Packet("SET_BP", a) \in Sent /\ Packet("UNSET_BP", a) \in Sent
    /\ \A c \in {"BREAK", "TRACE", "DUMP_REGS", "LIST_BP", "LIST_WP", "SET_WP", "UNSET_WP"} :
         Packet(c, 0) \in Sent
    /\ Packet("DUMP_MEMORY", 1) \in Sent /\ Packet("DUMP_MEMORY", 8) \in Sent
<1>. USE SessionAssumption, UserAssumption DEF Packet, Sent, Packets, Commands
<1>1. \A a \in Targets \cup {-1} : Packet("GO", a) \in Sent
    OBVIOUS
<1>2. \A a \in Targets : Packet("SET_BP", a) \in Sent /\ Packet("UNSET_BP", a) \in Sent
    OBVIOUS
<1>3. \A c \in {"BREAK", "TRACE", "DUMP_REGS", "LIST_BP", "LIST_WP", "SET_WP", "UNSET_WP"} :
         Packet(c, 0) \in Sent
    OBVIOUS
<1>4. Packet("DUMP_MEMORY", 1) \in Sent /\ Packet("DUMP_MEMORY", 8) \in Sent
    OBVIOUS
<1>. QED
    BY <1>1, <1>2, <1>3, <1>4

\* The words a packet leads to: those of its answer, and for GO those of a hit.
Due(packet) ==
    CASE packet.cmd = "GO" -> ReplyWords["hit"]
      [] packet.cmd = "BREAK" -> ReplyWords["brk"]
      [] packet.cmd = "TRACE" -> ReplyWords["step"]
      [] packet.cmd = "DUMP_REGS" -> ReplyWords["regs"]
      [] packet.cmd = "DUMP_MEMORY" -> MemoryWords(packet.arg)
      [] packet.cmd \in {"LIST_BP", "LIST_WP"} -> ReplyWords["list"]
      [] packet.cmd = "SET_BP" -> ReplyWords["idx"]
      [] OTHER -> 0

LEMMA DueValues ==
    ASSUME NEW p \in Sent
    PROVE  /\ Due(p) \in Nat
           /\ p.cmd = "GO" => Due(p) = 2
           /\ p.cmd = "BREAK" => Due(p) = 2
           /\ p.cmd = "TRACE" => Due(p) = 7
           /\ p.cmd = "SET_BP" => Due(p) = 1
           /\ p.cmd = "DUMP_MEMORY" => Due(p) = 4 * p.arg
           /\ p.cmd = "DUMP_REGS" => Due(p) = 68
           /\ p.cmd \in {"LIST_BP", "LIST_WP"} => Due(p) = 12
           /\ p.cmd \in {"UNSET_BP", "SET_WP", "UNSET_WP"} => Due(p) = 0
<1>1. p.cmd \in Commands /\ (p.cmd = "DUMP_MEMORY" => p.arg \in Nat)
    BY DEF Sent, Packets
<1>2. CASE p.cmd = "DUMP_MEMORY"
    BY <1>1, <1>2, ReplySizes DEF Due
<1>3. CASE p.cmd # "DUMP_MEMORY"
    BY <1>1, <1>3, ReplySizes DEF Due, Commands
<1>. QED
    BY <1>2, <1>3

\* Each pipe operation leaves the pipe with the right things in it.
LEMMA ServerWriteTypes ==
    ASSUME PipeTypes, NEW words \in Seq(Wire), ServerWrite(words)
    PROVE  PipeTypes'
<1>1. cliPending > 0 =>
        First(words, cliPending) \in Seq(Wire) /\ Rest(words, cliPending) \in Seq(Wire)
    BY SplitWords DEF PipeTypes
<1>2. /\ toClient \o words \in Seq(Wire)
      /\ cliPending > 0 => toClient \o Rest(words, cliPending) \in Seq(Wire)
    BY <1>1, ConcatProperties DEF PipeTypes
<1>3. /\ UNCHANGED <<link, toServer, srvPending, srvBuf>>
      /\ toClient' \in Seq(Wire) /\ cliBuf' \in Seq(Wire) /\ cliPending' \in Nat
    <2>1. CASE link = "open" /\ cliPending > 0
        <3>1. /\ toClient' = toClient \o Rest(words, cliPending)
              /\ cliBuf' = First(words, cliPending) /\ cliPending' = 0
              /\ UNCHANGED <<link, toServer, srvPending, srvBuf>>
            BY <2>1 DEF ServerWrite
        <3>2. toClient' \in Seq(Wire) /\ cliBuf' \in Seq(Wire)
            BY <1>1, <1>2, <2>1, <3>1, Zenon
        <3>. QED
            BY <3>1, <3>2
    <2>2. CASE link = "open" /\ ~(cliPending > 0)
        BY <1>2, <2>2 DEF PipeTypes, ServerWrite
    <2>3. CASE link # "open"
        BY <2>3 DEF PipeTypes, ServerWrite
    <2>. QED
        BY <2>1, <2>2, <2>3
<1>. QED
    BY <1>3 DEF PipeTypes

LEMMA ServerCloseTypes ==
    ASSUME PipeTypes, ServerClose
    PROVE  PipeTypes'
BY EmptySeq DEF PipeTypes, ServerClose

LEMMA ClientWriteTypes ==
    ASSUME PipeTypes, NEW packet \in Sent, ClientWrite(packet),
           UNCHANGED <<cliPending, cliBuf>>
    PROVE  PipeTypes'
<1>1. <<packet>> \in Seq(Sent) /\ Append(toServer, packet) \in Seq(Sent)
    BY AppendProperties DEF PipeTypes
<1>. QED
    BY <1>1 DEF PipeTypes, ClientWrite

LEMMA ClientReadTypes ==
    ASSUME PipeTypes, NEW n \in Nat, ClientRead(n)
    PROVE  PipeTypes'
<1>1. First(toClient, n) \in Seq(Wire) /\ Rest(toClient, n) \in Seq(Wire)
    BY SplitWords DEF PipeTypes
<1>. QED
    BY <1>1, EmptySeq DEF PipeTypes, ClientRead

LEMMA ClientOpenCloseTypes ==
    ASSUME PipeTypes, ClientOpen \/ ClientClose
    PROVE  PipeTypes'
<1>1. CASE ClientOpen
    BY <1>1 DEF PipeTypes, ClientOpen
<1>2. CASE ClientClose
    BY <1>2, EmptySeq DEF PipeTypes, ClientClose
<1>. QED
    BY <1>1, <1>2

----------------------------------------------------------------------------
\* The table after a breakpoint is added or removed is a table.
LEMMA TableTypes ==
    ASSUME NEW t \in [Slots -> Breakpoint], NEW a \in Int
    PROVE  /\ AddBreakpoint(t, a) \in [Slots -> Breakpoint]
           /\ RemoveBreakpoint(t, a) \in [Slots -> Breakpoint]
<1>1. [address |-> a, end |-> a + 1, enabled |-> TRUE] \in Breakpoint
    BY DEF Breakpoint
<1>2. AddBreakpoint(t, a) \in [Slots -> Breakpoint]
    BY <1>1 DEF AddBreakpoint
<1>3. \A i \in Slots : [t[i] EXCEPT !.enabled = FALSE] \in Breakpoint
    BY DEF Breakpoint
<1>4. RemoveBreakpoint(t, a) \in [Slots -> Breakpoint]
    BY <1>3 DEF RemoveBreakpoint
<1>. QED
    BY <1>2, <1>4

\* The packet a command handler looks at is one that ICEMAN sent.
LEMMA TakenIsSent ==
    ASSUME PipeTypes, srvBuf # <<>>
    PROVE  Taken \in Sent
BY HeadTailProperties DEF PipeTypes, Taken

LEMMA EmulatorTypes ==
    ASSUME MavTypes, PipeTypes, Emulator
    PROVE  MavTypes' /\ PipeTypes'
<1>. USE ProgramAssumption DEF MavTypes, cpuVars, iceVars
<1>1. CASE EmuCreate
    BY <1>1 DEF EmuCreate, PipeTypes, EmuStates, IceStates
<1>2. CASE EmuExec
    BY <1>2 DEF EmuExec, PipeTypes, pipeVars, EmuStates
<1>3. CASE EmuReport
    <2>1. PipeTypes'
        BY <1>3, ServerWriteTypes, RepliesAreWire DEF EmuReport
    <2>2. MavTypes'
        BY <1>3 DEF EmuReport, EmuStates
    <2>. QED
        BY <2>1, <2>2
<1>4. CASE EmuExit
    <2>1. PipeTypes'
        BY <1>4, ServerCloseTypes DEF EmuExit
    <2>2. MavTypes'
        BY <1>4 DEF EmuExit, EmuStates, IceStates
    <2>. QED
        BY <2>1, <2>2
<1>5. CASE EmuPark \/ EmuAlloc \/ EmuLoad \/ EmuTop \/ EmuSpin
    BY <1>5 DEF EmuPark, EmuAlloc, EmuLoad, EmuTop, EmuSpin, PipeTypes, pipeVars, EmuStates
<1>6. CASE EmuHit \/ EmuFetch \/ EmuClear
    BY <1>6 DEF EmuHit, EmuFetch, EmuClear, PipeTypes, pipeVars, EmuStates
<1>. QED
    BY <1>1, <1>2, <1>3, <1>4, <1>5, <1>6 DEF Emulator

\* Only the ICE thread takes packets out of the pipe.
LEMMA IceTakeTypes ==
    ASSUME PipeTypes, NEW cmds, IceTake(cmds)
    PROVE  PipeTypes' /\ Taken \in Sent /\ Taken.cmd \in cmds
BY TakenIsSent, EmptySeq DEF IceTake, PipeTypes

LEMMA SnapshotType ==
    ASSUME NEW p \in Sent
    PROVE  Snapshot(p) \in Seq(Wire)
<1>1. CASE p.cmd = "DUMP_MEMORY"
    <2>1. p.arg \in Nat
        BY <1>1 DEF Sent
    <2>2. MemoryWords(p.arg) \in Nat /\ "mem" \in Kinds
        BY <2>1, KindNames DEF MemoryWords
    <2>. QED
        BY <1>1, <2>2, WordsAreWire DEF Snapshot
<1>2. CASE p.cmd # "DUMP_MEMORY"
    BY <1>2, RepliesAreWire DEF Snapshot
<1>. QED
    BY <1>1, <1>2

LEMMA IceThreadTypes ==
    ASSUME MavTypes, PipeTypes, IceThread
    PROVE  MavTypes' /\ PipeTypes'
<1>. USE DEF MavTypes, cpuVars, emuVars
<1>1. CASE IceConnect
    BY <1>1 DEF IceConnect, PipeTypes, pipeVars, IceStates
<1>14. CASE IceRun
    BY <1>14 DEF IceRun, PipeTypes, pipeVars, IceStates
<1>13. CASE IceCsip
    BY <1>13, RepliesAreWire DEF IceCsip, PipeTypes, pipeVars, IceStates
<1>2. CASE IceRead
    BY <1>2, EmptySeq DEF IceRead, PipeTypes, IceStates
<1>3. CASE IceDisconnect
    BY <1>3, EmptySeq DEF IceDisconnect, PipeTypes, IceStates
<1>4. CASE IceGo
    <2>1. PipeTypes' /\ Taken \in Sent /\ Taken.cmd = "GO"
        BY <1>4, IceTakeTypes DEF IceGo
    <2>2. Taken.arg = -1 \/ Taken.arg \in Addr
        BY <2>1 DEF Sent
    <2>3. MavTypes'
        BY <1>4, <2>2 DEF IceGo, IceStates
    <2>. QED
        BY <2>1, <2>3
<1>5. CASE IceBreak
    BY <1>5, IceTakeTypes DEF IceBreak, IceStates
<1>6. CASE IceTrace
    BY <1>6, IceTakeTypes DEF IceTrace, IceStates
<1>7. CASE IceTraced
    BY <1>7, RepliesAreWire, ProgramAssumption
       DEF IceTraced, IceStates, PipeTypes, pipeVars
<1>8. CASE IceQuery
    BY <1>8, IceTakeTypes, SnapshotType DEF IceQuery, IceStates
<1>9. CASE IceSetBP
    <2>1. PipeTypes' /\ Taken.arg \in Int
        BY <1>9, IceTakeTypes DEF IceSetBP, Sent, Packets
    <2>2. MavTypes'
        BY <1>9, <2>1, TableTypes, RepliesAreWire DEF IceSetBP, IceStates
    <2>. QED
        BY <2>1, <2>2
<1>10. CASE IceUnsetBP
    <2>1. PipeTypes' /\ Taken.arg \in Int
        BY <1>10, IceTakeTypes DEF IceUnsetBP, Sent, Packets
    <2>2. MavTypes'
        BY <1>10, <2>1, TableTypes DEF IceUnsetBP, IceStates
    <2>. QED
        BY <2>1, <2>2
<1>11. CASE IceDefault
    BY <1>11, IceTakeTypes DEF IceDefault, IceStates
<1>12. CASE IceWrite
    <2>1. PipeTypes'
        BY <1>12, ServerWriteTypes DEF IceWrite
    <2>2. MavTypes'
        BY <1>12, EmptySeq DEF IceWrite, IceStates
    <2>. QED
        BY <2>1, <2>2
<1>15. CASE IceFault
    <2>1. PipeTypes'
        BY <1>15, ServerCloseTypes DEF IceFault
    <2>2. MavTypes'
        BY <1>15 DEF IceFault, EmuStates, IceStates
    <2>. QED
        BY <2>1, <2>2
<1>. QED
    BY <1>1, <1>2, <1>3, <1>4, <1>5, <1>6, <1>7, <1>8, <1>9, <1>10, <1>11, <1>12, <1>13, <1>14,
       <1>15
       DEF IceThread

\* A step of ICEMAN that asks for a reply of n words.
LEMMA AskTypes ==
    ASSUME CliTypes, PipeTypes, NEW packet \in Sent, NEW kind \in Kinds, NEW n \in Nat,
           Ask(packet, kind, n)
    PROVE  CliTypes' /\ PipeTypes'
<1>1. PipeTypes'
    BY ClientWriteTypes DEF Ask
<1>2. CliTypes'
    BY DEF Ask, CliTypes, CliStates
<1>. QED
    BY <1>1, <1>2

\* The answer to a packet, and the packets that have one.
AnswerTo(packet) ==
    CASE packet.cmd = "GO" -> Reply(HitKind)
      [] packet.cmd = "BREAK" -> Reply(BrkKind)
      [] packet.cmd = "TRACE" -> Reply("step")
      [] packet.cmd = "SET_BP" -> Reply("idx")
      [] OTHER -> Snapshot(packet)

Questions == Commands \ {"UNSET_BP", "SET_WP", "UNSET_WP"}

\* What the commands of ICEMAN ask: they wait for the words of the answer.
Fits(packet, kind, n) ==
    /\ packet \in Sent /\ kind \in Kinds /\ n \in Nat \ {0}
    /\ Due(packet) <= n /\ packet.cmd # "GO"
    /\ packet.cmd \in Questions => AnswerTo(packet) = Words(kind, n)

LEMMA QuestionsFit ==
    /\ Fits(Packet("DUMP_REGS", 0), "regs", 68)
    /\ Fits(Packet("DUMP_MEMORY", 1), "mem", 4)
    /\ Fits(Packet("DUMP_MEMORY", 8), "mem", 32)
    /\ Fits(Packet("LIST_BP", 0), "list", 12)
    /\ Fits(Packet("LIST_WP", 0), "list", 12)
    /\ Fits(Packet("TRACE", 0), "step", 7)
    /\ Fits(Packet("SET_WP", 0), "idx", 1)
    /\ \A a \in Targets : Fits(Packet("SET_BP", a), "idx", 1)
    /\ Fits(Packet("BREAK", 0), "brk", 2)
<1>1. /\ Reply("brk") = Words("brk", 2) /\ Reply("step") = Words("step", 7)
      /\ Reply("list") = Words("list", 12) /\ Reply("regs") = Words("regs", 68)
      /\ Reply("idx") = Words("idx", 1)
    BY DEF Reply, ReplyWords
<1>2. MemoryWords(1) = 4 /\ MemoryWords(8) = 32
    BY DEF MemoryWords
<1>3. /\ AnswerTo(Packet("DUMP_REGS", 0)) = Words("regs", 68)
      /\ AnswerTo(Packet("DUMP_MEMORY", 1)) = Words("mem", 4)
      /\ AnswerTo(Packet("DUMP_MEMORY", 8)) = Words("mem", 32)
      /\ AnswerTo(Packet("LIST_BP", 0)) = Words("list", 12)
      /\ AnswerTo(Packet("LIST_WP", 0)) = Words("list", 12)
    BY <1>1, <1>2 DEF AnswerTo, Packet, Snapshot
<1>4. /\ AnswerTo(Packet("TRACE", 0)) = Words("step", 7)
      /\ \A a \in Targets : AnswerTo(Packet("SET_BP", a)) = Words("idx", 1)
      /\ AnswerTo(Packet("BREAK", 0)) = Words("brk", 2)
    BY <1>1 DEF AnswerTo, Packet, BrkKind
<1>5. /\ Due(Packet("DUMP_REGS", 0)) = 68 /\ Due(Packet("DUMP_MEMORY", 1)) = 4
      /\ Due(Packet("DUMP_MEMORY", 8)) = 32
      /\ Due(Packet("LIST_BP", 0)) = 12 /\ Due(Packet("LIST_WP", 0)) = 12
    BY PacketsAreSent, DueValues DEF Packet
<1>6. /\ Due(Packet("TRACE", 0)) = 7 /\ Due(Packet("SET_WP", 0)) = 0
      /\ \A a \in Targets : Due(Packet("SET_BP", a)) = 1
      /\ Due(Packet("BREAK", 0)) = 2
    BY PacketsAreSent, DueValues DEF Packet
<1>7. /\ Fits(Packet("DUMP_REGS", 0), "regs", 68)
      /\ Fits(Packet("DUMP_MEMORY", 1), "mem", 4)
      /\ Fits(Packet("DUMP_MEMORY", 8), "mem", 32)
      /\ Fits(Packet("LIST_BP", 0), "list", 12)
      /\ Fits(Packet("LIST_WP", 0), "list", 12)
    BY <1>3, <1>5, PacketsAreSent, KindNames DEF Fits, Packet
<1>8. /\ Fits(Packet("TRACE", 0), "step", 7)
      /\ Fits(Packet("BREAK", 0), "brk", 2)
    BY <1>4, <1>6, PacketsAreSent, KindNames DEF Fits, Packet
<1>10. ASSUME NEW a \in Targets
       PROVE  Fits(Packet("SET_BP", a), "idx", 1)
    <2>1. /\ AnswerTo(Packet("SET_BP", a)) = Words("idx", 1) /\ Due(Packet("SET_BP", a)) = 1
          /\ Packet("SET_BP", a) \in Sent /\ Packet("SET_BP", a).cmd = "SET_BP"
        BY <1>4, <1>6, PacketsAreSent DEF Packet
    <2>. QED
        BY <2>1, KindNames DEF Fits
<1>9. Fits(Packet("SET_WP", 0), "idx", 1)
    BY <1>6, PacketsAreSent, KindNames DEF Fits, Packet, Questions
<1>. QED
    BY <1>7, <1>8, <1>9, <1>10

LEMMA Asked ==
    ASSUME Query \/ SetBP \/ SendBreak
    PROVE  \E packet \in Sent, kind \in Kinds, n \in Nat :
              Ask(packet, kind, n) /\ Fits(packet, kind, n)
<1>1. MemoryWords(1) = 4 /\ MemoryWords(8) = 32
    BY DEF MemoryWords
<1>2. \E packet, kind, n : Ask(packet, kind, n) /\ Fits(packet, kind, n)
    <2>1. CASE Query
        BY <1>1, <2>1, QuestionsFit, ReplySizes DEF Query
    <2>2. CASE SetBP
        BY <2>2, QuestionsFit, ReplySizes DEF SetBP
    <2>3. CASE SendBreak
        BY <2>3, QuestionsFit, ReplySizes DEF SendBreak
    <2>. QED
        BY <2>1, <2>2, <2>3
<1>. QED
    BY <1>2 DEF Fits

LEMMA CliStepTypes ==
    ASSUME CliTypes, PipeTypes, MainThread \/ WaitThread \/ User
    PROVE  CliTypes' /\ PipeTypes'
<1>1. CASE Open \/ Quit
    BY <1>1, ClientOpenCloseTypes DEF Open, Quit, CliTypes, CliStates
<1>2. CASE SendBreak \/ Query \/ SetBP
    BY <1>2, Asked, AskTypes
<1>3. CASE CliRead
    BY <1>3, ClientReadTypes DEF CliRead, CliTypes, CliStates
<1>4. CASE WtRead
    BY <1>4, ClientReadTypes, ReplySizes DEF WtRead, CliTypes, WtStates
<1>5. CASE CliShort \/ CliAccept
    BY <1>5, EmptySeq DEF CliShort, CliAccept, CliTypes, CliStates, PipeTypes
<1>10. CASE WtShort \/ WtAccept
    BY <1>10, EmptySeq DEF WtShort, WtAccept, CliTypes, WtStates, PipeTypes
<1>6. CASE WtSet \/ Poll
    BY <1>6 DEF WtSet, Poll, CliTypes, CliStates, WtStates, PipeTypes, pipeVars
<1>7. CASE Hotkey
    <2>1. strikes' \in 0 .. MaxStrikes
        BY <1>7, UserAssumption DEF Hotkey, CliTypes
    <2>2. CliTypes'
        BY <1>7, <2>1, Zenon DEF Hotkey, CliTypes, CliStates, WtStates
    <2>3. PipeTypes'
        BY <1>7, EmptySeq DEF Hotkey, PipeTypes
    <2>. QED
        BY <2>2, <2>3
<1>11. CASE Killed
    <2>1. strikes' \in 0 .. MaxStrikes
        BY <1>11, UserAssumption DEF Killed, CliTypes
    <2>2. CliTypes'
        BY <1>11, <2>1, Zenon DEF Killed, CliTypes, CliStates, WtStates
    <2>3. PipeTypes'
        BY <1>11, ClientOpenCloseTypes DEF Killed
    <2>. QED
        BY <2>2, <2>3
<1>8. CASE Tell
    <2>1. PICK packet \in Sent : ClientWrite(packet)
        BY <1>8, PacketsAreSent DEF Tell
    <2>2. UNCHANGED <<cliVars, cliPending, cliBuf>>
        BY <1>8 DEF Tell
    <2>. QED
        BY <2>1, <2>2, ClientWriteTypes DEF CliTypes, cliVars
<1>9. CASE Go
    <2>1. PICK packet \in Sent : ClientWrite(packet)
        BY <1>9, PacketsAreSent DEF Go
    <2>2. UNCHANGED <<cliPending, cliBuf>>
        BY <1>9 DEF Go
    <2>. QED
        BY <1>9, <2>1, <2>2, ClientWriteTypes DEF Go, CliTypes, CliStates, WtStates
<1>. QED
    BY <1>1, <1>2, <1>3, <1>4, <1>5, <1>6, <1>7, <1>8, <1>9, <1>10, <1>11
       DEF MainThread, WaitThread, User

LEMMA InitTypes ==
    ASSUME Init
    PROVE  Types
<1>1. MavTypes
    <2>1. NoBreakpoints \in [Slots -> Breakpoint]
        <3>1. [address |-> 0, end |-> 0, enabled |-> FALSE] \in Breakpoint
            BY DEF Breakpoint
        <3>. QED
            BY <3>1 DEF NoBreakpoints
    <2>. QED
        BY <2>1, EmptySeq, ProgramAssumption DEF Init, MavInit, MavTypes, EmuStates, IceStates
<1>2. PipeTypes
    BY EmptySeq DEF Init, PipeInit, PipeTypes
<1>3. CliTypes
    <2>1. 0 \in 0 .. MaxStrikes /\ 0 \in Nat /\ "brk" \in Kinds
        BY UserAssumption, KindNames
    <2>. QED
        BY <2>1, Zenon DEF Init, CliInit, CliTypes, CliStates, WtStates, BrkKind
<1>. QED
    BY <1>1, <1>2, <1>3 DEF Types

LEMMA StepTypes ==
    ASSUME Types, [Next]_vars
    PROVE  Types'
<1>1. CASE MavStep
    <2>1. CliTypes'
        BY <1>1 DEF MavStep, Types, CliTypes, cliVars
    <2>. QED
        BY <1>1, <2>1, EmulatorTypes, IceThreadTypes DEF MavStep, Types
<1>2. CASE CliStep
    <2>1. MavTypes'
        BY <1>2 DEF CliStep, Types, MavTypes, mavVars, cpuVars, emuVars, iceVars
    <2>. QED
        BY <1>2, <2>1, CliStepTypes DEF CliStep, Types
<1>3. CASE UNCHANGED vars
    BY <1>3 DEF vars, mavVars, cpuVars, emuVars, iceVars, cliVars, pipeVars,
                Types, MavTypes, PipeTypes, CliTypes
<1>. QED
    BY <1>1, <1>2, <1>3 DEF Next

\* Every variable of the two processes and of the pipe keeps its type,
\* whatever the program does and whatever the user types (TypeOK).
THEOREM TypeCorrect ==
    Spec => []TypeOK
<1>1. Init => Types
    BY InitTypes
<1>2. Types /\ [Next]_vars => Types'
    BY StepTypes
<1>. QED
    BY <1>1, <1>2, TypesGiveTypeOK, PTL DEF Spec

----------------------------------------------------------------------------
(***************************************************************************)
(* Replies and questions are counted in words.  What the server may still  *)
(* write, for a packet it has or for an instruction that may meet a        *)
(* breakpoint, and what is in the pipe, is never more than what the client *)
(* is going to read; each strike of the hotkey gives up one reply, and so  *)
(* does a debugger that is killed in GoUntilBP.                            *)
(***************************************************************************)

\* Only the first packet of a read is executed.
HeadDue(packets) == IF packets = <<>> THEN 0 ELSE Due(Head(packets))

IceDue(doing, taken, reply) ==
    CASE doing = "got" -> HeadDue(taken)
      [] doing = "run" -> ReplyWords["hit"]
      [] doing = "csip" -> ReplyWords["brk"]
      [] doing = "tracing" -> ReplyWords["step"]
      [] doing = "write" -> Len(reply)
      [] OTHER -> 0

\* The emulator thread may meet a breakpoint: it is past its test of
\* `running', or comes to it with the CPU running.
MayHit(doing, runs) ==
    \/ doing \in {"check", "report"}
    \/ runs /\ doing \in {"alloc", "load", "top", "spin", "exec"}
HitDue(doing, runs) == IF MayHit(doing, runs) THEN ReplyWords["hit"] ELSE 0

\* What the threads of ICEMAN have still to read.
Got(n, pending, buf) == pending = 0 /\ Len(buf) >= n
MainDue(doing, n, pending, buf) ==
    CASE doing = "wait" -> n
      [] doing = "check" -> IF Got(n, pending, buf) THEN 0 ELSE n
      [] OTHER -> 0
WtDue(doing, pending, buf) ==
    CASE doing = "read" -> ReplyWords["hit"]
      [] doing = "check" -> IF Got(ReplyWords["hit"], pending, buf) THEN 0 ELSE ReplyWords["hit"]
      [] OTHER -> 0

\* Both sides of the balance.
Owed(packets, i, taken, reply, e, runs) ==
    HeadDue(packets) + IceDue(i, taken, reply) + HitDue(e, runs)
Wanted(c, n, w, pending, buf) == MainDue(c, n, pending, buf) + WtDue(w, pending, buf)

Balance ==
    Len(toClient) + Owed(toServer, ice, srvBuf, iceBuf, emu, running)
        <= Wanted(cli, need, wt, cliPending, cliBuf) + ReplyWords["brk"] * strikes

\* Which thread has a read outstanding, and who owns the buffers.
Readers ==
    /\ emu = "create" => ice = "off"
    /\ srvPending => ice = "got" /\ srvBuf = <<>>
    /\ srvBuf # <<>> => ice = "got"
    /\ wt # "off" => cli = "poll"
    /\ complete => wt = "off"
    /\ cliPending > 0 =>
         /\ cliBuf = <<>>
         /\ \/ cli = "check" /\ cliPending = need
            \/ wt = "check" /\ cliPending = ReplyWords["hit"]

(***************************************************************************)
(* A debugger that is gone wants nothing, and what it asked may still be   *)
(* in the pipe; the next one starts with nothing there, but may meet the   *)
(* hit its predecessor went for.                                           *)
(***************************************************************************)
\* What each end may do in each state of the pipe.
Links ==
    /\ cli = "start" => link # "open" /\ toClient = <<>>
    /\ cli # "start" => link \in {"open", "broken"}
    /\ emu = "create" => link = "none"
    /\ link \in {"none", "broken"} => ice = "off"
    /\ link \in {"none", "listening"} => toServer = <<>>
    /\ link = "listening" => ice = "connect"
    /\ srvPending => link = "open" /\ toServer = <<>>
    /\ ice = "got" /\ ~srvPending /\ srvBuf = <<>> => link = "closed" /\ toServer = <<>>

\* The words of a hit that a GO in the pipe, one that is being executed, or a
\* running CPU leads to.
HitHead(packets) ==
    IF packets # <<>> /\ Head(packets).cmd = "GO" THEN ReplyWords["hit"] ELSE 0
IceHits(doing, taken) ==
    CASE doing = "got" -> HitHead(taken)
      [] doing = "run" -> ReplyWords["hit"]
      [] OTHER -> 0
HitsOwed(packets, i, taken, e, runs) == HitHead(packets) + IceHits(i, taken) + HitDue(e, runs)

\* While nobody waits for a hit, those to come are no more than were given up.
Strays ==
    cli # "poll" =>
      HitsOwed(toServer, ice, srvBuf, emu, running) <= ReplyWords["brk"] * strikes

ReplyInv ==
    /\ Types /\ Readers /\ Links /\ Strays
    /\ (cli # "start" \/ strikes = 0) => Balance

LEMMA HeadDueIsNat ==
    ASSUME NEW s \in Seq(Sent)
    PROVE  HeadDue(s) \in Nat
BY HeadTailProperties, DueValues DEF HeadDue

\* Each account is a number of words.
LEMMA OwedIsNat ==
    ASSUME NEW packets \in Seq(Sent), NEW i, NEW taken \in Seq(Sent), NEW reply \in Seq(Wire),
           NEW e, NEW runs
    PROVE  /\ HeadDue(packets) \in Nat /\ HeadDue(taken) \in Nat
           /\ IceDue(i, taken, reply) \in Nat /\ HitDue(e, runs) \in Nat
           /\ Owed(packets, i, taken, reply, e, runs) \in Nat
<1>1. HeadDue(packets) \in Nat /\ HeadDue(taken) \in Nat
    BY HeadDueIsNat
<1>2. IceDue(i, taken, reply) \in Nat
    BY <1>1, LenProperties, ReplySizes DEF IceDue
<1>3. HitDue(e, runs) \in Nat
    BY ReplySizes DEF HitDue
<1>. QED
    BY <1>1, <1>2, <1>3 DEF Owed

LEMMA WantedIsNat ==
    ASSUME NEW c, NEW n \in Nat, NEW w, NEW pending, NEW buf
    PROVE  /\ MainDue(c, n, pending, buf) \in Nat /\ WtDue(w, pending, buf) \in Nat
           /\ Wanted(c, n, w, pending, buf) \in Nat
<1>1. MainDue(c, n, pending, buf) \in Nat /\ WtDue(w, pending, buf) \in Nat
    BY ReplySizes DEF MainDue, WtDue
<1>. QED
    BY <1>1 DEF Wanted

\* All the accounts before and after a step are numbers.
Counted ==
    /\ Len(toClient) \in Nat /\ Len(toClient') \in Nat
    /\ strikes \in Nat /\ strikes' \in Nat
    /\ Owed(toServer, ice, srvBuf, iceBuf, emu, running) \in Nat
    /\ Owed(toServer', ice', srvBuf', iceBuf', emu', running') \in Nat
    /\ Wanted(cli, need, wt, cliPending, cliBuf) \in Nat
    /\ Wanted(cli', need', wt', cliPending', cliBuf') \in Nat

LEMMA TypesAreCounted ==
    ASSUME Types, Types'
    PROVE  Counted
<1>1. /\ toClient \in Seq(Wire) /\ toServer \in Seq(Sent) /\ srvBuf \in Seq(Sent)
      /\ iceBuf \in Seq(Wire) /\ need \in Nat /\ strikes \in Nat
    BY UserAssumption DEF Types, PipeTypes, CliTypes, MavTypes
<1>2. /\ toClient' \in Seq(Wire) /\ toServer' \in Seq(Sent) /\ srvBuf' \in Seq(Sent)
      /\ iceBuf' \in Seq(Wire) /\ need' \in Nat /\ strikes' \in Nat
    BY UserAssumption DEF Types, PipeTypes, CliTypes, MavTypes
<1>. QED
    BY <1>1, <1>2, OwedIsNat, WantedIsNat, LenProperties DEF Counted

(***************************************************************************)
(* A step keeps the balance when what is owed does not grow by more than   *)
(* what is wanted.                                                         *)
(***************************************************************************)
LEMMA KeepsBalance ==
    ASSUME Counted, Balance, strikes' = strikes,
           Len(toClient') + Owed(toServer', ice', srvBuf', iceBuf', emu', running')
               + Wanted(cli, need, wt, cliPending, cliBuf)
             <= Len(toClient) + Owed(toServer, ice, srvBuf, iceBuf, emu, running)
               + Wanted(cli', need', wt', cliPending', cliBuf')
    PROVE  Balance'
<1>1. Len(toClient) + Owed(toServer, ice, srvBuf, iceBuf, emu, running)
        <= Wanted(cli, need, wt, cliPending, cliBuf) + 2 * strikes
    BY ReplySizes DEF Balance
<1>2. Len(toClient') + Owed(toServer', ice', srvBuf', iceBuf', emu', running')
        <= Wanted(cli', need', wt', cliPending', cliBuf') + 2 * strikes'
    BY <1>1 DEF Counted
<1>. QED
    BY <1>2, ReplySizes DEF Balance

\* What the accounts say.
LEMMA IceDueValues ==
    ASSUME NEW taken, NEW reply
    PROVE  /\ IceDue("got", taken, reply) = HeadDue(taken)
           /\ IceDue("run", taken, reply) = 2 /\ IceDue("csip", taken, reply) = 2
           /\ IceDue("tracing", taken, reply) = 7
           /\ IceDue("write", taken, reply) = Len(reply)
           /\ IceDue("off", taken, reply) = 0 /\ IceDue("connect", taken, reply) = 0
           /\ IceDue("read", taken, reply) = 0
BY ReplySizes DEF IceDue

LEMMA HitDueValues ==
    ASSUME NEW e, NEW r
    PROVE  /\ HitDue(e, r) \in {0, 2}
           /\ e \in {"check", "report"} => HitDue(e, r) = 2
           /\ e \in {"create", "park", "clear", "exit"} => HitDue(e, r) = 0
           /\ e \in {"alloc", "load", "top", "spin", "exec"} => HitDue(e, TRUE) = 2
           /\ e \in {"alloc", "load", "top", "spin", "exec"} => HitDue(e, FALSE) = 0
           /\ HitDue(e, FALSE) <= HitDue(e, r)
BY ReplySizes DEF HitDue, MayHit

LEMMA CliDueValues ==
    ASSUME NEW n \in Nat, NEW pending, NEW buf
    PROVE  /\ MainDue("wait", n, pending, buf) = n
           /\ Got(n, pending, buf) => MainDue("check", n, pending, buf) = 0
           /\ ~Got(n, pending, buf) => MainDue("check", n, pending, buf) = n
           /\ \A c \in {"start", "break", "prompt", "poll"} : MainDue(c, n, pending, buf) = 0
           /\ WtDue("read", pending, buf) = 2
           /\ Got(2, pending, buf) => WtDue("check", pending, buf) = 0
           /\ ~Got(2, pending, buf) => WtDue("check", pending, buf) = 2
           /\ \A w \in {"off", "set"} : WtDue(w, pending, buf) = 0
BY ReplySizes DEF MainDue, WtDue

\* A step of MAVERICK that writes nothing to the pipe.
LEMMA QuietServerBalance ==
    ASSUME Counted, Balance, UNCHANGED <<toClient, cliPending, cliBuf, cliVars>>,
           Owed(toServer', ice', srvBuf', iceBuf', emu', running')
             <= Owed(toServer, ice, srvBuf, iceBuf, emu, running)
    PROVE  Balance'
<1>1. Wanted(cli', need', wt', cliPending', cliBuf') = Wanted(cli, need, wt, cliPending, cliBuf)
    BY DEF cliVars
<1>2. strikes' = strikes /\ Len(toClient') = Len(toClient)
    BY DEF cliVars
<1>3. Len(toClient') + Owed(toServer', ice', srvBuf', iceBuf', emu', running')
          + Wanted(cli, need, wt, cliPending, cliBuf)
        <= Len(toClient) + Owed(toServer, ice, srvBuf, iceBuf, emu, running)
          + Wanted(cli', need', wt', cliPending', cliBuf')
    BY <1>1, <1>2 DEF Counted
<1>. QED
    BY <1>2, <1>3, KeepsBalance

----------------------------------------------------------------------------
\* The threads own their buffers: Readers is kept by every step.
LEMMA EmulatorReaders ==
    ASSUME Types, Readers, Emulator, UNCHANGED cliVars
    PROVE  Readers'
<1>. USE DEF Readers, cliVars, iceVars
<1>1. CASE EmuCreate
    BY <1>1 DEF EmuCreate
<1>2. CASE EmuExit
    BY <1>2 DEF EmuExit, ServerClose
<1>3. CASE EmuReport
    <2>1. /\ emu' # "create" /\ UNCHANGED <<ice, srvPending, srvBuf, cli, wt, complete, need>>
          /\ cliPending' = 0 \/ UNCHANGED <<cliPending, cliBuf>>
        BY <1>3 DEF EmuReport, ServerWrite
    <2>. QED
        BY <2>1
<1>4. CASE \/ EmuPark \/ EmuAlloc \/ EmuLoad \/ EmuTop \/ EmuSpin \/ EmuHit \/ EmuFetch
           \/ EmuExec \/ EmuClear
    <2>1. emu' # "create" /\ UNCHANGED <<iceVars, pipeVars>>
        BY <1>4
           DEF EmuPark, EmuAlloc, EmuLoad, EmuTop, EmuSpin, EmuHit, EmuFetch, EmuExec, EmuClear
    <2>. QED
        BY <2>1 DEF pipeVars
<1>. QED
    BY <1>1, <1>2, <1>3, <1>4 DEF Emulator

LEMMA IceThreadReaders ==
    ASSUME Types, Readers, IceThread, UNCHANGED cliVars
    PROVE  Readers'
<1>. USE DEF Readers, cliVars, emuVars
<1>1. CASE IceConnect \/ IceRun \/ IceCsip \/ IceTraced
    <2>1. /\ ice' # "off" /\ ice # "off" /\ ice # "got" /\ UNCHANGED <<emu, pipeVars>>
        BY <1>1 DEF IceConnect, IceRun, IceCsip, IceTraced
    <2>. QED
        BY <2>1 DEF pipeVars
<1>2. CASE IceRead
    BY <1>2 DEF IceRead
<1>3. CASE IceDisconnect
    BY <1>3 DEF IceDisconnect
<1>4. CASE \/ IceGo \/ IceBreak \/ IceTrace \/ IceQuery \/ IceSetBP \/ IceUnsetBP \/ IceDefault
    <2>1. /\ ice = "got" /\ ~srvPending /\ srvBuf' = <<>>
          /\ UNCHANGED <<emu, srvPending, cliPending, cliBuf>>
        BY <1>4 DEF IceGo, IceBreak, IceTrace, IceQuery, IceSetBP, IceUnsetBP, IceDefault, IceTake
    <2>. QED
        BY <2>1
<1>5. CASE IceWrite
    <2>1. /\ ice = "write" /\ ice' = "read" /\ UNCHANGED <<emu, srvPending, srvBuf>>
          /\ cliPending' = 0 \/ UNCHANGED <<cliPending, cliBuf>>
        BY <1>5 DEF IceWrite, ServerWrite
    <2>. QED
        BY <2>1
<1>6. CASE IceFault
    BY <1>6 DEF IceFault, ServerClose
<1>. QED
    BY <1>1, <1>2, <1>3, <1>4, <1>5, <1>6 DEF IceThread

\* At the prompt, and before a command is answered, no read is outstanding.
LEMMA NoRead ==
    ASSUME Types, Readers, cli \in {"start", "break", "prompt", "wait"}
    PROVE  cliPending = 0 /\ wt = "off"
BY DEF Types, PipeTypes, Readers

\* A packet goes to the pending read of MAVERICK or into the pipe.
LEMMA ClientWriteReaders ==
    ASSUME Types, Readers, NEW packet, ClientWrite(packet)
    PROVE  /\ srvPending' => srvPending /\ srvBuf' = srvBuf
           /\ srvBuf' # srvBuf => ice = "got" /\ ~srvPending'
BY DEF Types, PipeTypes, Readers, ClientWrite

LEMMA CliReaders ==
    ASSUME Types, Readers, MainThread \/ WaitThread \/ User, UNCHANGED mavVars
    PROVE  Readers'
<1>. USE DEF Readers, mavVars, emuVars, iceVars
<1>1. CASE Open
    BY <1>1, NoRead DEF Open, ClientOpen
<1>2. CASE Quit
    BY <1>2, NoRead DEF Quit, ClientClose
<1>3. ASSUME NEW packet, NEW kind, NEW n, Ask(packet, kind, n), cli \in {"prompt", "break"}
      PROVE  Readers'
    <2>1. /\ cliPending = 0 /\ wt = "off" /\ cli' = "wait"
          /\ UNCHANGED <<wt, complete, cliPending>>
        BY <1>3, NoRead DEF Ask
    <2>. QED
        BY <1>3, <2>1, ClientWriteReaders DEF Ask
<1>4. CASE SendBreak
    BY <1>3, <1>4 DEF SendBreak
<1>5. CASE Query
    BY <1>3, <1>5 DEF Query
<1>6. CASE SetBP
    BY <1>3, <1>6 DEF SetBP
<1>7. CASE Tell
    <2>1. PICK packet : ClientWrite(packet)
        BY <1>7 DEF Tell
    <2>2. UNCHANGED <<cliVars, cliPending, cliBuf>>
        BY <1>7 DEF Tell
    <2>. QED
        BY <2>1, <2>2, ClientWriteReaders DEF cliVars
<1>8. CASE Go
    <2>1. PICK packet : ClientWrite(packet)
        BY <1>8 DEF Go
    <2>2. cliPending = 0 /\ cliPending' = 0 /\ complete' = FALSE /\ cli' = "poll"
        BY <1>8, NoRead DEF Go
    <2>. QED
        BY <2>1, <2>2, ClientWriteReaders
<1>9. CASE CliRead
    <2>1. cliPending = 0 /\ wt = "off"
        BY <1>9, NoRead DEF CliRead
    <2>2. /\ cli' = "check" /\ UNCHANGED <<srvPending, srvBuf, wt, complete, need>>
          /\ cliPending' = 0 \/ (cliPending' = need /\ cliBuf' = <<>>)
        BY <1>9, <2>1 DEF CliRead, ClientRead
    <2>. QED
        BY <2>1, <2>2
<1>10. CASE WtRead
    <2>1. cli = "poll" /\ cliPending = 0
        BY <1>10 DEF WtRead, Types, PipeTypes
    <2>2. /\ wt' = "check" /\ UNCHANGED <<srvPending, srvBuf, cli, complete, need>>
          /\ cliPending' = 0 \/ (cliPending' = ReplyWords["hit"] /\ cliBuf' = <<>>)
          /\ wt = "read"
        BY <1>10, <2>1 DEF WtRead, ClientRead
    <2>. QED
        BY <2>1, <2>2
<1>11. CASE CliShort \/ CliAccept
    BY <1>11 DEF CliShort, CliAccept
<1>12. CASE WtShort \/ WtAccept
    BY <1>12 DEF WtShort, WtAccept
<1>13. CASE WtSet
    BY <1>13 DEF WtSet, pipeVars
<1>14. CASE Poll
    BY <1>14 DEF Poll, pipeVars
<1>15. CASE Hotkey
    BY <1>15 DEF Hotkey
<1>16. CASE Killed
    BY <1>16 DEF Killed, ClientClose
<1>. QED
    BY <1>1, <1>2, <1>4, <1>5, <1>6, <1>7, <1>8, <1>9, <1>10, <1>11, <1>12, <1>13, <1>14, <1>15,
       <1>16
       DEF MainThread, WaitThread, User

----------------------------------------------------------------------------
\* The balance step by step: the steps of MAVERICK.
LEMMA OwedParts ==
    ASSUME Types
    PROVE  /\ HeadDue(toServer) \in Nat /\ HeadDue(srvBuf) \in Nat
           /\ IceDue(ice, srvBuf, iceBuf) \in Nat /\ HitDue(emu, running) \in Nat
           /\ Len(toClient) \in Nat /\ Len(iceBuf) \in Nat
<1>1. /\ toClient \in Seq(Wire) /\ toServer \in Seq(Sent) /\ srvBuf \in Seq(Sent)
      /\ iceBuf \in Seq(Wire)
    BY DEF Types, PipeTypes, MavTypes
<1>. QED
    BY <1>1, OwedIsNat, LenProperties

\* What MAVERICK writes is in the pipe, or in the read that waits for it.
LEMMA ServerWriteWanted ==
    ASSUME Types, Readers, NEW words \in Seq(Wire), ServerWrite(words), UNCHANGED cliVars
    PROVE  Len(toClient') + Wanted(cli, need, wt, cliPending, cliBuf)
             <= Len(toClient) + Len(words) + Wanted(cli', need', wt', cliPending', cliBuf')
<1>0. /\ toClient \in Seq(Wire) /\ need \in Nat /\ cliPending \in Nat
      /\ UNCHANGED <<cli, need, wt>>
    BY DEF Types, PipeTypes, CliTypes, cliVars
<1>1. Len(toClient) \in Nat /\ Len(words) \in Nat
    BY <1>0, LenProperties
<1>2. /\ Wanted(cli, need, wt, cliPending, cliBuf) \in Nat
      /\ MainDue(cli, need, cliPending, cliBuf) \in Nat
      /\ WtDue(wt, cliPending, cliBuf) \in Nat
      /\ MainDue(cli', need', cliPending', cliBuf') \in Nat
      /\ WtDue(wt', cliPending', cliBuf') \in Nat
      /\ Wanted(cli', need', wt', cliPending', cliBuf') \in Nat
    BY <1>0, WantedIsNat
<1>3. CASE link = "open" /\ cliPending > 0
    <2>. DEFINE n == cliPending
    <2>1. /\ cliBuf' = First(words, n) /\ toClient' = toClient \o Rest(words, n)
          /\ cliPending' = 0
        BY <1>3 DEF ServerWrite
    <2>2. /\ Rest(words, n) \in Seq(Wire)
          /\ Len(First(words, n)) = IF Len(words) < n THEN Len(words) ELSE n
          /\ Len(Rest(words, n)) = IF Len(words) < n THEN 0 ELSE Len(words) - n
        BY <1>0, SplitWords
    <2>3. Len(toClient') = Len(toClient) + (IF Len(words) < n THEN 0 ELSE Len(words) - n)
        <3>1. Len(toClient \o Rest(words, n)) = Len(toClient) + Len(Rest(words, n))
            BY <1>0, <2>2, ConcatProperties
        <3>. QED
            BY <2>1, <2>2, <3>1, Zenon
    <2>4. Len(cliBuf') = IF Len(words) < n THEN Len(words) ELSE n
        BY <2>1, <2>2
    <2>5. Len(words) < n \/ ~(Len(words) < n)
        OBVIOUS
    <2>6. CASE cli = "check" /\ n = need
        <3>1. wt = "off" /\ ~Got(need, cliPending, cliBuf)
            BY <1>3, <2>6 DEF Readers, Got
        <3>2. Wanted(cli, need, wt, cliPending, cliBuf) = need
            BY <1>0, <1>2, <2>6, <3>1, CliDueValues DEF Wanted
        <3>3. CASE Len(words) < n
            <4>1. ~Got(need', cliPending', cliBuf')
                BY <1>0, <1>1, <2>4, <2>6, <3>3 DEF Got
            <4>2. Wanted(cli', need', wt', cliPending', cliBuf') = need
                BY <1>0, <2>6, <3>1, <4>1, CliDueValues DEF Wanted
            <4>. QED
                BY <1>0, <1>1, <2>3, <3>2, <3>3, <4>2
        <3>4. CASE ~(Len(words) < n)
            <4>1. Len(toClient') = Len(toClient) + Len(words) - n
                BY <1>0, <1>1, <2>3, <3>4
            <4>. QED
                BY <1>0, <1>1, <1>2, <2>6, <3>2, <4>1
        <3>. QED
            BY <2>5, <3>3, <3>4
    <2>7. CASE wt = "check" /\ n = 2
        <3>1. cli = "poll" /\ ~Got(2, cliPending, cliBuf)
            BY <1>3, <2>7 DEF Readers, Got
        <3>2. Wanted(cli, need, wt, cliPending, cliBuf) = 2
            BY <1>0, <1>2, <2>7, <3>1, CliDueValues DEF Wanted
        <3>3. CASE Len(words) < n
            <4>1. ~Got(2, cliPending', cliBuf')
                BY <1>0, <1>1, <2>4, <2>7, <3>3 DEF Got
            <4>2. Wanted(cli', need', wt', cliPending', cliBuf') = 2
                BY <1>0, <2>7, <3>1, <4>1, CliDueValues DEF Wanted
            <4>. QED
                BY <1>0, <1>1, <2>3, <3>2, <3>3, <4>2
        <3>4. CASE ~(Len(words) < n)
            <4>1. Len(toClient') = Len(toClient) + Len(words) - n
                BY <1>0, <1>1, <2>3, <3>4
            <4>. QED
                BY <1>0, <1>1, <1>2, <2>7, <3>2, <4>1
        <3>. QED
            BY <2>5, <3>3, <3>4
    <2>. QED
        BY <1>3, <2>6, <2>7, ReplySizes DEF Readers
<1>4. CASE ~(link = "open" /\ cliPending > 0)
    <2>1. Wanted(cli', need', wt', cliPending', cliBuf') = Wanted(cli, need, wt, cliPending, cliBuf)
        <3>1. UNCHANGED <<cliPending, cliBuf>>
            BY <1>4 DEF ServerWrite
        <3>. QED
            BY <1>0, <3>1
    <2>2. Len(toClient') <= Len(toClient) + Len(words)
        <3>1. toClient' = toClient \/ toClient' = toClient \o words
            BY <1>4 DEF ServerWrite
        <3>2. Len(toClient \o words) = Len(toClient) + Len(words)
            BY <1>0, ConcatProperties
        <3>. QED
            BY <1>1, <3>1, <3>2
    <2>3. Len(toClient') \in Nat
        <3>1. toClient' = toClient \/ toClient' = toClient \o words
            BY <1>4 DEF ServerWrite
        <3>2. Len(toClient \o words) = Len(toClient) + Len(words)
            BY <1>0, ConcatProperties
        <3>. QED
            BY <1>1, <3>1, <3>2
    <2>. QED
        BY <1>1, <1>2, <2>1, <2>2, <2>3
<1>. QED
    BY <1>3, <1>4

\* A step that writes words owes as many less.
LEMMA WritingBalance ==
    ASSUME Types, Readers, Counted, Balance, NEW words \in Seq(Wire), ServerWrite(words),
           UNCHANGED cliVars,
           Owed(toServer', ice', srvBuf', iceBuf', emu', running') + Len(words)
             <= Owed(toServer, ice, srvBuf, iceBuf, emu, running)
    PROVE  Balance'
<1>1. Len(toClient') + Wanted(cli, need, wt, cliPending, cliBuf)
        <= Len(toClient) + Len(words) + Wanted(cli', need', wt', cliPending', cliBuf')
    BY ServerWriteWanted
<1>2. Len(words) \in Nat /\ strikes' = strikes
    BY LenProperties DEF cliVars
<1>3. Len(toClient') + Owed(toServer', ice', srvBuf', iceBuf', emu', running')
          + Wanted(cli, need, wt, cliPending, cliBuf)
        <= Len(toClient) + Owed(toServer, ice, srvBuf, iceBuf, emu, running)
          + Wanted(cli', need', wt', cliPending', cliBuf')
    BY <1>1, <1>2 DEF Counted
<1>. QED
    BY <1>2, <1>3, KeepsBalance

\* MAVERICK ends: nothing is owed any more, and a read that is pending fails.
LEMMA ClosingBalance ==
    ASSUME Types, Readers, Counted, Balance, ServerClose, emu' = "exit", ice' = "off",
           UNCHANGED cliVars
    PROVE  Balance'
<1>1. HeadDue(toServer') = 0 /\ HitDue(emu', running') = 0 /\ IceDue(ice', srvBuf', iceBuf') = 0
    BY HitDueValues, IceDueValues DEF ServerClose, HeadDue
<1>2. Owed(toServer', ice', srvBuf', iceBuf', emu', running') = 0
    BY <1>1 DEF Owed
<1>3. need \in Nat /\ UNCHANGED <<cli, need, wt, strikes, toClient, cliBuf>> /\ cliPending' = 0
    BY DEF ServerClose, cliVars, Types, CliTypes
<1>4. cliPending # 0 => cliBuf = <<>> /\ cliPending > 0
    BY DEF Readers, Types, PipeTypes
<1>5. MainDue(cli', need', cliPending', cliBuf') = MainDue(cli, need, cliPending, cliBuf)
    <2>1. CASE cliPending = 0
        BY <1>3, <2>1
    <2>2. CASE cliPending # 0
        <3>1. Len(cliBuf) = 0
            BY <1>4, <2>2
        <3>2. Got(need, 0, cliBuf) => need = 0
            BY <1>3, <3>1 DEF Got
        <3>. QED
            BY <1>3, <2>2, <3>2 DEF MainDue, Got
    <2>. QED
        BY <2>1, <2>2
<1>6. WtDue(wt', cliPending', cliBuf') = WtDue(wt, cliPending, cliBuf)
    <2>1. CASE cliPending = 0
        BY <1>3, <2>1
    <2>2. CASE cliPending # 0
        <3>1. Len(cliBuf) = 0
            BY <1>4, <2>2
        <3>2. ~Got(2, 0, cliBuf)
            BY <3>1 DEF Got
        <3>. QED
            BY <1>3, <2>2, <3>2, ReplySizes DEF WtDue, Got
    <2>. QED
        BY <2>1, <2>2
<1>7. Wanted(cli', need', wt', cliPending', cliBuf') = Wanted(cli, need, wt, cliPending, cliBuf)
    BY <1>5, <1>6 DEF Wanted
<1>8. Len(toClient') + Owed(toServer', ice', srvBuf', iceBuf', emu', running')
          + Wanted(cli, need, wt, cliPending, cliBuf)
        <= Len(toClient) + Owed(toServer, ice, srvBuf, iceBuf, emu, running)
          + Wanted(cli', need', wt', cliPending', cliBuf')
    BY <1>2, <1>3, <1>7 DEF Counted
<1>. QED
    BY <1>3, <1>8, KeepsBalance

LEMMA EmulatorBalance ==
    ASSUME Types, Readers, Counted, Balance, Emulator, UNCHANGED cliVars
    PROVE  Balance'
<1>1. /\ HeadDue(toServer) \in Nat /\ HeadDue(srvBuf) \in Nat
      /\ IceDue(ice, srvBuf, iceBuf) \in Nat /\ HitDue(emu, running) \in Nat
      /\ running \in BOOLEAN
    BY OwedParts DEF Types, MavTypes
<1>2. ASSUME UNCHANGED <<pipeVars, ice, iceBuf>>, HitDue(emu', running') <= HitDue(emu, running),
             HitDue(emu', running') \in Nat
      PROVE  Balance'
    <2>1. Owed(toServer', ice', srvBuf', iceBuf', emu', running')
            <= Owed(toServer, ice, srvBuf, iceBuf, emu, running)
        BY <1>1, <1>2 DEF Owed, pipeVars
    <2>. QED
        BY <1>2, <2>1, QuietServerBalance DEF pipeVars
<1>3. CASE EmuCreate
    <2>1. /\ HitDue(emu, running) = 0 /\ HitDue(emu', running') = 0
        BY <1>3, HitDueValues DEF EmuCreate
    <2>2. IceDue(ice, srvBuf, iceBuf) = 0 /\ IceDue(ice', srvBuf', iceBuf') = 0
        BY <1>3, IceDueValues DEF EmuCreate, Readers
    <2>3. Owed(toServer', ice', srvBuf', iceBuf', emu', running')
            <= Owed(toServer, ice, srvBuf, iceBuf, emu, running)
        BY <1>1, <1>3, <2>1, <2>2 DEF Owed, EmuCreate
    <2>. QED
        BY <1>3, <2>3, QuietServerBalance DEF EmuCreate
<1>4. CASE EmuPark
    <2>1. HitDue(emu', running') = 0
        BY <1>4, HitDueValues DEF EmuPark
    <2>2. UNCHANGED <<pipeVars, ice, iceBuf>>
        BY <1>4 DEF EmuPark, iceVars
    <2>. QED
        BY <1>1, <1>2, <2>1, <2>2
<1>5. CASE EmuAlloc \/ EmuLoad \/ EmuTop
    <2>1. /\ UNCHANGED <<pipeVars, ice, iceBuf, running>>
          /\ emu \in {"alloc", "load", "top"} /\ emu' \in {"load", "top", "spin"}
        BY <1>5 DEF EmuAlloc, EmuLoad, EmuTop, iceVars, cpuVars
    <2>2. HitDue(emu', running') = HitDue(emu, running)
        BY <1>1, <2>1, HitDueValues
    <2>. QED
        BY <1>1, <1>2, <2>1, <2>2
<1>6. CASE EmuSpin
    <2>1. HitDue(emu', running') = 2 /\ HitDue(emu, running) = 2
        BY <1>1, <1>6, HitDueValues DEF EmuSpin, cpuVars
    <2>2. UNCHANGED <<pipeVars, ice, iceBuf>>
        BY <1>6 DEF EmuSpin, iceVars
    <2>. QED
        BY <1>2, <2>1, <2>2
<1>7. CASE EmuHit \/ EmuFetch
    <2>1. HitDue(emu, running) = 2
        BY <1>7, HitDueValues DEF EmuHit, EmuFetch
    <2>2. HitDue(emu', running') \in {0, 2}
        BY HitDueValues
    <2>3. UNCHANGED <<pipeVars, ice, iceBuf>>
        BY <1>7 DEF EmuHit, EmuFetch, iceVars
    <2>. QED
        BY <1>2, <2>1, <2>2, <2>3
<1>8. CASE EmuExec
    <2>1. /\ UNCHANGED <<pipeVars, ice, iceBuf, running>>
          /\ emu = "exec" /\ emu' = "top"
        BY <1>8 DEF EmuExec, iceVars
    <2>2. HitDue(emu', running') = HitDue(emu, running)
        BY <1>1, <2>1, HitDueValues
    <2>. QED
        BY <1>1, <1>2, <2>1, <2>2
<1>9. CASE EmuClear
    <2>1. HitDue(emu', running') = 0
        BY <1>9, HitDueValues DEF EmuClear
    <2>2. UNCHANGED <<pipeVars, ice, iceBuf>>
        BY <1>9 DEF EmuClear, iceVars
    <2>. QED
        BY <1>1, <1>2, <2>1, <2>2
<1>10. CASE EmuReport
    <2>1. HitDue(emu, running) = 2 /\ HitDue(emu', running') = 0
        BY <1>10, HitDueValues DEF EmuReport
    <2>2. /\ Reply(HitKind) \in Seq(Wire) /\ Len(Reply(HitKind)) = 2
          /\ ServerWrite(Reply(HitKind))
        BY <1>10, RepliesAreWire DEF EmuReport
    <2>3. UNCHANGED <<toServer, ice, srvBuf, iceBuf>>
        BY <1>10 DEF EmuReport, iceVars, ServerWrite
    <2>4. Owed(toServer', ice', srvBuf', iceBuf', emu', running') + 2
            <= Owed(toServer, ice, srvBuf, iceBuf, emu, running)
        BY <1>1, <2>1, <2>3 DEF Owed
    <2>. QED
        BY <2>2, <2>4, WritingBalance
<1>11. CASE EmuExit
    BY <1>11, ClosingBalance DEF EmuExit
<1>. QED
    BY <1>3, <1>4, <1>5, <1>6, <1>7, <1>8, <1>9, <1>10, <1>11 DEF Emulator

\* The command that is executed owes its answer from now on.
LEMMA TakenBalance ==
    ASSUME Types, Readers, Counted, Balance, NEW cmds, IceTake(cmds), UNCHANGED cliVars,
           UNCHANGED emu, HitDue(emu', running') <= HitDue(emu, running),
           iceBuf' \in Seq(Wire), IceDue(ice', srvBuf', iceBuf') <= Due(Taken)
    PROVE  Balance'
<1>1. /\ HeadDue(toServer) \in Nat /\ HitDue(emu, running) \in Nat
    BY OwedParts
<1>2. Taken \in Sent /\ Due(Taken) \in Nat
    BY IceTakeTypes, DueValues DEF Types
<1>3. /\ ice = "got" /\ srvBuf # <<>>
      /\ UNCHANGED <<toServer, toClient, cliPending, cliBuf>>
    BY DEF IceTake
<1>4. IceDue(ice, srvBuf, iceBuf) = Due(Taken)
    BY <1>3, IceDueValues DEF HeadDue, Taken
<1>5. /\ HeadDue(toServer') \in Nat /\ IceDue(ice', srvBuf', iceBuf') \in Nat
      /\ HitDue(emu', running') \in Nat
    <2>1. toServer' \in Seq(Sent) /\ srvBuf' \in Seq(Sent)
        BY IceTakeTypes DEF Types, PipeTypes
    <2>2. iceBuf' \in Seq(Wire)
        OBVIOUS
    <2>. QED
        BY <2>1, <2>2, OwedIsNat
<1>6. Owed(toServer', ice', srvBuf', iceBuf', emu', running')
        <= Owed(toServer, ice, srvBuf, iceBuf, emu, running)
    BY <1>1, <1>2, <1>3, <1>4, <1>5 DEF Owed
<1>. QED
    BY <1>3, <1>6, QuietServerBalance

\* A snapshot has as many words as the query is due.
LEMMA SnapshotLength ==
    ASSUME NEW p \in Sent, p.cmd \in {"DUMP_REGS", "DUMP_MEMORY", "LIST_BP", "LIST_WP"}
    PROVE  Len(Snapshot(p)) = Due(p)
<1>1. CASE p.cmd = "DUMP_MEMORY"
    <2>1. MemoryWords(p.arg) \in Nat /\ "mem" \in Kinds /\ Due(p) = MemoryWords(p.arg)
        BY <1>1, KindNames, DueValues DEF Sent, MemoryWords
    <2>2. Len(Words("mem", MemoryWords(p.arg))) = MemoryWords(p.arg)
        BY <2>1, WordsAreWire
    <2>. QED
        BY <1>1, <2>1, <2>2 DEF Snapshot
<1>2. CASE p.cmd = "DUMP_REGS"
    BY <1>2, RepliesAreWire, DueValues DEF Snapshot
<1>3. CASE p.cmd \in {"LIST_BP", "LIST_WP"}
    BY <1>3, RepliesAreWire, DueValues DEF Snapshot
<1>. QED
    BY <1>1, <1>2, <1>3

LEMMA IceThreadBalance ==
    ASSUME Types, Types', Readers, Counted, Balance, IceThread, UNCHANGED cliVars
    PROVE  Balance'
<1>1. /\ HeadDue(toServer) \in Nat /\ HeadDue(srvBuf) \in Nat
      /\ IceDue(ice, srvBuf, iceBuf) \in Nat /\ HitDue(emu, running) \in Nat
      /\ running \in BOOLEAN /\ Len(iceBuf) \in Nat
    BY OwedParts DEF Types, MavTypes
<1>0. iceBuf' \in Seq(Wire)
    BY DEF Types, MavTypes
<1>2. ASSUME UNCHANGED <<toServer, toClient, cliPending, cliBuf, emu, running>>,
             IceDue(ice', srvBuf', iceBuf') = IceDue(ice, srvBuf, iceBuf)
      PROVE  Balance'
    <2>1. Owed(toServer', ice', srvBuf', iceBuf', emu', running')
            <= Owed(toServer, ice, srvBuf, iceBuf, emu, running)
        BY <1>1, <1>2 DEF Owed
    <2>. QED
        BY <1>2, <2>1, QuietServerBalance
<1>3. CASE IceConnect
    <2>1. IceDue(ice', srvBuf', iceBuf') = IceDue(ice, srvBuf, iceBuf)
        BY <1>3, IceDueValues DEF IceConnect
    <2>. QED
        BY <1>2, <1>3, <2>1 DEF IceConnect, pipeVars, cpuVars, emuVars
<1>4. CASE IceCsip
    <2>2. IceDue(ice, srvBuf, iceBuf) = 2
        BY <1>4, IceDueValues DEF IceCsip
    <2>3. IceDue(ice', srvBuf', iceBuf') = Len(iceBuf')
        BY <1>4, IceDueValues DEF IceCsip
    <2>4. iceBuf' = Reply(BrkKind) /\ Len(Reply(BrkKind)) = 2
        BY <1>4, RepliesAreWire DEF IceCsip
    <2>1. IceDue(ice', srvBuf', iceBuf') = IceDue(ice, srvBuf, iceBuf)
        BY <2>2, <2>3, <2>4, Zenon
    <2>. QED
        BY <1>2, <1>4, <2>1 DEF IceCsip, pipeVars, cpuVars, emuVars
<1>5. CASE IceTraced
    <2>2. IceDue(ice, srvBuf, iceBuf) = 7
        BY <1>5, IceDueValues DEF IceTraced
    <2>3. IceDue(ice', srvBuf', iceBuf') = Len(iceBuf')
        BY <1>5, IceDueValues DEF IceTraced
    <2>4. iceBuf' = Reply("step") /\ Len(Reply("step")) = 7
        BY <1>5, RepliesAreWire DEF IceTraced
    <2>1. IceDue(ice', srvBuf', iceBuf') = IceDue(ice, srvBuf, iceBuf)
        BY <2>2, <2>3, <2>4, Zenon
    <2>. QED
        BY <1>2, <1>5, <2>1 DEF IceTraced, pipeVars, emuVars
<1>6. CASE IceRun
    <2>1. /\ IceDue(ice, srvBuf, iceBuf) = 2 /\ IceDue(ice', srvBuf', iceBuf') = 0
          /\ UNCHANGED <<toServer, toClient, cliPending, cliBuf>>
        BY <1>6, IceDueValues DEF IceRun, pipeVars
    <2>2. HitDue(emu', running') \in {0, 2}
        BY HitDueValues
    <2>3. Owed(toServer', ice', srvBuf', iceBuf', emu', running')
            <= Owed(toServer, ice, srvBuf, iceBuf, emu, running)
        BY <1>1, <2>1, <2>2 DEF Owed
    <2>. QED
        BY <2>1, <2>3, QuietServerBalance
<1>7. CASE IceRead
    <2>1. /\ IceDue(ice, srvBuf, iceBuf) = 0 /\ IceDue(ice', srvBuf', iceBuf') = HeadDue(srvBuf')
        BY <1>7, IceDueValues DEF IceRead
    <2>2. HeadDue(toServer') + HeadDue(srvBuf') = HeadDue(toServer)
        <3>1. CASE toServer # <<>>
            <4>1. srvBuf' = toServer /\ HeadDue(toServer') = 0
                BY <1>7, <3>1 DEF IceRead, HeadDue
            <4>. QED
                BY <1>1, <4>1
        <3>2. CASE toServer = <<>>
            <4>1. toServer' = <<>> /\ srvBuf' = <<>>
                BY <1>7, <3>2 DEF IceRead, Readers
            <4>. QED
                BY <3>2, <4>1 DEF HeadDue
        <3>. QED
            BY <3>1, <3>2
    <2>3. UNCHANGED <<toClient, cliPending, cliBuf, emu, running>>
        BY <1>7 DEF IceRead, cpuVars, emuVars
    <2>4. HeadDue(toServer') \in Nat /\ HeadDue(srvBuf') \in Nat
        <3>1. toServer' \in Seq(Sent) /\ srvBuf' \in Seq(Sent)
            BY DEF Types, PipeTypes
        <3>. QED
            BY <3>1, HeadDueIsNat
    <2>5. Owed(toServer', ice', srvBuf', iceBuf', emu', running')
            <= Owed(toServer, ice, srvBuf, iceBuf, emu, running)
        BY <1>1, <2>1, <2>2, <2>3, <2>4 DEF Owed
    <2>. QED
        BY <2>3, <2>5, QuietServerBalance
<1>8. CASE IceDisconnect
    <2>1. /\ IceDue(ice', srvBuf', iceBuf') = 0
          /\ UNCHANGED <<toServer, emu, running, cliPending, cliBuf, cli, need, wt, strikes>>
          /\ toClient' = <<>>
        BY <1>8, IceDueValues DEF IceDisconnect, cpuVars, emuVars, cliVars
    <2>2. Owed(toServer', ice', srvBuf', iceBuf', emu', running')
            <= Owed(toServer, ice, srvBuf, iceBuf, emu, running)
        BY <1>1, <2>1 DEF Owed
    <2>3. Wanted(cli', need', wt', cliPending', cliBuf') = Wanted(cli, need, wt, cliPending, cliBuf)
        BY <2>1
    <2>4. Len(toClient') = 0
        BY <2>1
    <2>5. Len(toClient') + Owed(toServer', ice', srvBuf', iceBuf', emu', running')
              + Wanted(cli, need, wt, cliPending, cliBuf)
            <= Len(toClient) + Owed(toServer, ice, srvBuf, iceBuf, emu, running)
              + Wanted(cli', need', wt', cliPending', cliBuf')
        BY <2>2, <2>3, <2>4 DEF Counted
    <2>. QED
        BY <2>1, <2>5, KeepsBalance
<1>9. ASSUME NEW cmds, IceTake(cmds), UNCHANGED <<emu, running>>,
             IceDue(ice', srvBuf', iceBuf') <= Due(Taken)
      PROVE  Balance'
    BY <1>0, <1>1, <1>9, TakenBalance
<1>10. ASSUME NEW cmds, IceTake(cmds)
       PROVE  Taken \in Sent /\ Taken.cmd \in cmds
    BY <1>10, IceTakeTypes DEF Types
<1>11. CASE IceGo
    <2>1. Due(Taken) = 2 /\ IceDue(ice', srvBuf', iceBuf') = 2
        BY <1>10, <1>11, DueValues, IceDueValues DEF IceGo
    <2>. QED
        BY <1>9, <1>11, <2>1 DEF IceGo, emuVars
<1>12. CASE IceBreak
    <2>1. Due(Taken) = 2 /\ IceDue(ice', srvBuf', iceBuf') = 2
        BY <1>10, <1>12, DueValues, IceDueValues DEF IceBreak
    <2>2. HitDue(emu', running') <= HitDue(emu, running) /\ emu' = emu
        BY <1>12, HitDueValues DEF IceBreak, emuVars
    <2>3. IceTake({"BREAK"})
        BY <1>12 DEF IceBreak
    <2>. QED
        BY <1>0, <2>1, <2>2, <2>3, TakenBalance
<1>13. CASE IceTrace
    <2>1. Due(Taken) = 7 /\ IceDue(ice', srvBuf', iceBuf') = 7
        BY <1>10, <1>13, DueValues, IceDueValues DEF IceTrace
    <2>. QED
        BY <1>9, <1>13, <2>1 DEF IceTrace, cpuVars, emuVars
<1>14. CASE IceQuery
    <2>1. Taken \in Sent /\ Taken.cmd \in {"DUMP_REGS", "DUMP_MEMORY", "LIST_BP", "LIST_WP"}
        BY <1>10, <1>14 DEF IceQuery
    <2>2. Len(Snapshot(Taken)) = Due(Taken)
        BY <2>1, SnapshotLength
    <2>3. IceDue(ice', srvBuf', iceBuf') = Len(Snapshot(Taken)) /\ Due(Taken) \in Nat
        BY <1>14, <2>1, IceDueValues, DueValues DEF IceQuery
    <2>4. IceDue(ice', srvBuf', iceBuf') <= Due(Taken)
        BY <2>2, <2>3
    <2>5. /\ IceTake({"DUMP_REGS", "DUMP_MEMORY", "LIST_BP", "LIST_WP"})
          /\ UNCHANGED <<emu, running>>
        BY <1>14 DEF IceQuery, cpuVars, emuVars
    <2>. QED
        BY <1>9, <2>4, <2>5
<1>15. CASE IceSetBP
    <2>1. Due(Taken) = 1 /\ IceDue(ice', srvBuf', iceBuf') = 1
        <3>1. Due(Taken) = 1
            BY <1>10, <1>15, DueValues DEF IceSetBP
        <3>2. iceBuf' = Reply("idx") /\ Len(Reply("idx")) = 1 /\ ice' = "write"
            BY <1>15, RepliesAreWire DEF IceSetBP
        <3>3. IceDue(ice', srvBuf', iceBuf') = Len(iceBuf')
            BY <3>2, IceDueValues
        <3>. QED
            BY <3>1, <3>2, <3>3
    <2>. QED
        BY <1>9, <1>15, <2>1 DEF IceSetBP, cpuVars, emuVars
<1>16. CASE IceUnsetBP
    <2>1. Due(Taken) = 0 /\ IceDue(ice', srvBuf', iceBuf') = 0
        BY <1>10, <1>16, DueValues, IceDueValues DEF IceUnsetBP
    <2>. QED
        BY <1>9, <1>16, <2>1 DEF IceUnsetBP, cpuVars, emuVars
<1>17. CASE IceDefault
    <2>1. Due(Taken) = 0 /\ IceDue(ice', srvBuf', iceBuf') = 0
        BY <1>10, <1>17, DueValues, IceDueValues DEF IceDefault
    <2>. QED
        BY <1>9, <1>17, <2>1 DEF IceDefault, cpuVars, emuVars
<1>18. CASE IceWrite
    <2>1. /\ IceDue(ice, srvBuf, iceBuf) = Len(iceBuf) /\ IceDue(ice', srvBuf', iceBuf') = 0
          /\ iceBuf \in Seq(Wire) /\ ServerWrite(iceBuf)
        BY <1>18, IceDueValues DEF IceWrite, Types, MavTypes
    <2>2. UNCHANGED <<toServer, emu, running>>
        BY <1>18 DEF IceWrite, ServerWrite, cpuVars, emuVars
    <2>3. Owed(toServer', ice', srvBuf', iceBuf', emu', running') + Len(iceBuf)
            <= Owed(toServer, ice, srvBuf, iceBuf, emu, running)
        BY <1>1, <2>1, <2>2 DEF Owed
    <2>. QED
        BY <2>1, <2>3, WritingBalance
<1>19. CASE IceFault
    BY <1>19, ClosingBalance DEF IceFault
<1>. QED
    BY <1>3, <1>4, <1>5, <1>6, <1>7, <1>8, <1>11, <1>12, <1>13, <1>14, <1>15, <1>16, <1>17, <1>18,
       <1>19
       DEF IceThread

----------------------------------------------------------------------------
\* The balance step by step: the steps of ICEMAN.

\* A packet adds no more to what is owed than its own answer.
LEMMA ClientWriteOwed ==
    ASSUME Types, Readers, NEW packet \in Sent, ClientWrite(packet), UNCHANGED mavVars
    PROVE  /\ Owed(toServer', ice', srvBuf', iceBuf', emu', running')
                <= Owed(toServer, ice, srvBuf, iceBuf, emu, running) + Due(packet)
           /\ toClient' = toClient
<1>1. /\ HeadDue(toServer) \in Nat /\ IceDue(ice, srvBuf, iceBuf) \in Nat
      /\ HitDue(emu, running) \in Nat /\ Due(packet) \in Nat
    BY OwedParts, DueValues
<1>2. UNCHANGED <<ice, iceBuf, emu, running, toClient>>
    BY DEF ClientWrite, mavVars, cpuVars, emuVars, iceVars
<1>3. CASE link = "open" /\ srvPending
    <2>1. srvBuf' = <<packet>> /\ toServer' = toServer
        BY <1>3 DEF ClientWrite
    <2>2. ice = "got" /\ srvBuf = <<>>
        BY <1>3 DEF Readers
    <2>3. HeadDue(srvBuf') = Due(packet) /\ HeadDue(srvBuf) = 0
        BY <2>1, <2>2 DEF HeadDue
    <2>4. /\ IceDue(ice', srvBuf', iceBuf') = Due(packet)
          /\ IceDue(ice, srvBuf, iceBuf) = 0
        BY <1>2, <2>2, <2>3, IceDueValues
    <2>. QED
        BY <1>1, <1>2, <2>1, <2>4 DEF Owed
<1>4. CASE link = "open" /\ ~srvPending
    <2>1. toServer' = Append(toServer, packet) /\ srvBuf' = srvBuf
        BY <1>4 DEF ClientWrite
    <2>2. Head(toServer') = IF toServer = <<>> THEN packet ELSE Head(toServer)
        BY <2>1, HeadTailAppend DEF Types, PipeTypes
    <2>3. toServer' # <<>>
        BY <2>1, AppendProperties DEF Types, PipeTypes
    <2>4. HeadDue(toServer') <= HeadDue(toServer) + Due(packet)
        BY <1>1, <2>2, <2>3 DEF HeadDue
    <2>5. HeadDue(toServer') \in Nat
        BY <1>1, <2>2, <2>3 DEF HeadDue
    <2>. QED
        BY <1>1, <1>2, <2>1, <2>4, <2>5 DEF Owed
<1>5. CASE link # "open"
    <2>1. UNCHANGED <<toServer, srvBuf>>
        BY <1>5 DEF ClientWrite
    <2>. QED
        BY <1>1, <1>2, <2>1 DEF Owed
<1>. QED
    BY <1>3, <1>4, <1>5

\* Nothing is wanted at the prompt.
LEMMA PromptWantsNothing ==
    ASSUME Types, Readers, cli \in {"start", "break", "prompt"}
    PROVE  Wanted(cli, need, wt, cliPending, cliBuf) = 0
<1>1. wt = "off" /\ need \in Nat
    BY NoRead DEF Types, CliTypes
<1>. QED
    BY <1>1, CliDueValues DEF Wanted

\* A step that writes a packet and then wants at least its answer.
LEMMA AskingBalance ==
    ASSUME Types, Readers, Counted, Balance, NEW packet \in Sent, ClientWrite(packet),
           UNCHANGED mavVars, cli \in {"break", "prompt"}, strikes' = strikes,
           Due(packet) <= Wanted(cli', need', wt', cliPending', cliBuf')
    PROVE  Balance'
<1>1. /\ Owed(toServer', ice', srvBuf', iceBuf', emu', running')
           <= Owed(toServer, ice, srvBuf, iceBuf, emu, running) + Due(packet)
      /\ toClient' = toClient
    BY ClientWriteOwed
<1>2. Wanted(cli, need, wt, cliPending, cliBuf) = 0
    BY PromptWantsNothing
<1>3. Due(packet) \in Nat
    BY DueValues
<1>4. Len(toClient') = Len(toClient)
    BY <1>1
<1>5. Len(toClient') + Owed(toServer', ice', srvBuf', iceBuf', emu', running')
          + Wanted(cli, need, wt, cliPending, cliBuf)
        <= Len(toClient) + Owed(toServer, ice, srvBuf, iceBuf, emu, running)
          + Wanted(cli', need', wt', cliPending', cliBuf')
    BY <1>1, <1>2, <1>3, <1>4 DEF Counted
<1>. QED
    BY <1>5, KeepsBalance

\* A step of ICEMAN that takes words from the pipe, or none.
LEMMA QuietClientBalance ==
    ASSUME Counted, Balance, UNCHANGED <<mavVars, toServer, srvBuf, strikes>>,
           Len(toClient') + Wanted(cli, need, wt, cliPending, cliBuf)
             <= Len(toClient) + Wanted(cli', need', wt', cliPending', cliBuf')
    PROVE  Balance'
<1>1. UNCHANGED <<ice, iceBuf, emu, running>>
    BY DEF mavVars, cpuVars, emuVars, iceVars
<1>2. Owed(toServer', ice', srvBuf', iceBuf', emu', running')
        = Owed(toServer, ice, srvBuf, iceBuf, emu, running)
    BY <1>1
<1>3. Len(toClient') + Owed(toServer', ice', srvBuf', iceBuf', emu', running')
          + Wanted(cli, need, wt, cliPending, cliBuf)
        <= Len(toClient) + Owed(toServer, ice, srvBuf, iceBuf, emu, running)
          + Wanted(cli', need', wt', cliPending', cliBuf')
    BY <1>2 DEF Counted
<1>. QED
    BY <1>3, KeepsBalance

\* A read of n words brings n words, or brings fewer and empties the pipe.
LEMMA ReadBrings ==
    ASSUME Types, NEW n \in Nat, ClientRead(n), cliPending = 0
    PROVE  \/ Got(n, cliPending', cliBuf') /\ Len(toClient) >= n /\ Len(toClient') = Len(toClient) - n
           \/ Got(n, cliPending', cliBuf') /\ n = 0 /\ Len(toClient') = Len(toClient)
           \/ ~Got(n, cliPending', cliBuf') /\ Len(toClient') = 0
<1>1. toClient \in Seq(Wire) /\ Len(toClient) \in Nat
    BY LenProperties DEF Types, PipeTypes
<1>2. CASE toClient # <<>> /\ cliBuf' = First(toClient, n) /\ toClient' = Rest(toClient, n)
           /\ cliPending' = cliPending
    <2>1. /\ Len(cliBuf') = IF Len(toClient) < n THEN Len(toClient) ELSE n
          /\ Len(toClient') = IF Len(toClient) < n THEN 0 ELSE Len(toClient) - n
        BY <1>1, <1>2, SplitWords
    <2>. QED
        BY <1>1, <1>2, <2>1 DEF Got
<1>3. CASE toClient = <<>> /\ cliPending' = n /\ cliBuf' = <<>> /\ toClient' = toClient
    <2>1. Len(cliBuf') = 0 /\ Len(toClient') = 0 /\ Len(toClient) = 0
        BY <1>3
    <2>. QED
        BY <1>3, <2>1 DEF Got
<1>. QED
    BY <1>2, <1>3 DEF ClientRead

LEMMA CliBalance ==
    ASSUME Types, Types', Readers, Counted, Balance, MainThread \/ WaitThread \/ User,
           ~Killed, UNCHANGED mavVars
    PROVE  Balance'
<1>1. /\ need \in Nat /\ need' \in Nat /\ Len(toClient) \in Nat
      /\ toClient \in Seq(Wire) /\ cliPending \in Nat
    BY LenProperties DEF Types, CliTypes, PipeTypes
<1>2. CASE Open \/ Quit
    <2>1. /\ cli \in {"start", "prompt"} /\ cli' \in {"start", "break"}
          /\ UNCHANGED <<wt, toServer, srvBuf, strikes>>
          /\ toClient' = toClient \/ toClient' = <<>>
        BY <1>2 DEF Open, Quit, ClientOpen, ClientClose
    <2>2. wt = "off" /\ Wanted(cli, need, wt, cliPending, cliBuf) = 0
        BY <2>1, PromptWantsNothing, NoRead
    <2>3. Wanted(cli', need', wt', cliPending', cliBuf') = 0
        BY <1>1, <2>1, <2>2, CliDueValues DEF Wanted
    <2>4. Len(toClient') <= Len(toClient) /\ Len(toClient') \in Nat
        <3>1. Len(<<>>) = 0
            OBVIOUS
        <3>. QED
            BY <1>1, <2>1, <3>1
    <2>5. Len(toClient') + Wanted(cli, need, wt, cliPending, cliBuf)
            <= Len(toClient) + Wanted(cli', need', wt', cliPending', cliBuf')
        BY <1>1, <2>2, <2>3, <2>4
    <2>. QED
        BY <2>1, <2>5, QuietClientBalance
<1>3. ASSUME NEW packet \in Sent, NEW kind, NEW n \in Nat, Ask(packet, kind, n),
             cli \in {"break", "prompt"}, Due(packet) <= n
      PROVE  Balance'
    <2>1. /\ ClientWrite(packet) /\ cli' = "wait" /\ need' = n
          /\ UNCHANGED <<wt, strikes, cliPending, cliBuf>>
        BY <1>3 DEF Ask
    <2>2. wt' = "off"
        BY <1>3, <2>1, NoRead
    <2>3. Wanted(cli', need', wt', cliPending', cliBuf') = n
        BY <1>1, <2>1, <2>2, CliDueValues DEF Wanted
    <2>. QED
        BY <1>3, <2>1, <2>3, AskingBalance
<1>4. CASE SendBreak \/ Query \/ SetBP
    <2>1. PICK packet \in Sent, kind \in Kinds, n \in Nat :
              Ask(packet, kind, n) /\ Due(packet) <= n
        BY <1>4, Asked DEF Fits
    <2>2. cli \in {"break", "prompt"}
        BY <1>4 DEF SendBreak, Query, SetBP
    <2>. QED
        BY <1>3, <2>1, <2>2
<1>5. CASE Tell
    <2>1. PICK packet \in Sent : ClientWrite(packet) /\ Due(packet) = 0
        <3>1. \A a \in Targets : Due(Packet("UNSET_BP", a)) = 0
            BY PacketsAreSent, DueValues DEF Packet
        <3>2. Due(Packet("UNSET_WP", 0)) = 0
            BY PacketsAreSent, DueValues DEF Packet
        <3>. QED
            BY <1>5, <3>1, <3>2, PacketsAreSent DEF Tell
    <2>2. /\ cli = "prompt"
          /\ UNCHANGED <<cli, need, wt, strikes, cliPending, cliBuf>>
        BY <1>5 DEF Tell, cliVars
    <2>3. Wanted(cli', need', wt', cliPending', cliBuf') = 0
        BY <2>2, PromptWantsNothing
    <2>. QED
        BY <2>1, <2>2, <2>3, AskingBalance
<1>6. CASE Go
    <2>1. PICK packet \in Sent : ClientWrite(packet) /\ Due(packet) = 2
        <3>1. \A a \in Targets \cup {-1} : Due(Packet("GO", a)) = 2
            BY PacketsAreSent, DueValues DEF Packet
        <3>. QED
            BY <1>6, <3>1, PacketsAreSent DEF Go
    <2>2. cli = "prompt" /\ cli' = "poll" /\ wt' = "read" /\ strikes' = strikes
        BY <1>6 DEF Go
    <2>3. Wanted(cli', need', wt', cliPending', cliBuf') = 2
        BY <1>1, <2>2, CliDueValues DEF Wanted
    <2>. QED
        BY <2>1, <2>2, <2>3, AskingBalance
<1>7. CASE CliRead
    <2>1. /\ cli = "wait" /\ cli' = "check" /\ ClientRead(need)
          /\ UNCHANGED <<need, wt, strikes>>
        BY <1>7 DEF CliRead
    <2>2. cliPending = 0 /\ wt = "off"
        BY <2>1, NoRead
    <2>3. Wanted(cli, need, wt, cliPending, cliBuf) = need
        BY <1>1, <2>1, <2>2, CliDueValues DEF Wanted
    <2>4. Len(toClient') + need <= Len(toClient) + Wanted(cli', need', wt', cliPending', cliBuf')
        <3>1. CASE Got(need, cliPending', cliBuf')
            <4>1. Wanted(cli', need', wt', cliPending', cliBuf') = 0
                BY <1>1, <2>1, <2>2, <3>1, CliDueValues DEF Wanted
            <4>2. Len(toClient') + need = Len(toClient)
                BY <1>1, <2>1, <2>2, <3>1, ReadBrings
            <4>. QED
                BY <1>1, <4>1, <4>2
        <3>2. CASE ~Got(need, cliPending', cliBuf')
            <4>1. Wanted(cli', need', wt', cliPending', cliBuf') = need
                BY <1>1, <2>1, <2>2, <3>2, CliDueValues DEF Wanted
            <4>2. Len(toClient') = 0
                BY <1>1, <2>1, <2>2, <3>2, ReadBrings
            <4>. QED
                BY <1>1, <4>1, <4>2
        <3>. QED
            BY <3>1, <3>2
    <2>5. UNCHANGED <<toServer, srvBuf>>
        BY <2>1 DEF ClientRead
    <2>. QED
        BY <2>1, <2>3, <2>4, <2>5, QuietClientBalance
<1>8. CASE WtRead
    <2>1. /\ wt = "read" /\ wt' = "check" /\ ClientRead(2)
          /\ UNCHANGED <<cli, need, strikes>>
        BY <1>8, ReplySizes DEF WtRead
    <2>2. cli = "poll" /\ cliPending = 0
        BY <1>1, <2>1 DEF Readers
    <2>3. Wanted(cli, need, wt, cliPending, cliBuf) = 2
        BY <1>1, <2>1, <2>2, CliDueValues DEF Wanted
    <2>4. Len(toClient') + 2 <= Len(toClient) + Wanted(cli', need', wt', cliPending', cliBuf')
        <3>1. CASE Got(2, cliPending', cliBuf')
            <4>1. Wanted(cli', need', wt', cliPending', cliBuf') = 0
                BY <1>1, <2>1, <2>2, <3>1, CliDueValues DEF Wanted
            <4>2. Len(toClient') + 2 = Len(toClient)
                BY <1>1, <2>1, <2>2, <3>1, ReadBrings
            <4>. QED
                BY <1>1, <4>1, <4>2
        <3>2. CASE ~Got(2, cliPending', cliBuf')
            <4>1. Wanted(cli', need', wt', cliPending', cliBuf') = 2
                BY <1>1, <2>1, <2>2, <3>2, CliDueValues DEF Wanted
            <4>2. Len(toClient') = 0
                BY <1>1, <2>1, <2>2, <3>2, ReadBrings
            <4>. QED
                BY <1>1, <4>1, <4>2
        <3>. QED
            BY <3>1, <3>2
    <2>5. UNCHANGED <<toServer, srvBuf>>
        BY <2>1 DEF ClientRead
    <2>. QED
        BY <2>1, <2>3, <2>4, <2>5, QuietClientBalance
<1>9. ASSUME Wanted(cli', need', wt', cliPending', cliBuf') = Wanted(cli, need, wt, cliPending, cliBuf),
             UNCHANGED <<toServer, srvBuf, toClient, strikes>>
      PROVE  Balance'
    <2>1. Len(toClient') + Wanted(cli, need, wt, cliPending, cliBuf)
            <= Len(toClient) + Wanted(cli', need', wt', cliPending', cliBuf')
        BY <1>1, <1>9 DEF Counted
    <2>. QED
        BY <1>9, <2>1, QuietClientBalance
<1>10. CASE CliShort \/ CliAccept
    <2>1. /\ cli = "check" /\ wt = "off" /\ UNCHANGED <<wt, need, toServer, srvBuf, toClient, strikes>>
        BY <1>10 DEF CliShort, CliAccept, Readers, Types, CliTypes
    <2>2. \/ ~Got(need, cliPending, cliBuf) /\ cli' = "wait"
          \/ Got(need, cliPending, cliBuf) /\ cli' = "prompt"
        <3>1. Len(cliBuf) \in Nat
            BY LenProperties DEF Types, PipeTypes
        <3>. QED
            BY <1>1, <1>10, <3>1 DEF CliShort, CliAccept, Got
    <2>3. Wanted(cli', need', wt', cliPending', cliBuf') = Wanted(cli, need, wt, cliPending, cliBuf)
        BY <1>1, <2>1, <2>2, CliDueValues DEF Wanted
    <2>. QED
        BY <1>9, <2>1, <2>3
<1>11. CASE WtShort \/ WtAccept
    <2>1. /\ wt = "check" /\ cli = "poll" /\ UNCHANGED <<cli, need, toServer, srvBuf, toClient, strikes>>
        BY <1>11 DEF WtShort, WtAccept, Readers
    <2>2. \/ ~Got(2, cliPending, cliBuf) /\ wt' = "read"
          \/ Got(2, cliPending, cliBuf) /\ wt' = "set"
        <3>1. Len(cliBuf) \in Nat
            BY LenProperties DEF Types, PipeTypes
        <3>2. \/ cliPending = 0 /\ Len(cliBuf) < 2 /\ wt' = "read"
              \/ cliPending = 0 /\ Len(cliBuf) >= 2 /\ wt' = "set"
            BY <1>11 DEF WtShort, WtAccept, ReplyWords
        <3>. QED
            BY <3>1, <3>2 DEF Got
    <2>3. Wanted(cli', need', wt', cliPending', cliBuf') = Wanted(cli, need, wt, cliPending, cliBuf)
        BY <1>1, <2>1, <2>2, CliDueValues DEF Wanted
    <2>. QED
        BY <1>9, <2>1, <2>3
<1>12. CASE WtSet \/ Poll
    <2>1. /\ UNCHANGED <<need, toServer, srvBuf, toClient, strikes, cliPending, cliBuf>>
          /\ wt \in {"off", "set"} /\ wt' = "off" /\ cli = "poll" /\ cli' \in {"poll", "prompt"}
        BY <1>12 DEF WtSet, Poll, pipeVars, Readers
    <2>2. Wanted(cli', need', wt', cliPending', cliBuf') = Wanted(cli, need, wt, cliPending, cliBuf)
        BY <1>1, <2>1, CliDueValues DEF Wanted
    <2>. QED
        BY <1>9, <2>1, <2>2
<1>13. CASE Hotkey
    <2>1. /\ UNCHANGED <<need, toServer, srvBuf, toClient>> /\ strikes' = strikes + 1
          /\ cli = "poll" /\ cli' = "break" /\ wt' = "off"
        BY <1>13 DEF Hotkey
    <2>2. Wanted(cli', need', wt', cliPending', cliBuf') = 0
        BY <1>1, <2>1, CliDueValues DEF Wanted
    <2>3. MainDue(cli, need, cliPending, cliBuf) = 0
        BY <1>1, <2>1, CliDueValues
    <2>4. WtDue(wt, cliPending, cliBuf) \in {0, 2}
        BY ReplySizes DEF WtDue
    <2>5. Wanted(cli, need, wt, cliPending, cliBuf) <= 2
        BY <2>3, <2>4 DEF Wanted
    <2>6. Owed(toServer', ice', srvBuf', iceBuf', emu', running')
            = Owed(toServer, ice, srvBuf, iceBuf, emu, running)
        BY <2>1 DEF mavVars, cpuVars, emuVars, iceVars
    <2>7. Len(toClient) + Owed(toServer, ice, srvBuf, iceBuf, emu, running)
            <= Wanted(cli, need, wt, cliPending, cliBuf) + 2 * strikes
        BY ReplySizes DEF Balance
    <2>8. Len(toClient') + Owed(toServer', ice', srvBuf', iceBuf', emu', running')
            <= Wanted(cli', need', wt', cliPending', cliBuf') + 2 * strikes'
        BY <2>1, <2>2, <2>5, <2>6, <2>7 DEF Counted
    <2>. QED
        BY <2>8, ReplySizes DEF Balance
<1>. QED
    BY <1>2, <1>4, <1>5, <1>6, <1>7, <1>8, <1>10, <1>11, <1>12, <1>13
       DEF MainThread, WaitThread, User

----------------------------------------------------------------------------
\* The ends of the pipe agree on its state: Links is kept by every step.
LEMMA EmulatorLinks ==
    ASSUME Types, Links, Emulator, UNCHANGED cliVars
    PROVE  Links'
<1>. USE DEF Links, cliVars, iceVars
<1>1. CASE EmuCreate
    BY <1>1 DEF EmuCreate
<1>2. CASE EmuExit
    BY <1>2 DEF EmuExit, ServerClose
<1>3. CASE EmuReport
    <2>1. /\ emu' # "create" /\ UNCHANGED <<link, toServer, ice, srvPending, srvBuf, cli>>
          /\ link # "open" => toClient' = toClient
        BY <1>3 DEF EmuReport, ServerWrite
    <2>. QED
        BY <2>1
<1>4. CASE \/ EmuPark \/ EmuAlloc \/ EmuLoad \/ EmuTop \/ EmuSpin \/ EmuHit \/ EmuFetch
           \/ EmuExec \/ EmuClear
    <2>1. emu' # "create" /\ UNCHANGED <<iceVars, pipeVars>>
        BY <1>4
           DEF EmuPark, EmuAlloc, EmuLoad, EmuTop, EmuSpin, EmuHit, EmuFetch, EmuExec, EmuClear
    <2>. QED
        BY <2>1 DEF pipeVars
<1>. QED
    BY <1>1, <1>2, <1>3, <1>4 DEF Emulator

LEMMA IceThreadLinks ==
    ASSUME Types, Readers, Links, IceThread, UNCHANGED cliVars
    PROVE  Links'
<1>. USE DEF Links, cliVars, emuVars
<1>1. CASE IceConnect \/ IceRun \/ IceCsip \/ IceTraced
    <2>1. /\ ice \notin {"off", "got"} /\ ice' \notin {"got", "connect"}
          /\ UNCHANGED <<emu, pipeVars>> /\ (ice = "connect" => link \in {"open", "closed"})
        BY <1>1 DEF IceConnect, IceRun, IceCsip, IceTraced
    <2>. QED
        BY <2>1 DEF pipeVars
<1>2. CASE IceRead
    <2>1. /\ ice = "read" /\ ice' = "got" /\ UNCHANGED <<emu, link, toClient>>
          /\ \/ toServer # <<>> /\ srvBuf' = toServer /\ toServer' = <<>> /\ srvPending' = srvPending
             \/ /\ toServer = <<>> /\ toServer' = <<>> /\ srvBuf' = srvBuf
                /\ srvPending' = (link = "open")
        BY <1>2 DEF IceRead
    <2>2. ~srvPending /\ srvBuf = <<>> /\ link \in {"open", "closed"}
        BY <2>1 DEF Readers, Types, PipeTypes
    <2>3. CASE toServer # <<>>
        BY <2>1, <2>2, <2>3
    <2>4. CASE toServer = <<>> /\ link = "open"
        <3>1. srvPending' = TRUE /\ UNCHANGED <<toServer, srvBuf>>
            BY <2>1, <2>4
        <3>. QED
            BY <2>1, <2>2, <2>4, <3>1
    <2>5. CASE toServer = <<>> /\ link = "closed"
        <3>1. srvPending' = FALSE /\ UNCHANGED <<toServer, srvBuf>>
            BY <2>1, <2>5
        <3>. QED
            BY <2>1, <2>2, <2>5, <3>1
    <2>. QED
        BY <2>2, <2>3, <2>4, <2>5
<1>3. CASE IceDisconnect
    BY <1>3 DEF IceDisconnect
<1>4. CASE \/ IceGo \/ IceBreak \/ IceTrace \/ IceQuery \/ IceSetBP \/ IceUnsetBP \/ IceDefault
    <2>1. /\ ice = "got" /\ ~srvPending /\ srvBuf' = <<>>
          /\ UNCHANGED <<emu, link, toServer, toClient, srvPending>>
        BY <1>4 DEF IceGo, IceBreak, IceTrace, IceQuery, IceSetBP, IceUnsetBP, IceDefault, IceTake
    <2>2. ice' \notin {"off", "got", "connect"}
        BY <1>4 DEF IceGo, IceBreak, IceTrace, IceQuery, IceSetBP, IceUnsetBP, IceDefault
    <2>. QED
        BY <2>1, <2>2
<1>5. CASE IceWrite
    <2>1. /\ ice = "write" /\ ice' = "read"
          /\ UNCHANGED <<emu, link, toServer, srvPending, srvBuf>>
          /\ link # "open" => toClient' = toClient
        BY <1>5 DEF IceWrite, ServerWrite
    <2>. QED
        BY <2>1
<1>6. CASE IceFault
    BY <1>6 DEF IceFault, ServerClose
<1>. QED
    BY <1>1, <1>2, <1>3, <1>4, <1>5, <1>6 DEF IceThread

\* The steps of ICEMAN that write a packet.
LEMMA Writing ==
    ASSUME SendBreak \/ Query \/ SetBP \/ Tell \/ Go
    PROVE  \E packet \in Sent : /\ ClientWrite(packet)
                                /\ ~Go => packet.cmd # "GO"
<1>1. CASE SendBreak \/ Query \/ SetBP
    BY <1>1, Asked DEF Ask, Fits
<1>2. CASE Tell
    <2>1. \A a \in Targets : Packet("UNSET_BP", a) \in Sent /\ Packet("UNSET_BP", a).cmd # "GO"
        BY PacketsAreSent DEF Packet
    <2>2. Packet("UNSET_WP", 0) \in Sent /\ Packet("UNSET_WP", 0).cmd # "GO"
        BY PacketsAreSent DEF Packet
    <2>. QED
        BY <1>2, <2>1, <2>2 DEF Tell
<1>3. CASE Go
    BY <1>3, PacketsAreSent DEF Go
<1>. QED
    BY <1>1, <1>2, <1>3

LEMMA CliLinks ==
    ASSUME Types, Readers, Links, MainThread \/ WaitThread \/ User, UNCHANGED mavVars
    PROVE  Links'
<1>0. UNCHANGED <<ice, emu>>
    BY DEF mavVars, emuVars, iceVars
<1>1. CASE Open
    BY <1>0, <1>1 DEF Open, ClientOpen, Links
<1>2. CASE Quit \/ Killed
    <2>1. /\ cli # "start" /\ cli' = "start" /\ ClientClose
        BY <1>2 DEF Quit, Killed
    <2>2. srvPending => ice = "got" /\ srvBuf = <<>>
        BY DEF Readers
    <2>. QED
        BY <1>0, <2>1, <2>2 DEF ClientClose, Links
<1>3. CASE SendBreak \/ Query \/ SetBP \/ Tell \/ Go
    <2>1. PICK packet \in Sent : ClientWrite(packet)
        BY <1>3, Writing
    <2>2. cli # "start" /\ cli' # "start"
        BY <1>3 DEF SendBreak, Query, SetBP, Ask, Tell, Go, cliVars
    <2>3. srvPending => srvBuf = <<>>
        BY DEF Readers
    <2>4. link \in {"open", "broken"} /\ link' = link
        BY <2>1, <2>2 DEF Links, ClientWrite
    <2>5. CASE link = "open" /\ srvPending
        <3>1. srvBuf' = <<packet>> /\ srvPending' = FALSE /\ toServer' = toServer
            BY <2>1, <2>5 DEF ClientWrite
        <3>. QED
            BY <1>0, <2>2, <2>4, <2>5, <3>1 DEF Links
    <2>6. CASE link = "open" /\ ~srvPending
        <3>1. UNCHANGED <<srvBuf, srvPending>>
            BY <2>1, <2>6 DEF ClientWrite
        <3>. QED
            BY <1>0, <2>2, <2>4, <2>6, <3>1 DEF Links
    <2>7. CASE link = "broken"
        <3>1. UNCHANGED <<toServer, srvBuf, srvPending>>
            BY <2>1, <2>7 DEF ClientWrite
        <3>. QED
            BY <1>0, <2>2, <2>4, <2>7, <3>1 DEF Links
    <2>. QED
        BY <2>4, <2>5, <2>6, <2>7
<1>4. CASE \/ CliRead \/ CliShort \/ CliAccept \/ WaitThread \/ Poll \/ Hotkey
    <2>1. cli # "start" /\ cli' # "start"
        BY <1>4 DEF CliRead, CliShort, CliAccept, WaitThread, WtRead, WtShort, WtAccept, WtSet,
                    Poll, Hotkey, Readers
    <2>2. UNCHANGED <<link, toServer, srvPending, srvBuf>>
        BY <1>4 DEF CliRead, CliShort, CliAccept, WaitThread, WtRead, WtShort, WtAccept, WtSet,
                    Poll, Hotkey, ClientRead, pipeVars
    <2>. QED
        BY <1>0, <2>1, <2>2 DEF Links
<1>. QED
    BY <1>1, <1>2, <1>3, <1>4 DEF MainThread, User

----------------------------------------------------------------------------
\* The hits that are to come, step by step.

\* They are part of what is owed.
LEMMA HitsAreOwed ==
    ASSUME Types
    PROVE  /\ HitHead(toServer) \in Nat /\ IceHits(ice, srvBuf) \in Nat
           /\ HitDue(emu, running) \in Nat
           /\ HitsOwed(toServer, ice, srvBuf, emu, running) \in Nat
           /\ HitsOwed(toServer, ice, srvBuf, emu, running)
                <= Owed(toServer, ice, srvBuf, iceBuf, emu, running)
<1>1. /\ HeadDue(toServer) \in Nat /\ HeadDue(srvBuf) \in Nat
      /\ IceDue(ice, srvBuf, iceBuf) \in Nat /\ HitDue(emu, running) \in Nat
    BY OwedParts
<1>2. ASSUME NEW s \in Seq(Sent)
      PROVE  HitHead(s) \in Nat /\ HitHead(s) <= HeadDue(s)
    <2>1. HeadDue(s) \in Nat
        BY HeadDueIsNat
    <2>2. CASE s # <<>> /\ Head(s).cmd = "GO"
        <3>1. Head(s) \in Sent
            BY <2>2, HeadTailProperties
        <3>2. Due(Head(s)) = 2
            BY <2>2, <3>1, DueValues
        <3>. QED
            BY <2>2, <3>2, ReplySizes DEF HitHead, HeadDue
    <2>3. CASE ~(s # <<>> /\ Head(s).cmd = "GO")
        BY <2>1, <2>3 DEF HitHead
    <2>. QED
        BY <2>2, <2>3
<1>3. HitHead(toServer) \in Nat /\ HitHead(toServer) <= HeadDue(toServer)
    BY <1>2 DEF Types, PipeTypes
<1>4. HitHead(srvBuf) \in Nat /\ HitHead(srvBuf) <= HeadDue(srvBuf)
    BY <1>2 DEF Types, PipeTypes
<1>5. IceHits(ice, srvBuf) \in Nat /\ IceHits(ice, srvBuf) <= IceDue(ice, srvBuf, iceBuf)
    <2>1. CASE ice = "got"
        BY <1>4, <2>1 DEF IceHits, IceDue
    <2>2. CASE ice = "run"
        BY <2>2, ReplySizes DEF IceHits, IceDue
    <2>3. CASE ice \notin {"got", "run"}
        BY <1>1, <2>3 DEF IceHits
    <2>. QED
        BY <2>1, <2>2, <2>3
<1>. QED
    BY <1>1, <1>3, <1>5 DEF HitsOwed, Owed

\* MAVERICK brings hits about, and adds none.
LEMMA EmulatorHits ==
    ASSUME Types, Readers, Emulator
    PROVE  HitsOwed(toServer', ice', srvBuf', emu', running')
             <= HitsOwed(toServer, ice, srvBuf, emu, running)
<1>1. /\ HitHead(toServer) \in Nat /\ IceHits(ice, srvBuf) \in Nat
      /\ HitDue(emu, running) \in {0, 2} /\ HitDue(emu', running') \in {0, 2}
      /\ running \in BOOLEAN
    BY HitsAreOwed, HitDueValues DEF Types, MavTypes
<1>2. ASSUME UNCHANGED <<toServer, ice, srvBuf>>, HitDue(emu', running') <= HitDue(emu, running)
      PROVE  HitsOwed(toServer', ice', srvBuf', emu', running')
               <= HitsOwed(toServer, ice, srvBuf, emu, running)
    BY <1>1, <1>2 DEF HitsOwed
<1>3. CASE EmuCreate
    <2>1. /\ HitDue(emu', running') = 0 /\ IceHits(ice', srvBuf') = 0 /\ toServer' = toServer
        BY <1>3, HitDueValues DEF EmuCreate, IceHits
    <2>. QED
        BY <1>1, <2>1 DEF HitsOwed
<1>4. CASE EmuPark \/ EmuReport \/ EmuClear
    <2>1. HitDue(emu', running') = 0
        BY <1>4, HitDueValues DEF EmuPark, EmuReport, EmuClear
    <2>2. UNCHANGED <<toServer, ice, srvBuf>>
        BY <1>4 DEF EmuPark, EmuReport, EmuClear, ServerWrite, pipeVars, iceVars
    <2>. QED
        BY <1>1, <1>2, <2>1, <2>2
<1>5. CASE EmuAlloc \/ EmuLoad \/ EmuTop \/ EmuSpin \/ EmuHit \/ EmuFetch \/ EmuExec
    <2>1. UNCHANGED <<toServer, ice, srvBuf, running>>
        BY <1>5 DEF EmuAlloc, EmuLoad, EmuTop, EmuSpin, EmuHit, EmuFetch, EmuExec, pipeVars,
                    iceVars, cpuVars
    <2>2. MayHit(emu', running') => MayHit(emu, running)
        BY <1>5, <2>1
           DEF EmuAlloc, EmuLoad, EmuTop, EmuSpin, EmuHit, EmuFetch, EmuExec, MayHit
    <2>3. HitDue(emu', running') <= HitDue(emu, running)
        BY <2>2, ReplySizes DEF HitDue
    <2>. QED
        BY <1>2, <2>1, <2>3
<1>6. CASE EmuExit
    <2>1. HitDue(emu', running') = 0 /\ IceHits(ice', srvBuf') = 0 /\ HitHead(toServer') = 0
        BY <1>6, HitDueValues DEF EmuExit, ServerClose, IceHits, HitHead
    <2>. QED
        BY <1>1, <2>1 DEF HitsOwed
<1>. QED
    BY <1>3, <1>4, <1>5, <1>6 DEF Emulator

LEMMA IceThreadHits ==
    ASSUME Types, Readers, IceThread
    PROVE  HitsOwed(toServer', ice', srvBuf', emu', running')
             <= HitsOwed(toServer, ice, srvBuf, emu, running)
<1>1. /\ HitHead(toServer) \in Nat /\ IceHits(ice, srvBuf) \in Nat
      /\ HitDue(emu, running) \in {0, 2} /\ HitDue(emu', running') \in {0, 2}
    BY HitsAreOwed, HitDueValues DEF Types, MavTypes
<1>2. ASSUME UNCHANGED <<toServer, emu>>, running' = running \/ running' = FALSE,
             ice' \notin {"got", "run"}
      PROVE  HitsOwed(toServer', ice', srvBuf', emu', running')
               <= HitsOwed(toServer, ice, srvBuf, emu, running)
    <2>1. IceHits(ice', srvBuf') = 0
        BY <1>2 DEF IceHits
    <2>2. MayHit(emu', running') => MayHit(emu, running)
        BY <1>2 DEF MayHit
    <2>3. HitDue(emu', running') <= HitDue(emu, running)
        BY <2>2, ReplySizes DEF HitDue
    <2>. QED
        BY <1>1, <1>2, <2>1, <2>3 DEF HitsOwed
<1>3. CASE IceConnect \/ IceCsip \/ IceTraced \/ IceWrite \/ IceDisconnect
    <2>1. UNCHANGED <<toServer, emu, running>> /\ ice' \notin {"got", "run"}
        BY <1>3 DEF IceConnect, IceCsip, IceTraced, IceWrite, IceDisconnect, ServerWrite,
                    pipeVars, cpuVars, emuVars
    <2>. QED
        BY <1>2, <2>1
<1>4. CASE IceBreak \/ IceTrace \/ IceQuery \/ IceSetBP \/ IceUnsetBP \/ IceDefault
    <2>1. UNCHANGED <<toServer, emu>> /\ (running' = running \/ running' = FALSE)
        BY <1>4 DEF IceBreak, IceTrace, IceQuery, IceSetBP, IceUnsetBP, IceDefault, IceTake,
                    cpuVars, emuVars
    <2>2. ice' \notin {"got", "run"}
        BY <1>4 DEF IceBreak, IceTrace, IceQuery, IceSetBP, IceUnsetBP, IceDefault
    <2>. QED
        BY <1>2, <2>1, <2>2
<1>5. CASE IceRead
    <2>1. UNCHANGED <<emu, running>> /\ ice = "read" /\ ice' = "got"
        BY <1>5 DEF IceRead, cpuVars, emuVars
    <2>2. IceHits(ice', srvBuf') = HitHead(srvBuf')
        BY <2>1 DEF IceHits
    <2>3. HitHead(toServer') + HitHead(srvBuf') = HitHead(toServer)
        <3>1. CASE toServer # <<>>
            <4>1. srvBuf' = toServer /\ HitHead(toServer') = 0
                BY <1>5, <3>1 DEF IceRead, HitHead
            <4>. QED
                BY <1>1, <4>1
        <3>2. CASE toServer = <<>>
            <4>1. toServer' = <<>> /\ srvBuf' = <<>>
                BY <1>5, <3>2 DEF IceRead, Readers
            <4>. QED
                BY <3>2, <4>1 DEF HitHead
        <3>. QED
            BY <3>1, <3>2
    <2>4. HitHead(srvBuf') \in {0, 2} /\ HitHead(toServer') \in {0, 2}
        BY ReplySizes DEF HitHead
    <2>. QED
        BY <1>1, <2>1, <2>2, <2>3, <2>4 DEF HitsOwed
<1>6. CASE IceGo
    <2>1. /\ UNCHANGED <<toServer, emu, running>> /\ ice = "got" /\ ice' = "run"
          /\ srvBuf # <<>> /\ Head(srvBuf).cmd = "GO"
        BY <1>6 DEF IceGo, IceTake, Taken, emuVars
    <2>2. IceHits(ice', srvBuf') = IceHits(ice, srvBuf)
        BY <2>1 DEF IceHits, HitHead
    <2>. QED
        BY <1>1, <2>1, <2>2 DEF HitsOwed
<1>7. CASE IceRun
    <2>1. IceHits(ice, srvBuf) = 2 /\ IceHits(ice', srvBuf') = 0 /\ toServer' = toServer
        BY <1>7, ReplySizes DEF IceRun, IceHits, pipeVars
    <2>. QED
        BY <1>1, <2>1 DEF HitsOwed
<1>8. CASE IceFault
    <2>1. HitDue(emu', running') = 0 /\ IceHits(ice', srvBuf') = 0 /\ HitHead(toServer') = 0
        BY <1>8, HitDueValues DEF IceFault, ServerClose, IceHits, HitHead
    <2>. QED
        BY <1>1, <2>1 DEF HitsOwed
<1>. QED
    BY <1>3, <1>4, <1>5, <1>6, <1>7, <1>8 DEF IceThread

\* ICEMAN asks for a hit by GO alone.
LEMMA ClientHits ==
    ASSUME Types, Readers, MainThread \/ WaitThread \/ User, ~Go, UNCHANGED mavVars
    PROVE  HitsOwed(toServer', ice', srvBuf', emu', running')
             <= HitsOwed(toServer, ice, srvBuf, emu, running)
<1>0. UNCHANGED <<ice, emu, running>>
    BY DEF mavVars, cpuVars, emuVars, iceVars
<1>1. /\ HitHead(toServer) \in Nat /\ IceHits(ice, srvBuf) \in Nat
      /\ HitDue(emu, running) \in Nat
    BY HitsAreOwed
<1>2. ASSUME UNCHANGED <<toServer, srvBuf>>
      PROVE  HitsOwed(toServer', ice', srvBuf', emu', running')
               <= HitsOwed(toServer, ice, srvBuf, emu, running)
    BY <1>0, <1>1, <1>2 DEF HitsOwed
<1>3. CASE SendBreak \/ Query \/ SetBP \/ Tell
    <2>1. PICK packet \in Sent : ClientWrite(packet) /\ packet.cmd # "GO"
        BY <1>3, Writing
    <2>2. CASE srvBuf' = <<packet>> /\ toServer' = toServer
        <3>1. IceHits(ice', srvBuf') <= IceHits(ice, srvBuf)
            <4>1. HitHead(srvBuf') = 0
                BY <2>1, <2>2 DEF HitHead
            <4>2. CASE ice = "got"
                BY <1>0, <1>1, <4>1, <4>2 DEF IceHits
            <4>3. CASE ice # "got"
                BY <1>0, <1>1, <4>3 DEF IceHits
            <4>. QED
                BY <4>2, <4>3
        <3>2. IceHits(ice', srvBuf') \in {0, 2}
            BY ReplySizes DEF IceHits, HitHead
        <3>. QED
            BY <1>0, <1>1, <2>2, <3>1, <3>2 DEF HitsOwed
    <2>3. CASE toServer' = Append(toServer, packet) /\ srvBuf' = srvBuf
        <3>1. toServer \in Seq(Sent)
            BY DEF Types, PipeTypes
        <3>2. Head(Append(toServer, packet)) = IF toServer = <<>> THEN packet ELSE Head(toServer)
            BY <3>1
        <3>4. HitHead(toServer') \in {0, 2}
            BY ReplySizes DEF HitHead
        <3>5. ASSUME toServer = <<>>
              PROVE  HitHead(toServer') <= HitHead(toServer)
            <4>1. Head(toServer') = packet
                BY <2>3, <3>2, <3>5
            <4>2. HitHead(toServer') = 0
                BY <2>1, <4>1 DEF HitHead
            <4>. QED
                BY <1>1, <4>2
        <3>6. ASSUME toServer # <<>>
              PROVE  HitHead(toServer') <= HitHead(toServer)
            <4>1. Head(toServer') = Head(toServer)
                BY <2>3, <3>2, <3>6
            <4>2. HitHead(toServer) = IF Head(toServer).cmd = "GO" THEN 2 ELSE 0
                BY <3>6, ReplySizes DEF HitHead
            <4>3. HitHead(toServer') = 2 => Head(toServer').cmd = "GO"
                BY DEF HitHead
            <4>. QED
                BY <3>4, <4>1, <4>2, <4>3
        <3>3. HitHead(toServer') <= HitHead(toServer) /\ HitHead(toServer') \in {0, 2}
            BY <3>4, <3>5, <3>6
        <3>. QED
            BY <1>0, <1>1, <2>3, <3>3 DEF HitsOwed
    <2>4. CASE UNCHANGED <<toServer, srvBuf>>
        BY <1>2, <2>4
    <2>. QED
        BY <2>1, <2>2, <2>3, <2>4 DEF ClientWrite
<1>4. CASE Open \/ Quit \/ Killed
    BY <1>2, <1>4 DEF Open, Quit, Killed, ClientOpen, ClientClose
<1>5. CASE CliRead \/ CliShort \/ CliAccept \/ Poll \/ WaitThread \/ Hotkey
    <2>1. UNCHANGED <<toServer, srvBuf>>
        BY <1>5 DEF CliRead, CliShort, CliAccept, WaitThread, WtRead, WtShort, WtAccept, WtSet,
                    Poll, Hotkey, ClientRead, pipeVars
    <2>. QED
        BY <1>2, <2>1
<1>. QED
    BY <1>3, <1>4, <1>5 DEF MainThread, User

\* What the user does and the program does leaves the strikes alone.
LEMMA Striking ==
    ASSUME MainThread \/ WaitThread \/ User, strikes' # strikes
    PROVE  /\ Hotkey \/ Killed
           /\ strikes' = strikes + 1
<1>1. ASSUME NEW packet, NEW kind, NEW n, Ask(packet, kind, n)
      PROVE  strikes' = strikes
    BY <1>1 DEF Ask
<1>2. SendBreak \/ Query \/ SetBP => strikes' = strikes
    BY <1>1 DEF SendBreak, Query, SetBP
<1>3. MainThread => strikes' = strikes
    BY <1>2 DEF MainThread, Open, CliRead, CliShort, CliAccept, Poll
<1>4. WaitThread => strikes' = strikes
    BY DEF WaitThread, WtRead, WtShort, WtAccept, WtSet
<1>5. User => Hotkey \/ Killed
    BY <1>2 DEF User, Tell, Go, Quit, cliVars
<1>. QED
    BY <1>3, <1>4, <1>5 DEF Hotkey, Killed

\* The debugger that stops waiting for a hit has it, or gives it up.
LEMMA CliStrays ==
    ASSUME Types, Types', Readers, Strays, cli # "start" => Balance,
           MainThread \/ WaitThread \/ User, UNCHANGED mavVars
    PROVE  Strays'
<1>. DEFINE hits == HitsOwed(toServer, ice, srvBuf, emu, running)
            owed == Owed(toServer, ice, srvBuf, iceBuf, emu, running)
            wanted == Wanted(cli, need, wt, cliPending, cliBuf)
<1>. SUFFICES ASSUME cli' # "poll"
              PROVE  HitsOwed(toServer', ice', srvBuf', emu', running') <= 2 * strikes'
    BY ReplySizes DEF Strays
<1>1. hits \in Nat /\ hits <= owed /\ owed \in Nat
    BY HitsAreOwed, OwedIsNat DEF Types, PipeTypes, MavTypes
<1>2. strikes \in Nat /\ strikes' \in Nat /\ need \in Nat /\ Len(toClient) \in Nat
    BY UserAssumption, LenProperties DEF Types, CliTypes, PipeTypes
<1>3. HitsOwed(toServer', ice', srvBuf', emu', running') <= hits
    <2>1. ~Go
        BY DEF Go
    <2>. QED
        BY <2>1, ClientHits
<1>4. HitsOwed(toServer', ice', srvBuf', emu', running') \in Nat
    BY HitsAreOwed, <1>2 DEF HitsOwed, HitHead, IceHits, ReplyWords, HitDue
<1>5. strikes' = strikes \/ strikes' = strikes + 1
    BY Striking
<1>6. CASE cli # "poll"
    <2>1. hits <= 2 * strikes
        BY <1>6, ReplySizes DEF Strays
    <2>. HIDE DEF hits
    <2>. QED
        BY <1>1, <1>2, <1>3, <1>4, <1>5, <2>1
<1>7. CASE cli = "poll"
    <2>1. Len(toClient) + owed <= wanted + 2 * strikes
        BY <1>7, ReplySizes DEF Balance
    <2>2. MainDue(cli, need, cliPending, cliBuf) = 0
        BY <1>2, <1>7, CliDueValues
    <2>3. WtDue(wt, cliPending, cliBuf) \in {0, 2}
        BY ReplySizes DEF WtDue
    <2>4. wanted \in {0, 2}
        BY <2>2, <2>3 DEF Wanted
    <2>5. CASE strikes' = strikes
        <3>1. Poll
            <4>1. ~Hotkey /\ ~Killed
                BY <1>2, <2>5 DEF Hotkey, Killed
            <4>. QED
                BY <1>7, <4>1
                   DEF MainThread, Open, SendBreak, CliRead, CliShort, CliAccept, WaitThread,
                       WtRead, WtShort, WtAccept, WtSet, User, Query, SetBP, Tell, Go, Quit
        <3>2. wt = "off"
            BY <3>1 DEF Poll, Readers
        <3>3. wanted = 0
            BY <1>2, <1>7, <3>2, CliDueValues DEF Wanted
        <3>. HIDE DEF hits, owed, wanted
        <3>. QED
            BY <1>1, <1>2, <1>3, <1>4, <2>1, <2>5, <3>3
    <2>6. CASE strikes' = strikes + 1
        <3>. HIDE DEF hits, owed, wanted
        <3>. QED
            BY <1>1, <1>2, <1>3, <1>4, <2>1, <2>4, <2>6
    <2>. QED
        BY <1>5, <2>5, <2>6
<1>. QED
    BY <1>6, <1>7

LEMMA MavStrays ==
    ASSUME Types, Types', Readers, Strays, Emulator \/ IceThread, UNCHANGED cliVars
    PROVE  Strays'
<1>1. HitsOwed(toServer', ice', srvBuf', emu', running')
        <= HitsOwed(toServer, ice, srvBuf, emu, running)
    BY EmulatorHits, IceThreadHits
<1>2. /\ HitsOwed(toServer, ice, srvBuf, emu, running) \in Nat
      /\ HitsOwed(toServer', ice', srvBuf', emu', running') \in Nat
    BY HitsAreOwed DEF HitsOwed, HitHead, IceHits, ReplyWords, HitDue
<1>3. strikes \in Nat /\ UNCHANGED <<cli, strikes>>
    BY UserAssumption DEF Types, CliTypes, cliVars
<1>. QED
    BY <1>1, <1>2, <1>3, ReplySizes DEF Strays

\* The next debugger finds the pipe empty, and no more hits to come than its
\* predecessors gave up.
LEMMA OpenBalance ==
    ASSUME Types, Types', Readers, Links, Strays, Open, UNCHANGED mavVars
    PROVE  Balance'
<1>1. /\ cli = "start" /\ link = "listening" /\ toClient' = toClient /\ strikes' = strikes
      /\ UNCHANGED <<toServer, srvBuf, need, wt>> /\ cli' = "break"
    BY DEF Open, ClientOpen
<1>2. toClient = <<>> /\ toServer = <<>> /\ ice = "connect"
    BY <1>1 DEF Links
<1>3. UNCHANGED <<ice, iceBuf, emu, running>>
    BY DEF mavVars, cpuVars, emuVars, iceVars
<1>4. HitDue(emu, running) <= 2 * strikes
    <2>1. HitHead(toServer) = 0 /\ IceHits(ice, srvBuf) = 0
        BY <1>2 DEF HitHead, IceHits
    <2>2. HitDue(emu, running) \in Nat
        BY HitsAreOwed
    <2>. QED
        BY <1>1, <2>1, <2>2, ReplySizes DEF Strays, HitsOwed
<1>5. Owed(toServer', ice', srvBuf', iceBuf', emu', running') = HitDue(emu, running)
    <2>1. HeadDue(toServer) = 0 /\ IceDue(ice, srvBuf, iceBuf) = 0 /\ HitDue(emu, running) \in Nat
        BY <1>2, IceDueValues, HitsAreOwed DEF HeadDue
    <2>. QED
        BY <1>1, <1>3, <2>1 DEF Owed
<1>6. Wanted(cli', need', wt', cliPending', cliBuf') = 0
    <2>1. wt = "off" /\ need \in Nat
        BY <1>1, NoRead DEF Types, CliTypes
    <2>. QED
        BY <1>1, <2>1, CliDueValues DEF Wanted
<1>7. Len(toClient') = 0 /\ HitDue(emu, running) \in Nat /\ strikes \in Nat
    BY <1>1, <1>2, HitsAreOwed, UserAssumption DEF Types, CliTypes
<1>. QED
    BY <1>1, <1>4, <1>5, <1>6, <1>7, ReplySizes DEF Balance

----------------------------------------------------------------------------
LEMMA InitReplies ==
    ASSUME Init
    PROVE  ReplyInv
<1>1. Types
    BY InitTypes
<1>2. /\ toServer = <<>> /\ toClient = <<>> /\ ice = "off" /\ emu = "create" /\ cli = "start"
      /\ link = "none" /\ srvPending = FALSE /\ strikes = 0
    BY DEF Init, MavInit, CliInit, PipeInit
<1>3. Readers /\ Links
    BY <1>2 DEF Init, MavInit, CliInit, PipeInit, Readers, Links
<1>4. /\ HeadDue(toServer) = 0 /\ IceDue(ice, srvBuf, iceBuf) = 0 /\ HitDue(emu, running) = 0
      /\ HitHead(toServer) = 0 /\ IceHits(ice, srvBuf) = 0
    BY <1>2, IceDueValues, HitDueValues DEF HeadDue, HitHead, IceHits
<1>5. Wanted(cli, need, wt, cliPending, cliBuf) = 0 /\ Len(toClient) = 0
    BY <1>1, <1>2, <1>3, PromptWantsNothing
<1>6. Balance
    BY <1>2, <1>4, <1>5, ReplySizes DEF Balance, Owed
<1>7. Strays
    BY <1>2, <1>4, ReplySizes DEF Strays, HitsOwed
<1>. QED
    BY <1>1, <1>3, <1>6, <1>7 DEF ReplyInv

LEMMA StepReplies ==
    ASSUME ReplyInv, [Next]_vars
    PROVE  ReplyInv'
<1>1. Types /\ Readers /\ Links /\ Strays
    BY DEF ReplyInv
<1>2. Types'
    BY <1>1, StepTypes
<1>3. Counted
    BY <1>1, <1>2, TypesAreCounted
<1>4. CASE MavStep
    <2>1. (Emulator \/ IceThread) /\ UNCHANGED <<cliVars, cli, strikes>>
        BY <1>4 DEF MavStep, cliVars
    <2>2. Readers' /\ Links' /\ Strays'
        BY <1>1, <1>2, <2>1, EmulatorReaders, IceThreadReaders, EmulatorLinks, IceThreadLinks,
           MavStrays
    <2>3. Balance => Balance'
        BY <1>1, <1>2, <1>3, <2>1, EmulatorBalance, IceThreadBalance
    <2>. QED
        BY <1>2, <2>1, <2>2, <2>3 DEF ReplyInv
<1>5. CASE CliStep
    <2>1. (MainThread \/ WaitThread \/ User) /\ UNCHANGED mavVars
        BY <1>5 DEF CliStep
    <2>2. Readers' /\ Links'
        BY <1>1, <2>1, CliReaders, CliLinks
    <2>3. Strays'
        BY <1>1, <1>2, <2>1, CliStrays DEF ReplyInv
    <2>4. CASE Open
        BY <1>1, <1>2, <2>1, <2>2, <2>3, <2>4, OpenBalance DEF ReplyInv
    <2>5. CASE Killed
        <3>1. cli' = "start" /\ strikes' # 0
            BY <1>1, <2>5, UserAssumption DEF Killed, Types, CliTypes
        <3>. QED
            BY <1>2, <2>2, <2>3, <3>1 DEF ReplyInv
    <2>6. CASE ~Open /\ ~Killed
        <3>1. cli # "start"
            BY <1>1, <2>1, <2>6
               DEF MainThread, SendBreak, CliRead, CliShort, CliAccept, Poll, WaitThread, WtRead,
                   WtShort, WtAccept, WtSet, User, Query, SetBP, Tell, Go, Quit, Hotkey, Readers
        <3>2. Balance'
            BY <1>1, <1>2, <1>3, <2>1, <2>6, <3>1, CliBalance DEF ReplyInv
        <3>. QED
            BY <1>2, <2>2, <2>3, <3>2 DEF ReplyInv
    <2>. QED
        BY <2>4, <2>5, <2>6
<1>6. CASE UNCHANGED vars
    <2>1. UNCHANGED <<link, toServer, toClient, srvPending, srvBuf, cliPending, cliBuf, cli, need,
                      wt, complete, strikes, ice, iceBuf, emu, running>>
        BY <1>6 DEF vars, mavVars, cpuVars, emuVars, iceVars, cliVars, pipeVars
    <2>2. Readers' /\ Links'
        BY <1>1, <2>1 DEF Readers, Links
    <2>3. Strays'
        BY <1>1, <2>1 DEF Strays
    <2>4. Balance => Balance'
        BY <2>1 DEF Balance
    <2>. QED
        BY <1>2, <2>1, <2>2, <2>3, <2>4 DEF ReplyInv
<1>. QED
    BY <1>4, <1>5, <1>6 DEF Next

\* At the prompt nothing is wanted, so that what is left in the pipe is what
\* the strikes of the hotkey and the killed debuggers gave up: two words each,
\* in every session of every length, with every program (StrayReplies).
THEOREM StraysAreBounded ==
    Spec => []StrayReplies
<1>1. Init => ReplyInv
    BY InitReplies
<1>2. ReplyInv /\ [Next]_vars => ReplyInv'
    BY StepReplies
<1>3. ReplyInv => StrayReplies
    <2>. SUFFICES ASSUME ReplyInv, cli = "prompt"
                  PROVE  Len(toClient) <= ReplyWords["brk"] * strikes
        BY DEF StrayReplies
    <2>1. Wanted(cli, need, wt, cliPending, cliBuf) = 0
        BY PromptWantsNothing DEF ReplyInv
    <2>2. /\ Owed(toServer, ice, srvBuf, iceBuf, emu, running) \in Nat
          /\ Len(toClient) \in Nat /\ strikes \in Nat
        BY OwedIsNat, LenProperties, UserAssumption
           DEF ReplyInv, Types, PipeTypes, MavTypes, CliTypes
    <2>3. Len(toClient) + Owed(toServer, ice, srvBuf, iceBuf, emu, running) <= 2 * strikes
        BY <2>1, <2>2, ReplySizes DEF ReplyInv, Balance
    <2>4. Len(toClient) <= 2 * strikes
        BY <2>2, <2>3
    <2>. QED
        BY <2>4, ReplySizes
<1>. QED
    BY <1>1, <1>2, <1>3, PTL DEF Spec

----------------------------------------------------------------------------
(***************************************************************************)
(* Until the hotkey is struck or a debugger killed, a reply can only be    *)
(* the one that is awaited and the CPU stands still whenever the prompt is *)
(* shown.  The first strike ends both.                                     *)
(***************************************************************************)
Answering(c) == c \in {"wait", "check"}

\* The one reply that the client may read.
Awaited(c, kind, n) ==
    IF Answering(c) THEN Words(kind, n) ELSE IF c = "poll" THEN Reply(HitKind) ELSE <<>>

\* A question is the one whose answer is awaited.
Asks(packet, c, kind, n) ==
    packet.cmd \in Questions =>
        /\ IF packet.cmd = "GO" THEN c = "poll" ELSE Answering(c)
        /\ AnswerTo(packet) = Awaited(c, kind, n)

\* Wherever a reply is, it is the awaited one.
OnlyAwaited ==
    /\ Answering(cli) => need > 0
    /\ toServer # <<>> => Asks(Head(toServer), cli, expect, need)
    /\ srvBuf # <<>> => Asks(Head(srvBuf), cli, expect, need)
    /\ ice = "run" => cli = "poll"
    /\ ice = "csip" => Answering(cli) /\ Awaited(cli, expect, need) = Reply(BrkKind)
    /\ ice = "tracing" => Answering(cli) /\ Awaited(cli, expect, need) = Reply("step")
    /\ ice = "write" => Answering(cli) /\ Awaited(cli, expect, need) = iceBuf
    /\ MayHit(emu, running) => cli = "poll"
    /\ toClient \in {<<>>, Awaited(cli, expect, need)}
    /\ cli = "check" \/ wt = "check" => cliBuf \in {<<>>, Awaited(cli, expect, need)}

\* The CPU stands still, or will before its next instruction.
Halted(e, runs) == ~runs \/ e = "clear"

\* The CPU is stopped before the answer to BREAK and before the report of a
\* hit are written, or with the report.
StoppedInv ==
    /\ cli = "prompt" => Halted(emu, running)
    /\ Answering(cli) => \/ Halted(emu, running)
                         \/ /\ expect = BrkKind /\ ice \notin {"csip", "write"}
                            /\ toClient = <<>>
                            /\ cli = "check" => cliBuf = <<>>
    /\ cli = "poll" => \/ Halted(emu, running)
                       \/ /\ toClient = <<>> /\ wt \in {"read", "check"}
                          /\ wt = "check" => cliBuf = <<>>

\* Replies of different kinds differ.
LEMMA WordsTellKinds ==
    ASSUME NEW k, NEW j, NEW n \in Nat \ {0}, NEW m \in Nat, Words(k, n) = Words(j, m)
    PROVE  k = j
<1>1. DOMAIN Words(k, n) = 1 .. n /\ DOMAIN Words(j, m) = 1 .. m
    BY DEF Words
<1>2. 1 \in 1 .. n /\ 1 \in 1 .. m
    <2>1. 1 \in 1 .. n
        OBVIOUS
    <2>2. 1 .. n = 1 .. m
        BY <1>1, Zenon
    <2>. QED
        BY <2>1, <2>2
<1>3. Words(k, n)[1] = <<k, 1>> /\ Words(j, m)[1] = <<j, 1>>
    BY <1>2 DEF Words
<1>. QED
    BY <1>3

LEMMA AwaitedIsWire ==
    ASSUME Types
    PROVE  /\ Awaited(cli, expect, need) \in Seq(Wire)
           /\ Answering(cli) => Len(Awaited(cli, expect, need)) = need
           /\ cli = "poll" => Len(Awaited(cli, expect, need)) = 2
<1>1. expect \in Kinds /\ need \in Nat
    BY DEF Types, CliTypes
<1>2. Words(expect, need) \in Seq(Wire) /\ Len(Words(expect, need)) = need
    BY <1>1, WordsAreWire
<1>3. CASE Answering(cli)
    <2>1. Awaited(cli, expect, need) = Words(expect, need) /\ cli # "poll"
        BY <1>3 DEF Awaited, Answering
    <2>. QED
        BY <1>2, <2>1
<1>4. CASE cli = "poll"
    <2>1. Awaited(cli, expect, need) = Reply(HitKind) /\ ~Answering(cli)
        BY <1>4 DEF Awaited, Answering
    <2>. QED
        BY <2>1, RepliesAreWire
<1>5. CASE ~Answering(cli) /\ cli # "poll"
    BY <1>5, EmptySeq DEF Awaited
<1>. QED
    BY <1>3, <1>4, <1>5

\* A question is due the words of its answer.
LEMMA AnswersAreDue ==
    ASSUME NEW p \in Sent, p.cmd \in Questions
    PROVE  Len(AnswerTo(p)) = Due(p) /\ Due(p) > 0
<1>1. p.cmd \in Commands
    BY DEF Sent, Packets
<1>2. CASE p.cmd \in {"GO", "BREAK", "TRACE", "SET_BP"}
    <2>1. CASE p.cmd = "GO"
        <3>1. AnswerTo(p) = Reply(HitKind) /\ Due(p) = 2
            BY <2>1, DueValues DEF AnswerTo
        <3>. QED
            BY <3>1, RepliesAreWire
    <2>2. CASE p.cmd = "BREAK"
        <3>1. AnswerTo(p) = Reply(BrkKind) /\ Due(p) = 2
            BY <2>2, DueValues DEF AnswerTo
        <3>. QED
            BY <3>1, RepliesAreWire
    <2>3. CASE p.cmd = "TRACE"
        <3>1. AnswerTo(p) = Reply("step") /\ Due(p) = 7
            BY <2>3, DueValues DEF AnswerTo
        <3>. QED
            BY <3>1, RepliesAreWire
    <2>4. CASE p.cmd = "SET_BP"
        <3>1. AnswerTo(p) = Reply("idx") /\ Due(p) = 1
            BY <2>4, DueValues DEF AnswerTo
        <3>. QED
            BY <3>1, RepliesAreWire
    <2>. QED
        BY <1>2, <2>1, <2>2, <2>3, <2>4
<1>3. CASE p.cmd \in {"DUMP_REGS", "DUMP_MEMORY", "LIST_BP", "LIST_WP"}
    <2>1. Len(AnswerTo(p)) = Due(p)
        BY <1>3, SnapshotLength DEF AnswerTo
    <2>2. p.cmd = "DUMP_MEMORY" => p.arg \in Nat \ {0}
        BY DEF Sent
    <2>3. Due(p) > 0
        BY <1>3, <2>2, DueValues
    <2>. QED
        BY <2>1, <2>3
<1>. QED
    BY <1>1, <1>2, <1>3 DEF Questions, Commands

\* A word for a word: nothing has been given up yet.
LEMMA EvenBalance ==
    ASSUME Types, Readers, Balance, strikes = 0
    PROVE  Len(toClient) + HeadDue(toServer) + IceDue(ice, srvBuf, iceBuf) + HitDue(emu, running)
             <= Wanted(cli, need, wt, cliPending, cliBuf)
<1>1. /\ HeadDue(toServer) \in Nat /\ IceDue(ice, srvBuf, iceBuf) \in Nat
      /\ HitDue(emu, running) \in Nat /\ Len(toClient) \in Nat
    BY OwedParts
<1>2. Wanted(cli, need, wt, cliPending, cliBuf) \in Nat
    BY WantedIsNat DEF Types, CliTypes
<1>3. Len(toClient) + Owed(toServer, ice, srvBuf, iceBuf, emu, running)
        <= Wanted(cli, need, wt, cliPending, cliBuf)
    BY <1>2, ReplySizes DEF Balance
<1>. QED
    BY <1>1, <1>2, <1>3 DEF Owed

\* Where nothing is wanted no reply is anywhere, nor a question or a running
\* CPU that could lead to one.
Settled ==
    /\ toClient = <<>>
    /\ ice \notin {"run", "csip", "tracing", "write"}
    /\ ~MayHit(emu, running)
    /\ toServer # <<>> => Head(toServer).cmd \notin Questions
    /\ srvBuf # <<>> => Head(srvBuf).cmd \notin Questions

LEMMA NothingWanted ==
    ASSUME Types, Readers, Balance, OnlyAwaited, strikes = 0,
           Wanted(cli, need, wt, cliPending, cliBuf) = 0
    PROVE  Settled
<1>1. /\ HeadDue(toServer) \in Nat /\ IceDue(ice, srvBuf, iceBuf) \in Nat
      /\ HitDue(emu, running) \in Nat /\ Len(toClient) \in Nat /\ HeadDue(srvBuf) \in Nat
      /\ Len(iceBuf) \in Nat
    BY OwedParts
<1>2. /\ HeadDue(toServer) = 0 /\ IceDue(ice, srvBuf, iceBuf) = 0 /\ HitDue(emu, running) = 0
      /\ Len(toClient) = 0
    BY <1>1, EvenBalance
<1>3. toClient = <<>>
    BY <1>2, EmptySeq DEF Types, PipeTypes
<1>4. ice \notin {"run", "csip", "tracing"}
    BY <1>2, IceDueValues
<1>5. ice # "write"
    <2>. SUFFICES ASSUME ice = "write"
                  PROVE  FALSE
        OBVIOUS
    <2>1. Len(iceBuf) = 0
        BY <1>2, IceDueValues
    <2>2. Answering(cli) /\ Awaited(cli, expect, need) = iceBuf /\ need > 0
        BY DEF OnlyAwaited
    <2>3. Len(iceBuf) = need
        BY <2>2, AwaitedIsWire
    <2>. QED
        BY <2>1, <2>2, <2>3
<1>6. ~MayHit(emu, running)
    BY <1>2, ReplySizes DEF HitDue
<1>7. ASSUME NEW s \in Seq(Sent), s # <<>>, HeadDue(s) = 0
      PROVE  Head(s).cmd \notin Questions
    <2>1. Head(s) \in Sent /\ Due(Head(s)) = 0
        BY <1>7, HeadTailProperties DEF HeadDue
    <2>2. \A p \in Sent : p.cmd \in Questions => Due(p) > 0
        BY AnswersAreDue
    <2>. QED
        BY <2>1, <2>2
<1>8. toServer # <<>> => Head(toServer).cmd \notin Questions
    BY <1>2, <1>7 DEF Types, PipeTypes
<1>9. srvBuf # <<>> => Head(srvBuf).cmd \notin Questions
    <2>. SUFFICES ASSUME srvBuf # <<>>
                  PROVE  Head(srvBuf).cmd \notin Questions
        OBVIOUS
    <2>1. ice = "got"
        BY DEF Readers
    <2>2. HeadDue(srvBuf) = 0
        BY <1>2, <2>1, IceDueValues
    <2>. QED
        BY <1>7, <2>2 DEF Types, PipeTypes
<1>. QED
    BY <1>3, <1>4, <1>5, <1>6, <1>8, <1>9 DEF Settled

\* While the awaited reply is owed it has not been written, and somebody is
\* going to read it.
Outstanding ==
    /\ toClient = <<>>
    /\ cli = "check" \/ wt = "check" => cliBuf = <<>>
    /\ cli = "poll" => wt \in {"read", "check"}

LEMMA OwedIsOutstanding ==
    ASSUME Types, Readers, Balance, OnlyAwaited, strikes = 0,
           Answering(cli) \/ cli = "poll",
           \/ IceDue(ice, srvBuf, iceBuf) >= Len(Awaited(cli, expect, need))
           \/ HitDue(emu, running) >= Len(Awaited(cli, expect, need))
    PROVE  Outstanding
<1>1. /\ HeadDue(toServer) \in Nat /\ IceDue(ice, srvBuf, iceBuf) \in Nat
      /\ HitDue(emu, running) \in Nat /\ Len(toClient) \in Nat /\ need \in Nat
      /\ toClient \in Seq(Wire) /\ cliBuf \in Seq(Wire) /\ cliPending \in Nat
    BY OwedParts DEF Types, CliTypes, PipeTypes
<1>. DEFINE n == Len(Awaited(cli, expect, need))
<1>2. n \in Nat \ {0} /\ n = (IF cli = "poll" THEN 2 ELSE need)
    <2>1. CASE cli = "poll"
        BY <2>1, AwaitedIsWire, SMTT(30)
    <2>2. CASE Answering(cli)
        <3>1. need > 0 /\ n = need /\ cli # "poll"
            BY <2>2, AwaitedIsWire DEF OnlyAwaited, Answering
        <3>. QED
            BY <1>1, <3>1
    <2>. QED
        BY <2>1, <2>2
<1>3. Wanted(cli, need, wt, cliPending, cliBuf) >= n + Len(toClient)
    <2>1. Wanted(cli, need, wt, cliPending, cliBuf) \in Nat
        BY <1>1, WantedIsNat
    <2>. HIDE DEF n
    <2>. QED
        BY <1>1, <1>2, <2>1, EvenBalance DEF n
<1>4. ASSUME cli = "check" \/ wt = "check", ~Got(n, cliPending, cliBuf)
      PROVE  cliBuf = <<>>
    <2>1. cliPending > 0 => cliBuf = <<>>
        BY DEF Readers
    <2>2. cliBuf = Awaited(cli, expect, need) => Len(cliBuf) = n
        OBVIOUS
    <2>3. cliBuf \in {<<>>, Awaited(cli, expect, need)}
        BY <1>4 DEF OnlyAwaited
    <2>4. cliPending = 0 /\ Len(cliBuf) = n => Got(n, cliPending, cliBuf)
        BY <1>2 DEF Got
    <2>. QED
        BY <1>1, <1>4, <2>1, <2>2, <2>3, <2>4
<1>. HIDE DEF n
<1>5. CASE Answering(cli)
    <2>1. wt = "off" /\ n = need /\ cli \in {"wait", "check"}
        BY <1>2, <1>5 DEF Readers, Answering, Types, CliTypes
    <2>2. WtDue(wt, cliPending, cliBuf) = 0
        BY <2>1, CliDueValues
    <2>3. MainDue(cli, need, cliPending, cliBuf) >= n + Len(toClient)
        BY <1>1, <1>3, <2>2, WantedIsNat DEF Wanted
    <2>4. CASE Len(toClient) = 0 /\ (cli = "check" => ~Got(n, cliPending, cliBuf))
        BY <1>1, <1>4, <2>1, <2>4, EmptySeq DEF Outstanding
    <2>5. CASE cli = "check" /\ Got(n, cliPending, cliBuf)
        <3>1. MainDue(cli, need, cliPending, cliBuf) = 0
            BY <1>1, <2>1, <2>5, CliDueValues
        <3>. QED
            BY <1>1, <1>2, <2>3, <3>1
    <2>6. MainDue(cli, need, cliPending, cliBuf) \in {0, n}
        BY <1>1, <2>1, CliDueValues
    <2>7. Len(toClient) = 0
        BY <1>1, <1>2, <2>3, <2>6
    <2>. QED
        BY <2>4, <2>5, <2>7
<1>6. CASE cli = "poll"
    <2>1. n = 2 /\ MainDue(cli, need, cliPending, cliBuf) = 0
        BY <1>1, <1>2, <1>6, CliDueValues
    <2>2. WtDue(wt, cliPending, cliBuf) >= 2 + Len(toClient)
        BY <1>1, <1>3, <2>1, WantedIsNat DEF Wanted
    <2>3. wt \in WtStates
        BY DEF Types, CliTypes
    <2>4. WtDue(wt, cliPending, cliBuf) \in {0, 2}
        BY ReplySizes DEF WtDue
    <2>5. Len(toClient) = 0 /\ WtDue(wt, cliPending, cliBuf) = 2
        BY <1>1, <2>2, <2>4
    <2>6. wt \in {"read", "check"}
        BY <1>1, <2>3, <2>5, CliDueValues DEF WtStates
    <2>7. wt = "check" => ~Got(2, cliPending, cliBuf)
        BY <1>1, <2>5, CliDueValues
    <2>. QED
        BY <1>1, <1>4, <1>6, <2>1, <2>5, <2>6, <2>7, EmptySeq DEF Outstanding
<1>. QED
    BY <1>5, <1>6

\* The awaited reply goes whole into the read that waits for it, or is alone
\* in the pipe.
LEMMA WritesAwaited ==
    ASSUME Types, Readers, Outstanding, Answering(cli) \/ cli = "poll",
           ServerWrite(Awaited(cli, expect, need)), UNCHANGED cliVars
    PROVE  /\ UNCHANGED <<toServer, srvBuf>>
           /\ toClient' \in {<<>>, Awaited(cli', expect', need')}
           /\ cli' = "check" \/ wt' = "check" =>
                cliBuf' \in {<<>>, Awaited(cli', expect', need')}
<1>. DEFINE a == Awaited(cli, expect, need)
<1>1. /\ UNCHANGED <<toServer, srvBuf, cli, expect, need, wt>> /\ ServerWrite(a)
      /\ a \in Seq(Wire) /\ Len(a) \in Nat /\ cliPending \in Nat /\ toClient = <<>>
    BY AwaitedIsWire, LenProperties DEF ServerWrite, cliVars, Types, PipeTypes, Outstanding
<1>2. Awaited(cli', expect', need') = a
    BY <1>1
<1>3. CASE link = "open" /\ cliPending > 0
    <2>1. cliPending = Len(a)
        <3>1. CASE cli = "check" /\ cliPending = need
            BY <3>1, AwaitedIsWire DEF Answering
        <3>2. CASE wt = "check" /\ cliPending = 2
            BY <3>2, AwaitedIsWire DEF Readers
        <3>. QED
            BY <1>3, <3>1, <3>2, ReplySizes DEF Readers
    <2>2. First(a, cliPending) = a /\ Rest(a, cliPending) = <<>>
        BY <1>1, <2>1, SplitWords
    <2>3. cliBuf' = a /\ toClient' = <<>> \o <<>>
        BY <1>1, <1>3, <2>2 DEF ServerWrite
    <2>4. <<>> \o <<>> = <<>>
        BY EmptySeq, ConcatEmptySeq
    <2>. QED
        BY <1>1, <1>2, <2>3, <2>4
<1>4. CASE link = "open" /\ ~(cliPending > 0)
    <2>1. toClient' = <<>> \o a /\ cliBuf' = cliBuf
        BY <1>1, <1>4 DEF ServerWrite
    <2>2. <<>> \o a = a
        BY <1>1, ConcatEmptySeq
    <2>. QED
        BY <1>1, <1>2, <2>1, <2>2 DEF Outstanding
<1>5. CASE link # "open"
    <2>1. toClient' = <<>> /\ cliBuf' = cliBuf
        BY <1>1, <1>5 DEF ServerWrite
    <2>. QED
        BY <1>1, <1>2, <2>1 DEF Outstanding
<1>. QED
    BY <1>3, <1>4, <1>5

LEMMA EmulatorAwaited ==
    ASSUME Types, Readers, Balance, OnlyAwaited, strikes = 0, Emulator, UNCHANGED cliVars
    PROVE  OnlyAwaited'
<1>0. UNCHANGED <<cli, expect, need, wt>>
    BY DEF cliVars
<1>1. ASSUME UNCHANGED <<pipeVars, iceVars>>, MayHit(emu', running') => MayHit(emu, running)
      PROVE  OnlyAwaited'
    <2>1. UNCHANGED <<toServer, srvBuf, toClient, cliBuf, ice, iceBuf>>
        BY <1>1 DEF pipeVars, iceVars
    <2>. QED
        BY <1>0, <1>1, <2>1 DEF OnlyAwaited
<1>2. CASE EmuPark \/ EmuClear
    <2>1. UNCHANGED <<pipeVars, iceVars>> /\ ~MayHit(emu', running')
        BY <1>2 DEF EmuPark, EmuClear, MayHit
    <2>. QED
        BY <1>1, <2>1
<1>3. CASE EmuAlloc \/ EmuLoad \/ EmuTop \/ EmuSpin
    <2>1. UNCHANGED <<pipeVars, iceVars>> /\ (MayHit(emu', running') => MayHit(emu, running))
        BY <1>3 DEF EmuAlloc, EmuLoad, EmuTop, EmuSpin, MayHit, cpuVars
    <2>. QED
        BY <1>1, <2>1
<1>4. CASE EmuHit \/ EmuFetch \/ EmuExec
    <2>1. UNCHANGED <<pipeVars, iceVars>> /\ (MayHit(emu', running') => MayHit(emu, running))
        BY <1>4 DEF EmuHit, EmuFetch, EmuExec, MayHit, cpuVars
    <2>. QED
        BY <1>1, <2>1
<1>5. CASE EmuCreate
    <2>1. /\ UNCHANGED <<toServer, srvBuf, toClient, cliBuf, iceBuf>>
          /\ ice' = "connect" /\ ~MayHit(emu', running')
        BY <1>5 DEF EmuCreate, MayHit
    <2>. QED
        BY <1>0, <2>1 DEF OnlyAwaited
<1>6. CASE EmuExit
    <2>1. /\ toServer' = <<>> /\ srvBuf' = <<>> /\ UNCHANGED <<toClient, cliBuf, iceBuf>>
          /\ ice' = "off" /\ ~MayHit(emu', running')
        BY <1>6 DEF EmuExit, ServerClose, MayHit
    <2>. QED
        BY <1>0, <2>1 DEF OnlyAwaited
<1>7. CASE EmuReport
    <2>1. cli = "poll" /\ Awaited(cli, expect, need) = Reply(HitKind)
        BY <1>7 DEF EmuReport, OnlyAwaited, MayHit, Awaited, Answering
    <2>2. HitDue(emu, running) >= Len(Awaited(cli, expect, need))
        <3>1. HitDue(emu, running) = 2
            BY <1>7, HitDueValues DEF EmuReport
        <3>2. Len(Awaited(cli, expect, need)) = 2
            BY <2>1, AwaitedIsWire
        <3>. QED
            BY <3>1, <3>2
    <2>3. Outstanding
        BY <2>1, <2>2, OwedIsOutstanding
    <2>4. ServerWrite(Awaited(cli, expect, need))
        BY <1>7, <2>1 DEF EmuReport
    <2>5. /\ UNCHANGED <<toServer, srvBuf>>
          /\ toClient' \in {<<>>, Awaited(cli', expect', need')}
          /\ cli' = "check" \/ wt' = "check" =>
               cliBuf' \in {<<>>, Awaited(cli', expect', need')}
        BY <2>1, <2>3, <2>4, WritesAwaited
    <2>6. UNCHANGED <<ice, iceBuf>> /\ ~MayHit(emu', running')
        BY <1>7 DEF EmuReport, iceVars, MayHit
    <2>. QED
        BY <1>0, <2>5, <2>6 DEF OnlyAwaited
<1>. QED
    BY <1>2, <1>3, <1>4, <1>5, <1>6, <1>7 DEF Emulator

\* The emulator thread never starts the CPU.
LEMMA EmulatorStopped ==
    ASSUME Types, Readers, StoppedInv, Emulator, UNCHANGED cliVars
    PROVE  StoppedInv'
<1>0. UNCHANGED <<cli, expect, need, wt>>
    BY DEF cliVars
<1>1. Halted(emu, running) => Halted(emu', running')
    <2>1. CASE EmuCreate \/ EmuPark \/ EmuAlloc \/ EmuLoad \/ EmuTop \/ EmuExit \/ EmuSpin
        BY <2>1
           DEF EmuCreate, EmuPark, EmuAlloc, EmuLoad, EmuTop, EmuExit, EmuSpin, Halted, cpuVars
    <2>2. CASE EmuHit \/ EmuFetch \/ EmuExec \/ EmuReport \/ EmuClear
        BY <2>2 DEF EmuHit, EmuFetch, EmuExec, EmuReport, EmuClear, Halted, cpuVars
    <2>. QED
        BY <2>1, <2>2 DEF Emulator
<1>2. CASE EmuReport
    <2>1. Halted(emu', running')
        BY <1>2 DEF EmuReport, Halted
    <2>. QED
        BY <2>1 DEF StoppedInv
<1>3. CASE ~EmuReport
    <2>1. UNCHANGED <<toClient, cliBuf>> /\ (ice' \in {"csip", "write"} => ice' = ice)
        <3>1. CASE EmuCreate \/ EmuExit
            BY <3>1 DEF EmuCreate, EmuExit, ServerClose
        <3>2. CASE EmuPark \/ EmuAlloc \/ EmuLoad \/ EmuTop \/ EmuSpin
            BY <3>2 DEF EmuPark, EmuAlloc, EmuLoad, EmuTop, EmuSpin, pipeVars, iceVars
        <3>3. CASE EmuHit \/ EmuFetch \/ EmuExec \/ EmuClear
            BY <3>3 DEF EmuHit, EmuFetch, EmuExec, EmuClear, pipeVars, iceVars
        <3>. QED
            BY <1>3, <3>1, <3>2, <3>3 DEF Emulator
    <2>. QED
        BY <1>0, <1>1, <2>1 DEF StoppedInv
<1>. QED
    BY <1>2, <1>3

\* The packet that is executed is the question whose answer is awaited.
LEMMA TakenAsks ==
    ASSUME Types, OnlyAwaited, NEW cmds, IceTake(cmds)
    PROVE  /\ Taken \in Sent /\ Taken.cmd \in cmds
           /\ Asks(Taken, cli, expect, need)
           /\ srvBuf' = <<>>
           /\ UNCHANGED <<toServer, toClient, cliBuf>>
<1>1. srvBuf # <<>> /\ srvBuf' = <<>> /\ UNCHANGED <<toServer, toClient, cliBuf>>
    BY DEF IceTake
<1>. QED
    BY <1>1, IceTakeTypes DEF Types, Taken, OnlyAwaited

LEMMA IceThreadAwaited ==
    ASSUME Types, Readers, Balance, OnlyAwaited, strikes = 0, IceThread, UNCHANGED cliVars
    PROVE  OnlyAwaited'
<1>0. UNCHANGED <<cli, expect, need, wt>>
    BY DEF cliVars
<1>1. ASSUME UNCHANGED <<toServer, toClient, cliBuf, emu>>,
             srvBuf' = srvBuf \/ srvBuf' = <<>>,
             MayHit(emu', running') => cli = "poll",
             ice' = "run" => cli = "poll",
             ice' = "csip" => Answering(cli) /\ Awaited(cli, expect, need) = Reply(BrkKind),
             ice' = "tracing" => Answering(cli) /\ Awaited(cli, expect, need) = Reply("step"),
             ice' = "write" => Answering(cli) /\ Awaited(cli, expect, need) = iceBuf'
      PROVE  OnlyAwaited'
    BY <1>0, <1>1 DEF OnlyAwaited
<1>2. CASE IceConnect
    <2>1. UNCHANGED <<pipeVars, emu, running>> /\ ice' = "read"
        BY <1>2 DEF IceConnect, cpuVars, emuVars
    <2>. QED
        BY <1>1, <2>1 DEF pipeVars, OnlyAwaited
<1>3. CASE IceRead
    <2>1. UNCHANGED <<toClient, cliBuf, emu, running>> /\ ice' = "got"
        BY <1>3 DEF IceRead, cpuVars, emuVars
    <2>2. \/ srvBuf' = toServer /\ toServer' = <<>>
          \/ UNCHANGED <<srvBuf, toServer>>
        BY <1>3 DEF IceRead
    <2>. QED
        BY <1>0, <2>1, <2>2 DEF OnlyAwaited
<1>4. CASE IceDisconnect
    <2>1. /\ UNCHANGED <<toServer, srvBuf, cliBuf, emu, running>>
          /\ toClient' = <<>> /\ ice' = "connect"
        BY <1>4 DEF IceDisconnect, cpuVars, emuVars
    <2>. QED
        BY <1>0, <2>1 DEF OnlyAwaited
<1>5. CASE IceGo
    <2>1. Asks(Taken, cli, expect, need) /\ Taken.cmd = "GO" /\ ice' = "run"
        BY <1>5, TakenAsks DEF IceGo
    <2>2. cli = "poll"
        BY <2>1 DEF Asks, Questions, Commands
    <2>3. srvBuf' = <<>> /\ UNCHANGED <<toServer, toClient, cliBuf, emu>>
        BY <1>5, TakenAsks DEF IceGo, emuVars
    <2>. QED
        BY <1>1, <2>1, <2>2, <2>3
<1>6. CASE IceRun
    <2>1. UNCHANGED <<pipeVars, emu>> /\ ice' = "read" /\ cli = "poll"
        BY <1>6 DEF IceRun, emuVars, OnlyAwaited
    <2>. QED
        BY <1>1, <2>1 DEF pipeVars
<1>7. CASE IceBreak
    <2>1. Asks(Taken, cli, expect, need) /\ Taken.cmd = "BREAK" /\ ice' = "csip"
        BY <1>7, TakenAsks DEF IceBreak
    <2>2. Answering(cli) /\ Awaited(cli, expect, need) = Reply(BrkKind)
        BY <2>1 DEF Asks, Questions, Commands, AnswerTo
    <2>3. srvBuf' = <<>> /\ UNCHANGED <<toServer, toClient, cliBuf, emu>> /\ running' = FALSE
        BY <1>7, TakenAsks DEF IceBreak, emuVars
    <2>4. MayHit(emu', running') => MayHit(emu, running)
        BY <2>3 DEF MayHit
    <2>. QED
        BY <1>1, <2>1, <2>2, <2>3, <2>4 DEF OnlyAwaited
<1>8. CASE IceCsip
    <2>1. /\ UNCHANGED <<pipeVars, emu, running>> /\ ice' = "write" /\ iceBuf' = Reply(BrkKind)
          /\ Answering(cli) /\ Awaited(cli, expect, need) = Reply(BrkKind)
        BY <1>8 DEF IceCsip, cpuVars, emuVars, OnlyAwaited
    <2>. QED
        BY <1>1, <2>1 DEF pipeVars, OnlyAwaited
<1>9. CASE IceTrace
    <2>1. Asks(Taken, cli, expect, need) /\ Taken.cmd = "TRACE" /\ ice' = "tracing"
        BY <1>9, TakenAsks DEF IceTrace
    <2>2. Answering(cli) /\ Awaited(cli, expect, need) = Reply("step")
        BY <2>1 DEF Asks, Questions, Commands, AnswerTo
    <2>3. srvBuf' = <<>> /\ UNCHANGED <<toServer, toClient, cliBuf, emu, running>>
        BY <1>9, TakenAsks DEF IceTrace, emuVars, cpuVars
    <2>. QED
        BY <1>1, <2>1, <2>2, <2>3 DEF OnlyAwaited
<1>10. CASE IceTraced
    <2>1. /\ UNCHANGED <<pipeVars, emu, running>> /\ ice' = "write" /\ iceBuf' = Reply("step")
          /\ Answering(cli) /\ Awaited(cli, expect, need) = Reply("step")
        BY <1>10 DEF IceTraced, emuVars, OnlyAwaited
    <2>. QED
        BY <1>1, <2>1 DEF pipeVars, OnlyAwaited
<1>11. CASE IceQuery
    <2>1. /\ Asks(Taken, cli, expect, need) /\ ice' = "write" /\ iceBuf' = Snapshot(Taken)
          /\ Taken.cmd \in {"DUMP_REGS", "DUMP_MEMORY", "LIST_BP", "LIST_WP"}
        BY <1>11, TakenAsks DEF IceQuery
    <2>2. Answering(cli) /\ Awaited(cli, expect, need) = Snapshot(Taken)
        BY <2>1 DEF Asks, Questions, Commands, AnswerTo
    <2>3. srvBuf' = <<>> /\ UNCHANGED <<toServer, toClient, cliBuf, emu, running>>
        BY <1>11, TakenAsks DEF IceQuery, emuVars, cpuVars
    <2>. QED
        BY <1>1, <2>1, <2>2, <2>3 DEF OnlyAwaited
<1>12. CASE IceSetBP
    <2>1. /\ Asks(Taken, cli, expect, need) /\ ice' = "write" /\ iceBuf' = Reply("idx")
          /\ Taken.cmd = "SET_BP"
        BY <1>12, TakenAsks DEF IceSetBP
    <2>2. Answering(cli) /\ Awaited(cli, expect, need) = Reply("idx")
        BY <2>1 DEF Asks, Questions, Commands, AnswerTo
    <2>3. srvBuf' = <<>> /\ UNCHANGED <<toServer, toClient, cliBuf, emu, running>>
        BY <1>12, TakenAsks DEF IceSetBP, emuVars, cpuVars
    <2>. QED
        BY <1>1, <2>1, <2>2, <2>3 DEF OnlyAwaited
<1>13. CASE IceUnsetBP \/ IceDefault
    <2>1. /\ srvBuf' = <<>> /\ UNCHANGED <<toServer, toClient, cliBuf, emu, running>>
          /\ ice' = "read"
        BY <1>13, TakenAsks DEF IceUnsetBP, IceDefault, emuVars, cpuVars
    <2>. QED
        BY <1>1, <2>1 DEF OnlyAwaited
<1>14. CASE IceWrite
    <2>1. Answering(cli) /\ Awaited(cli, expect, need) = iceBuf
        BY <1>14 DEF IceWrite, OnlyAwaited
    <2>2. IceDue(ice, srvBuf, iceBuf) >= Len(Awaited(cli, expect, need))
        <3>1. IceDue(ice, srvBuf, iceBuf) = Len(iceBuf) /\ Len(iceBuf) \in Nat
            BY <1>14, IceDueValues, OwedParts DEF IceWrite
        <3>. QED
            BY <2>1, <3>1
    <2>3. Outstanding
        BY <2>1, <2>2, OwedIsOutstanding
    <2>4. ServerWrite(Awaited(cli, expect, need))
        BY <1>14, <2>1 DEF IceWrite
    <2>5. /\ UNCHANGED <<toServer, srvBuf>>
          /\ toClient' \in {<<>>, Awaited(cli', expect', need')}
          /\ cli' = "check" \/ wt' = "check" =>
               cliBuf' \in {<<>>, Awaited(cli', expect', need')}
        BY <2>1, <2>3, <2>4, WritesAwaited
    <2>6. ice' = "read" /\ UNCHANGED <<emu, running>>
        BY <1>14 DEF IceWrite, cpuVars, emuVars
    <2>. QED
        BY <1>0, <2>5, <2>6 DEF OnlyAwaited
<1>15. CASE IceFault
    <2>1. /\ toServer' = <<>> /\ srvBuf' = <<>> /\ UNCHANGED <<toClient, cliBuf, iceBuf>>
          /\ ice' = "off" /\ ~MayHit(emu', running')
        BY <1>15 DEF IceFault, ServerClose, MayHit
    <2>. QED
        BY <1>0, <2>1 DEF OnlyAwaited
<1>. QED
    BY <1>2, <1>3, <1>4, <1>5, <1>6, <1>7, <1>8, <1>9, <1>10, <1>11, <1>12, <1>13, <1>14, <1>15
       DEF IceThread

\* A client that waits for a reply other than that of BREAK has stopped the CPU.
LEMMA OtherRepliesStopped ==
    ASSUME Types, OnlyAwaited, StoppedInv, Answering(cli), NEW k, NEW n \in Nat,
           Awaited(cli, expect, need) = Words(k, n), k # BrkKind
    PROVE  Halted(emu, running)
<1>1. need \in Nat \ {0}
    BY DEF OnlyAwaited, Types, CliTypes
<1>2. Words(expect, need) = Words(k, n)
    BY DEF Awaited
<1>3. expect = k
    BY <1>1, <1>2, WordsTellKinds
<1>. QED
    BY <1>3 DEF StoppedInv

\* BREAK stops the CPU before it is answered; GO starts it for a thread that
\* has read nothing yet.
LEMMA IceThreadStopped ==
    ASSUME Types, Readers, Balance, OnlyAwaited, StoppedInv, strikes = 0, IceThread,
           UNCHANGED cliVars
    PROVE  StoppedInv'
<1>0. UNCHANGED <<cli, expect, need, wt>>
    BY DEF cliVars
<1>1. ASSUME UNCHANGED <<toClient, cliBuf, emu, running>>, ice' \notin {"csip", "write"}
      PROVE  StoppedInv'
    BY <1>0, <1>1 DEF StoppedInv
<1>2. ASSUME Answering(cli), Halted(emu', running')
      PROVE  StoppedInv'
    BY <1>0, <1>2 DEF StoppedInv, Answering
<1>3. CASE IceConnect \/ IceRead
    <2>1. UNCHANGED <<toClient, cliBuf, emu, running>> /\ ice' \in {"read", "got"}
        BY <1>3 DEF IceConnect, IceRead, pipeVars, cpuVars, emuVars
    <2>. QED
        BY <1>1, <2>1
<1>4. CASE IceDisconnect
    <2>1. UNCHANGED <<cliBuf, emu, running>> /\ ice' = "connect" /\ toClient' = <<>>
        BY <1>4 DEF IceDisconnect, cpuVars, emuVars
    <2>. QED
        BY <1>0, <2>1 DEF StoppedInv
<1>5. CASE IceGo \/ IceTrace \/ IceUnsetBP \/ IceDefault
    <2>1. ice' \in {"run", "tracing", "read"} /\ UNCHANGED <<emu, running>>
        BY <1>5 DEF IceGo, IceTrace, IceUnsetBP, IceDefault, cpuVars, emuVars
    <2>2. UNCHANGED <<toClient, cliBuf>>
        BY <1>5 DEF IceGo, IceTrace, IceUnsetBP, IceDefault, IceTake
    <2>. QED
        BY <1>1, <2>1, <2>2
<1>6. CASE IceRun
    <2>1. cli = "poll" /\ Awaited(cli, expect, need) = Reply(HitKind)
        BY <1>6 DEF IceRun, OnlyAwaited, Awaited, Answering
    <2>2. IceDue(ice, srvBuf, iceBuf) >= Len(Awaited(cli, expect, need))
        <3>1. IceDue(ice, srvBuf, iceBuf) = 2
            BY <1>6, IceDueValues DEF IceRun
        <3>2. Len(Awaited(cli, expect, need)) = 2
            BY <2>1, AwaitedIsWire
        <3>. QED
            BY <3>1, <3>2
    <2>3. Outstanding
        BY <2>1, <2>2, OwedIsOutstanding
    <2>4. UNCHANGED <<toClient, cliBuf>>
        BY <1>6 DEF IceRun, pipeVars
    <2>. QED
        BY <1>0, <2>1, <2>3, <2>4 DEF StoppedInv, Outstanding, Answering
<1>7. CASE IceBreak
    <2>1. Asks(Taken, cli, expect, need) /\ Taken.cmd = "BREAK"
        BY <1>7, TakenAsks DEF IceBreak
    <2>2. Answering(cli)
        BY <2>1 DEF Asks, Questions, Commands
    <2>3. Halted(emu', running')
        BY <1>7 DEF IceBreak, Halted
    <2>. QED
        BY <1>2, <2>2, <2>3
<1>8. CASE IceCsip \/ IceWrite
    <2>1. Answering(cli) /\ Halted(emu, running) /\ UNCHANGED <<emu, running>>
        BY <1>8 DEF IceCsip, IceWrite, OnlyAwaited, StoppedInv, cpuVars, emuVars
    <2>. QED
        BY <1>2, <2>1
<1>9. CASE IceTraced
    <2>1. /\ Answering(cli) /\ Awaited(cli, expect, need) = Words("step", 7)
          /\ UNCHANGED <<emu, running>>
        BY <1>9 DEF IceTraced, OnlyAwaited, emuVars, Reply, ReplyWords
    <2>2. Halted(emu, running)
        BY <2>1, OtherRepliesStopped DEF BrkKind
    <2>. QED
        BY <1>2, <2>1, <2>2
<1>10. CASE IceQuery
    <2>1. /\ Asks(Taken, cli, expect, need) /\ Taken \in Sent
          /\ Taken.cmd \in {"DUMP_REGS", "DUMP_MEMORY", "LIST_BP", "LIST_WP"}
        BY <1>10, TakenAsks DEF IceQuery
    <2>2. Answering(cli) /\ Awaited(cli, expect, need) = Snapshot(Taken)
        BY <2>1 DEF Asks, Questions, Commands, AnswerTo
    <2>3. \E k \in {"mem", "regs", "list"}, n \in Nat : Snapshot(Taken) = Words(k, n)
        <3>1. Reply("regs") = Words("regs", 68) /\ Reply("list") = Words("list", 12)
            BY DEF Reply, ReplyWords
        <3>2. Taken.cmd = "DUMP_MEMORY" => MemoryWords(Taken.arg) \in Nat
            BY <2>1 DEF Sent, MemoryWords
        <3>. QED
            BY <3>1, <3>2 DEF Snapshot
    <2>4. Halted(emu, running)
        BY <2>2, <2>3, OtherRepliesStopped DEF BrkKind
    <2>5. UNCHANGED <<emu, running>>
        BY <1>10 DEF IceQuery, cpuVars, emuVars
    <2>. QED
        BY <1>2, <2>2, <2>4, <2>5
<1>11. CASE IceSetBP
    <2>1. Asks(Taken, cli, expect, need) /\ Taken.cmd = "SET_BP"
        BY <1>11, TakenAsks DEF IceSetBP
    <2>2. Answering(cli) /\ Awaited(cli, expect, need) = Words("idx", 1)
        BY <2>1 DEF Asks, Questions, Commands, AnswerTo, Reply, ReplyWords
    <2>3. Halted(emu, running) /\ UNCHANGED <<emu, running>>
        BY <1>11, <2>2, OtherRepliesStopped DEF BrkKind, IceSetBP, cpuVars, emuVars
    <2>. QED
        BY <1>2, <2>2, <2>3
<1>12. CASE IceFault
    <2>1. /\ UNCHANGED <<toClient, cliBuf, running>> /\ ice' = "off"
          /\ emu # "clear"
        BY <1>12 DEF IceFault, NoMemory, ServerClose, cpuVars
    <2>. QED
        BY <1>0, <2>1 DEF StoppedInv, Halted
<1>. QED
    BY <1>3, <1>4, <1>5, <1>6, <1>7, <1>8, <1>9, <1>10, <1>11, <1>12 DEF IceThread

\* A packet that is written where nothing was owed is the first to be read.
LEMMA WritesQuestion ==
    ASSUME Types, Settled, NEW packet, ClientWrite(packet), NEW c, NEW kind, NEW n,
           Asks(packet, c, kind, n)
    PROVE  /\ toClient' = <<>>
           /\ toServer' # <<>> => Asks(Head(toServer'), c, kind, n)
           /\ srvBuf' # <<>> => Asks(Head(srvBuf'), c, kind, n)
<1>1. \A q : q.cmd \notin Questions => Asks(q, c, kind, n)
    BY DEF Asks
<1>2. toClient' = <<>>
    BY DEF ClientWrite, Settled
<1>3. CASE UNCHANGED <<toServer, srvBuf>>
    BY <1>1, <1>2, <1>3 DEF Settled
<1>4. CASE toServer' = toServer /\ srvBuf' = <<packet>>
    BY <1>1, <1>2, <1>4 DEF Settled
<1>5. CASE toServer' = Append(toServer, packet) /\ srvBuf' = srvBuf
    <2>1. toServer \in Seq(Sent)
        BY DEF Types, PipeTypes
    <2>2. Head(Append(toServer, packet)) = IF toServer = <<>> THEN packet ELSE Head(toServer)
        BY <2>1
    <2>. QED
        BY <1>1, <1>2, <1>5, <2>2 DEF Settled
<1>. QED
    BY <1>3, <1>4, <1>5 DEF ClientWrite

\* A read for the awaited reply takes it whole.
LEMMA ReadsAwaited ==
    ASSUME Types, OnlyAwaited, NEW n \in Nat, n = Len(Awaited(cli, expect, need)), ClientRead(n)
    PROVE  /\ UNCHANGED <<toServer, srvBuf>> /\ toClient' = <<>>
           /\ cliBuf' \in {<<>>, Awaited(cli, expect, need)}
           /\ toClient = <<>> => cliBuf' = <<>>
<1>. DEFINE a == Awaited(cli, expect, need)
<1>1. a \in Seq(Wire) /\ Len(a) <= n
    BY AwaitedIsWire
<1>2. First(a, n) = a /\ Rest(a, n) = <<>>
    BY <1>1, SplitWords
<1>3. toClient = <<>> \/ toClient = a
    BY DEF OnlyAwaited
<1>. QED
    BY <1>2, <1>3 DEF ClientRead

\* A step of the client that leaves the pipe alone, with nothing owed.
LEMMA SettledAwaited ==
    ASSUME Settled, UNCHANGED mavVars, ~Answering(cli'), wt' # "check",
           UNCHANGED <<toServer, srvBuf>>, toClient' = <<>>
    PROVE  OnlyAwaited'
<1>1. UNCHANGED <<ice, iceBuf, emu, running>>
    BY DEF mavVars, cpuVars, emuVars, iceVars
<1>2. cli' # "check"
    BY DEF Answering
<1>. QED
    BY <1>1, <1>2 DEF OnlyAwaited, Settled, Asks

\* The client asks where nothing is owed.
LEMMA AskingAwaited ==
    ASSUME Types, Settled, UNCHANGED mavVars, NEW packet, ClientWrite(packet),
           Asks(packet, cli', expect', need'), cli' # "check", wt' # "check",
           Answering(cli') => need' > 0
    PROVE  OnlyAwaited'
<1>1. UNCHANGED <<ice, iceBuf, emu, running>>
    BY DEF mavVars, cpuVars, emuVars, iceVars
<1>2. /\ toClient' = <<>>
      /\ toServer' # <<>> => Asks(Head(toServer'), cli', expect', need')
      /\ srvBuf' # <<>> => Asks(Head(srvBuf'), cli', expect', need')
    BY WritesQuestion
<1>. QED
    BY <1>1, <1>2 DEF OnlyAwaited, Settled

\* Nothing is owed when a thread of ICEMAN wants nothing.
LEMMA ClientSettled ==
    ASSUME Types, Readers, Balance, OnlyAwaited, strikes = 0,
           \/ cli \in {"start", "break", "prompt"}
           \/ cli = "check" /\ Got(need, cliPending, cliBuf)
           \/ cli = "poll" /\ wt \in {"off", "set"}
    PROVE  Settled
<1>1. need \in Nat
    BY DEF Types, CliTypes
<1>2. wt \in {"off", "set"}
    BY DEF Readers, Types, CliTypes
<1>3. MainDue(cli, need, cliPending, cliBuf) = 0 /\ WtDue(wt, cliPending, cliBuf) = 0
    BY <1>1, <1>2, CliDueValues
<1>4. Wanted(cli, need, wt, cliPending, cliBuf) = 0
    BY <1>3 DEF Wanted
<1>. QED
    BY <1>4, NothingWanted

LEMMA ClientAwaited ==
    ASSUME Types, Readers, Balance, OnlyAwaited, strikes = 0, strikes' = 0,
           MainThread \/ WaitThread \/ User, UNCHANGED mavVars
    PROVE  OnlyAwaited'
<1>1. need \in Nat /\ Len(cliBuf) \in Nat
    BY LenProperties DEF Types, CliTypes, PipeTypes
<1>2. CASE Open \/ Quit
    <2>1. /\ cli \in {"start", "prompt"} /\ cli' \in {"break", "start"}
          /\ UNCHANGED <<toServer, srvBuf, wt>> /\ (toClient' = toClient \/ toClient' = <<>>)
        BY <1>2 DEF Open, Quit, ClientOpen, ClientClose
    <2>2. Settled /\ wt = "off"
        BY <2>1, ClientSettled, NoRead
    <2>3. ~Answering(cli') /\ toClient' = <<>>
        BY <2>1, <2>2 DEF Answering, Settled
    <2>. QED
        BY <2>1, <2>2, <2>3, SettledAwaited
<1>3. CASE SendBreak \/ Query \/ SetBP
    <2>1. cli \in {"break", "prompt"}
        BY <1>3 DEF SendBreak, Query, SetBP
    <2>2. Settled /\ wt = "off"
        BY <2>1, ClientSettled, NoRead
    <2>3. PICK packet, kind, n : Ask(packet, kind, n) /\ Fits(packet, kind, n)
        BY <1>3, Asked
    <2>4. /\ ClientWrite(packet) /\ cli' = "wait" /\ expect' = kind /\ need' = n /\ wt' = wt
          /\ n > 0
        BY <2>3 DEF Ask, Fits
    <2>5. Asks(packet, cli', expect', need')
        BY <2>3, <2>4 DEF Asks, Fits, Answering, Awaited
    <2>. QED
        BY <2>2, <2>4, <2>5, AskingAwaited
<1>4. CASE Tell
    <2>1. PICK packet : ClientWrite(packet) /\ packet.cmd \notin Questions
        <3>1. /\ \A a : Packet("UNSET_BP", a).cmd \notin Questions
              /\ Packet("UNSET_WP", 0).cmd \notin Questions
            BY DEF Packet, Questions
        <3>. QED
            BY <1>4, <3>1 DEF Tell
    <2>2. cli = "prompt" /\ UNCHANGED <<cli, wt>>
        BY <1>4 DEF Tell, cliVars
    <2>3. Settled /\ wt = "off"
        BY <2>2, ClientSettled, NoRead
    <2>4. Asks(packet, cli', expect', need') /\ ~Answering(cli')
        BY <2>1, <2>2 DEF Asks, Answering
    <2>. QED
        BY <2>1, <2>2, <2>3, <2>4, AskingAwaited
<1>5. CASE Go
    <2>1. PICK packet : ClientWrite(packet) /\ packet.cmd = "GO"
        BY <1>5 DEF Go, Packet
    <2>2. cli = "prompt" /\ cli' = "poll" /\ wt' = "read"
        BY <1>5 DEF Go
    <2>3. Settled
        BY <2>2, ClientSettled
    <2>4. Asks(packet, cli', expect', need') /\ ~Answering(cli')
        BY <2>1, <2>2 DEF Asks, Answering, Awaited, AnswerTo
    <2>. QED
        BY <2>1, <2>2, <2>3, <2>4, AskingAwaited
<1>6. ASSUME UNCHANGED <<expect, need, toServer, srvBuf>>,
             cli' = cli \/ (Answering(cli) /\ Answering(cli')),
             toClient' = toClient \/ toClient' = <<>>,
             cli' = "check" \/ wt' = "check" => cliBuf' \in {<<>>, Awaited(cli, expect, need)}
      PROVE  OnlyAwaited'
    <2>1. UNCHANGED <<ice, iceBuf, emu, running>>
        BY DEF mavVars, cpuVars, emuVars, iceVars
    <2>2. Awaited(cli', expect', need') = Awaited(cli, expect, need)
        BY <1>6 DEF Awaited
    <2>3. Answering(cli') = Answering(cli) /\ (cli' = "poll") = (cli = "poll")
        BY <1>6 DEF Answering
    <2>4. \A p : Asks(p, cli, expect, need) => Asks(p, cli', expect', need')
        BY <2>2, <2>3 DEF Asks
    <2>. QED
        BY <1>6, <2>1, <2>2, <2>3, <2>4 DEF OnlyAwaited
<1>7. CASE CliRead
    <2>1. /\ cli = "wait" /\ cli' = "check" /\ ClientRead(need) /\ UNCHANGED <<expect, need>>
          /\ Answering(cli) /\ Answering(cli')
        BY <1>7 DEF CliRead, Answering
    <2>2. need = Len(Awaited(cli, expect, need))
        BY <2>1, AwaitedIsWire
    <2>3. /\ UNCHANGED <<toServer, srvBuf>> /\ toClient' = <<>>
          /\ cliBuf' \in {<<>>, Awaited(cli, expect, need)}
        BY <1>1, <2>1, <2>2, ReadsAwaited
    <2>. QED
        BY <1>6, <2>1, <2>3
<1>8. CASE CliShort
    <2>1. cli = "check" /\ cli' = "wait" /\ cliBuf' = <<>>
          /\ UNCHANGED <<expect, need, toServer, srvBuf, toClient>>
        BY <1>8 DEF CliShort
    <2>. QED
        BY <1>6, <2>1 DEF Answering
<1>9. CASE CliAccept
    <2>1. /\ cli = "check" /\ cli' = "prompt" /\ Got(need, cliPending, cliBuf)
          /\ UNCHANGED <<wt, toServer, srvBuf, toClient>>
        BY <1>9 DEF CliAccept, Got
    <2>2. Settled /\ wt # "check"
        BY <2>1, ClientSettled DEF Readers
    <2>. QED
        BY <2>1, <2>2, SettledAwaited DEF Settled, Answering
<1>10. CASE WtRead
    <2>1. wt = "read" /\ cli = "poll" /\ ClientRead(2) /\ UNCHANGED <<cli, expect, need>>
        BY <1>10, ReplySizes DEF WtRead, Readers
    <2>2. 2 = Len(Awaited(cli, expect, need))
        BY <2>1, AwaitedIsWire
    <2>3. /\ UNCHANGED <<toServer, srvBuf>> /\ toClient' = <<>>
          /\ cliBuf' \in {<<>>, Awaited(cli, expect, need)}
        BY <2>1, <2>2, ReadsAwaited
    <2>. QED
        BY <1>6, <2>1, <2>3
<1>11. CASE WtShort \/ WtAccept
    <2>1. cliBuf' = <<>> /\ UNCHANGED <<cli, expect, need, toServer, srvBuf, toClient>>
        BY <1>11 DEF WtShort, WtAccept
    <2>. QED
        BY <1>6, <2>1
<1>12. CASE WtSet
    <2>1. wt' = "off" /\ cli = "poll" /\ UNCHANGED <<cli, expect, need, toServer, srvBuf, toClient>>
        BY <1>12 DEF WtSet, pipeVars, Readers
    <2>. QED
        BY <1>6, <2>1
<1>13. CASE Poll
    <2>1. /\ cli = "poll" /\ cli' = "prompt" /\ wt = "off"
          /\ UNCHANGED <<wt, toServer, srvBuf, toClient>>
        BY <1>13 DEF Poll, pipeVars, Readers
    <2>2. Settled
        BY <2>1, ClientSettled
    <2>. QED
        BY <2>1, <2>2, SettledAwaited DEF Settled, Answering
<1>14. ~Hotkey /\ ~Killed
    BY DEF Hotkey, Killed
<1>. QED
    BY <1>2, <1>3, <1>4, <1>5, <1>7, <1>8, <1>9, <1>10, <1>11, <1>12, <1>13, <1>14
       DEF MainThread, WaitThread, User

\* The prompt comes back with the awaited reply, and the CPU is stopped then.
LEMMA ClientStopped ==
    ASSUME Types, Readers, Balance, OnlyAwaited, StoppedInv, strikes = 0, strikes' = 0,
           MainThread \/ WaitThread \/ User, UNCHANGED mavVars
    PROVE  StoppedInv'
<1>1. /\ UNCHANGED <<ice, emu, running>> /\ need \in Nat
      /\ Halted(emu', running') = Halted(emu, running)
    BY DEF mavVars, cpuVars, emuVars, iceVars, Types, CliTypes
<1>2. ASSUME Halted(emu, running)
      PROVE  StoppedInv'
    BY <1>1, <1>2 DEF StoppedInv
<1>3. CASE cli = "prompt"
    BY <1>2, <1>3 DEF StoppedInv
<1>4. CASE Open
    BY <1>4 DEF Open, StoppedInv, Answering
<1>5. CASE SendBreak
    <2>1. /\ cli = "break" /\ cli' = "wait" /\ expect' = BrkKind /\ toClient' = toClient
        BY <1>5 DEF SendBreak, Ask, ClientWrite
    <2>2. Settled
        BY <2>1, ClientSettled
    <2>. QED
        BY <1>1, <2>1, <2>2 DEF StoppedInv, Settled
<1>6. CASE CliRead
    <2>1. /\ cli = "wait" /\ cli' = "check" /\ ClientRead(need) /\ expect' = expect
          /\ Answering(cli)
        BY <1>6 DEF CliRead, Answering
    <2>2. toClient = <<>> => cliBuf' = <<>> /\ toClient' = <<>>
        BY <2>1 DEF ClientRead
    <2>. QED
        BY <1>1, <2>1, <2>2 DEF StoppedInv
<1>7. CASE CliShort
    BY <1>1, <1>7 DEF CliShort, StoppedInv, Answering
<1>8. CASE CliAccept
    <2>1. cli = "check" /\ need > 0 /\ Len(cliBuf) >= need
        BY <1>8 DEF CliAccept, OnlyAwaited, Answering
    <2>2. cliBuf # <<>>
        BY <1>1, <2>1
    <2>. QED
        BY <1>2, <2>1, <2>2 DEF StoppedInv, Answering
<1>9. CASE WtRead
    <2>1. wt = "read" /\ wt' = "check" /\ cli = "poll" /\ ClientRead(ReplyWords["hit"])
          /\ UNCHANGED cli
        BY <1>9 DEF WtRead, Readers
    <2>2. toClient = <<>> => cliBuf' = <<>> /\ toClient' = <<>>
        BY <2>1 DEF ClientRead
    <2>. QED
        BY <1>1, <2>1, <2>2 DEF StoppedInv, Answering
<1>10. CASE WtShort
    <2>1. wt' = "read" /\ wt = "check" /\ cli = "poll" /\ UNCHANGED <<cli, toClient>>
        BY <1>10 DEF WtShort, Readers
    <2>. QED
        BY <1>1, <2>1 DEF StoppedInv, Answering
<1>11. CASE WtAccept
    <2>1. wt = "check" /\ cli = "poll" /\ Len(cliBuf) >= 2
        BY <1>11, ReplySizes DEF WtAccept, Readers
    <2>2. cliBuf # <<>>
        BY <2>1
    <2>. QED
        BY <1>2, <2>1, <2>2 DEF StoppedInv
<1>12. CASE WtSet \/ Poll
    <2>1. cli = "poll" /\ wt \in {"set", "off"}
        BY <1>12 DEF WtSet, Poll, Readers
    <2>. QED
        BY <1>2, <2>1 DEF StoppedInv
<1>13. ~Hotkey /\ ~Killed
    BY DEF Hotkey, Killed
<1>14. Query \/ SetBP \/ Tell \/ Go \/ Quit => cli = "prompt"
    BY DEF Query, SetBP, Tell, Go, Quit
<1>. QED
    BY <1>3, <1>4, <1>5, <1>6, <1>7, <1>8, <1>9, <1>10, <1>11, <1>12, <1>13, <1>14
       DEF MainThread, WaitThread, User

----------------------------------------------------------------------------
(***************************************************************************)
(* Until the first strike: both invariants, on top of the balance.         *)
(***************************************************************************)
BeforeStrikeInv == ReplyInv /\ (strikes = 0 => OnlyAwaited /\ StoppedInv)

LEMMA InitBeforeStrike ==
    ASSUME Init
    PROVE  BeforeStrikeInv
<1>1. /\ cli = "start" /\ toServer = <<>> /\ srvBuf = <<>> /\ ice = "off" /\ emu = "create"
      /\ toClient = <<>> /\ wt = "off"
    BY DEF Init, MavInit, CliInit, PipeInit
<1>2. OnlyAwaited
    BY <1>1 DEF OnlyAwaited, Answering, MayHit
<1>3. StoppedInv
    BY <1>1 DEF StoppedInv, Answering
<1>. QED
    BY <1>2, <1>3, InitReplies DEF BeforeStrikeInv

LEMMA StepBeforeStrike ==
    ASSUME BeforeStrikeInv, [Next]_vars
    PROVE  BeforeStrikeInv'
<1>1. ReplyInv /\ ReplyInv'
    BY StepReplies DEF BeforeStrikeInv
<1>2. Types /\ Readers /\ (strikes = 0 => Balance)
    BY <1>1 DEF ReplyInv
<1>3. ASSUME strikes' = 0
      PROVE  strikes = 0
    <2>1. strikes \in Nat
        BY <1>2, UserAssumption DEF Types, CliTypes
    <2>2. CASE CliStep
        BY <1>3, <2>1, <2>2, Striking DEF CliStep
    <2>3. CASE ~CliStep
        BY <1>3, <2>3 DEF Next, MavStep, vars, cliVars
    <2>. QED
        BY <2>2, <2>3
<1>4. ASSUME strikes = 0, strikes' = 0, OnlyAwaited, StoppedInv
      PROVE  OnlyAwaited' /\ StoppedInv'
    <2>1. CASE MavStep
        BY <1>2, <1>4, <2>1, EmulatorAwaited, EmulatorStopped, IceThreadAwaited, IceThreadStopped
           DEF MavStep
    <2>2. CASE CliStep
        BY <1>2, <1>4, <2>2, ClientAwaited, ClientStopped DEF CliStep
    <2>3. CASE UNCHANGED vars
        <3>1. UNCHANGED <<toServer, toClient, srvBuf, cliBuf, cli, expect, need, wt,
                          ice, iceBuf, emu, running>>
            BY <2>3 DEF vars, mavVars, cpuVars, emuVars, iceVars, cliVars, pipeVars
        <3>. QED
            BY <1>4, <3>1 DEF OnlyAwaited, StoppedInv
    <2>. QED
        BY <2>1, <2>2, <2>3 DEF Next
<1>. QED
    BY <1>1, <1>3, <1>4 DEF BeforeStrikeInv

\* What a thread of ICEMAN takes for its reply is that reply, whole, as long
\* as the hotkey has not been struck nor a debugger killed: for every program,
\* every user and every interleaving of the four threads (RepliesMatch).
THEOREM RepliesMatchBeforeStrike ==
    Spec => [](strikes = 0 => RepliesMatch)
<1>1. BeforeStrikeInv => (strikes = 0 => RepliesMatch)
    <2>. SUFFICES ASSUME BeforeStrikeInv, strikes = 0
                  PROVE  RepliesMatch
        OBVIOUS
    <2>1. OnlyAwaited /\ Types /\ Readers
        BY DEF BeforeStrikeInv, ReplyInv
    <2>2. ASSUME cli = "check", Len(cliBuf) >= need
          PROVE  cliBuf = Words(expect, need)
        <3>1. need > 0 /\ need \in Nat
            BY <2>1, <2>2 DEF OnlyAwaited, Answering, Types, CliTypes
        <3>2. cliBuf # <<>>
            BY <2>2, <3>1
        <3>. QED
            BY <2>1, <2>2, <3>2 DEF OnlyAwaited, Awaited, Answering
    <2>3. ASSUME wt = "check", Len(cliBuf) >= ReplyWords["hit"]
          PROVE  cliBuf = Reply(HitKind)
        <3>1. cliBuf # <<>> /\ cli = "poll"
            BY <2>1, <2>3, ReplySizes DEF Readers
        <3>. QED
            BY <2>1, <2>3, <3>1 DEF OnlyAwaited, Awaited, Answering
    <2>. QED
        BY <2>2, <2>3 DEF RepliesMatch
<1>. QED
    BY <1>1, InitBeforeStrike, StepBeforeStrike, PTL DEF Spec

\* The prompt shows a CPU that stands still, as long as the hotkey has not
\* been struck nor a debugger killed, whatever breakpoints are set and wherever
\* the program goes (PromptMeansStopped).
THEOREM PromptStoppedBeforeStrike ==
    Spec => [](strikes = 0 => PromptMeansStopped)
<1>1. BeforeStrikeInv => (strikes = 0 => PromptMeansStopped)
    BY DEF BeforeStrikeInv, StoppedInv, Halted, PromptMeansStopped
<1>. QED
    BY <1>1, InitBeforeStrike, StepBeforeStrike, PTL DEF Spec
=============================================================================
