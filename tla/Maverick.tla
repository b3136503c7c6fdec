------------------------------ MODULE Maverick ------------------------------
(***************************************************************************)
(* The server side of the debugger: the two threads of the MAVERICK        *)
(* process that share one i386 structure, with no lock between them.       *)
(*   - the emulator thread: main, Exec386Subroutine_Near32, ice_step;      *)
(*   - the ICE thread, which serves the pipe: ICEThread.                   *)
(* cs:eip is one location `eip`, and its linear address is the location    *)
(* itself.  An instruction is the pair of steps "fetch at eip" and "commit *)
(* the next eip", since the other thread can come in between; which        *)
(* location comes next is the program's business (Succ).  The local        *)
(* variables of the threads go back to 0 when they are dead.               *)
(***************************************************************************)
EXTENDS Breakpoints, DebugPipe

CONSTANTS Addr,                \* locations of the emulated program
          Entry,               \* where it starts, 0x100 in the code
          Escape,              \* ESCAPE_ADDRESS, where it returns to
          Succ                 \* Succ[a]: where the instruction at a may lead

ASSUME ProgramAssumption == /\ Addr \subseteq Nat
                            /\ 0 \in Addr /\ Entry \in Addr /\ Escape \in Addr
                            /\ Succ \in [Addr -> SUBSET Addr]

VARIABLES eip, running,        \* Pcpu->eip, Pcpu->running
          bps,                 \* code_breakpoints
          emu,                 \* what the emulator thread does next
          lin, emuAt,          \* its linaddr, the address it fetched from
          ice,                 \* what the ICE thread does next
          iceAt, iceBuf,       \* the address TRACE fetched from, the reply to write
          after                \* instructions the emulator ended since running was cleared

cpuVars == <<eip, running, after>>
emuVars == <<emu, lin, emuAt>>
iceVars == <<ice, iceAt, iceBuf>>
mavVars == <<cpuVars, emuVars, iceVars, bps>>

MavInit ==
    /\ eip = 0 /\ running = TRUE /\ after = 0
    /\ bps = NoBreakpoints
    /\ emu = "create" /\ lin = 0 /\ emuAt = 0
    /\ ice = "off" /\ iceAt = 0 /\ iceBuf = <<>>

----------------------------------------------------------------------------
\* The emulator thread.

\* CreateNamedPipe and CreateThread: from here the ICE thread runs.
EmuCreate ==
    /\ emu = "create"
    /\ emu' = "park"
    /\ link' = "listening" /\ ice' = "connect"
    /\ UNCHANGED <<cpuVars, lin, emuAt, iceAt, iceBuf, bps, toServer, toClient,
                   srvPending, srvBuf, cliPending, cliBuf>>

\* Only now is the CPU stopped for the debugger.
EmuPark ==
    /\ emu = "park"
    /\ running' = FALSE /\ after' = 0
    /\ emu' = "alloc"
    /\ UNCHANGED <<eip, lin, emuAt, iceVars, bps, pipeVars>>

\* Mutation of EmuAlloc: the CPU is stopped when its memory is there.
EmuAllocStops ==
    /\ emu = "alloc"
    /\ running' = FALSE /\ after' = 0
    /\ emu' = "load"
    /\ UNCHANGED <<eip, lin, emuAt, iceVars, bps, pipeVars>>

\* The memory is allocated: Os2Base is a null pointer before.
EmuAlloc ==
    /\ emu = "alloc"
    /\ emu' = "load"
    /\ UNCHANGED <<cpuVars, lin, emuAt, iceVars, bps, pipeVars>>

NoMemory == emu \in {"park", "alloc"}

\* The program is read, the return address pushed and eip set to the entry.
EmuLoad ==
    /\ emu = "load"
    /\ eip' = Entry
    /\ emu' = "top"
    /\ UNCHANGED <<running, after, lin, emuAt, iceVars, bps, pipeVars>>

\* The loop test, then ice_step computes linaddr before it looks at running.
EmuTop ==
    /\ emu = "top" /\ eip # Escape
    /\ lin' = eip
    /\ emu' = "spin"
    /\ UNCHANGED <<cpuVars, emuAt, iceVars, bps, pipeVars>>

\* The subroutine returned: main returns and the process ends.
EmuExit ==
    /\ emu = "top" /\ eip = Escape
    /\ emu' = "exit" /\ ice' = "off"
    /\ ServerClose
    /\ UNCHANGED <<cpuVars, lin, emuAt, iceAt, iceBuf, bps>>

\* Mutation of EmuSpin: the spin on `running` is lost.
EmuNoSpin ==
    /\ emu = "spin"
    /\ emu' = "check"
    /\ UNCHANGED <<cpuVars, lin, emuAt, iceVars, bps, pipeVars>>

EmuSpin ==
    /\ emu = "spin" /\ running
    /\ emu' = "check"
    /\ UNCHANGED <<cpuVars, lin, emuAt, iceVars, bps, pipeVars>>

EmuHit ==
    /\ emu = "check" /\ AnyInBP(bps, lin)
    /\ emu' = "report" /\ lin' = 0
    /\ UNCHANGED <<cpuVars, emuAt, iceVars, bps, pipeVars>>

EmuFetch ==
    /\ emu = "check" /\ ~AnyInBP(bps, lin)
    /\ emuAt' = eip /\ lin' = 0
    /\ emu' = "exec"
    /\ UNCHANGED <<cpuVars, iceVars, bps, pipeVars>>

EmuExec ==
    /\ emu = "exec"
    /\ eip' \in Succ[emuAt]
    /\ after' = IF running THEN 0 ELSE after + 1
    /\ emu' = "top" /\ emuAt' = 0
    /\ UNCHANGED <<running, lin, iceVars, bps, pipeVars>>

\* The synchronous handle is busy while the ICE thread waits in ReadFile or in
\* ConnectNamedPipe.
HandleBusy == srvPending \/ (ice = "connect" /\ link = "listening")

\* "Breakpoint hit": the message goes out first ...
EmuReport ==
    /\ emu = "report" /\ ~HandleBusy
    /\ ServerWrite(Reply(HitKind))
    /\ emu' = "clear"
    /\ UNCHANGED <<cpuVars, lin, emuAt, iceVars, bps>>

\* Mutation of EmuClear: the CPU is not stopped.
EmuNoClear ==
    /\ emu = "clear"
    /\ emu' = "top"
    /\ UNCHANGED <<cpuVars, lin, emuAt, iceVars, bps, pipeVars>>

\* ... and the CPU is stopped after it.
EmuClear ==
    /\ emu = "clear"
    /\ running' = FALSE /\ after' = IF running THEN 0 ELSE after
    /\ emu' = "top"
    /\ UNCHANGED <<eip, lin, emuAt, iceVars, bps, pipeVars>>

----------------------------------------------------------------------------
\* The ICE thread.

IceConnect ==
    /\ ice = "connect" /\ link \in {"open", "closed"}
    /\ ice' = "read"
    /\ UNCHANGED <<cpuVars, emuVars, iceAt, iceBuf, bps, pipeVars>>

\* ReadFile: everything in the pipe, else wait for the next write.
IceRead ==
    /\ ice = "read"
    /\ ice' = "got"
    /\ \/ /\ toServer # <<>>
          /\ srvBuf' = toServer /\ toServer' = <<>>
          /\ UNCHANGED srvPending
       \/ /\ toServer = <<>>
          /\ srvPending' = (link = "open")
          /\ UNCHANGED <<srvBuf, toServer>>
    /\ UNCHANGED <<cpuVars, emuVars, iceAt, iceBuf, bps, link, toClient, cliPending, cliBuf>>

\* Mutation of IceDisconnect: it goes back to ReadFile without ConnectNamedPipe.
IceDisconnectOnly ==
    /\ ice = "got" /\ ~srvPending /\ srvBuf = <<>>
    /\ toClient' = <<>>
    /\ ice' = "read"
    /\ UNCHANGED <<cpuVars, emuVars, iceAt, iceBuf, bps, link, toServer, srvPending, srvBuf,
                   cliPending, cliBuf>>

\* ReadFile failed with ERROR_BROKEN_PIPE: wait for another debugger.
IceDisconnect ==
    /\ ice = "got" /\ ~srvPending /\ srvBuf = <<>>
    /\ link' = "listening" /\ toClient' = <<>>
    /\ ice' = "connect"
    /\ UNCHANGED <<cpuVars, emuVars, iceAt, iceBuf, bps, toServer, srvPending, srvBuf,
                   cliPending, cliBuf>>

\* Only the first packet of what ReadFile returned is ever looked at.
Taken == Head(srvBuf)
IceTake(cmds) ==
    /\ ice = "got" /\ ~srvPending /\ srvBuf # <<>>
    /\ Taken.cmd \in cmds
    /\ srvBuf' = <<>>
    /\ UNCHANGED <<link, toServer, toClient, srvPending, cliPending, cliBuf>>

\* Mutation of IceGo: an offset of -1 is not told from an address.
IceGoAnywhere ==
    /\ IceTake({"GO"})
    /\ eip' = Taken.arg
    /\ ice' = "run"
    /\ UNCHANGED <<running, after, emuVars, iceAt, iceBuf, bps>>

\* GO does not answer: it places the CPU (arg -1 leaves it there) and runs it.
IceGo ==
    /\ IceTake({"GO"})
    /\ eip' = IF Taken.arg = -1 THEN eip ELSE Taken.arg
    /\ ice' = "run"
    /\ UNCHANGED <<running, after, emuVars, iceAt, iceBuf, bps>>

IceRun ==
    /\ ice = "run"
    /\ running' = TRUE /\ after' = 0
    /\ ice' = "read"
    /\ UNCHANGED <<eip, emuVars, iceAt, iceBuf, bps, pipeVars>>

\* Mutation of IceBreak: it answers without stopping the CPU.
IceBreakRunning ==
    /\ IceTake({"BREAK"})
    /\ ice' = "csip"
    /\ UNCHANGED <<cpuVars, emuVars, iceAt, iceBuf, bps>>

\* BREAK stops the CPU, then reads where it is, then answers.
IceBreak ==
    /\ IceTake({"BREAK"})
    /\ running' = FALSE /\ after' = IF running THEN 0 ELSE after
    /\ ice' = "csip"
    /\ UNCHANGED <<eip, emuVars, iceAt, iceBuf, bps>>

IceCsip ==
    /\ ice = "csip"
    /\ iceBuf' = Reply(BrkKind)
    /\ ice' = "write"
    /\ UNCHANGED <<cpuVars, emuVars, iceAt, bps, pipeVars>>

\* TRACE executes one instruction on this thread, whatever the other one does.
IceTrace ==
    /\ IceTake({"TRACE"}) /\ ~NoMemory
    /\ iceAt' = eip
    /\ ice' = "tracing"
    /\ UNCHANGED <<cpuVars, emuVars, iceBuf, bps>>

IceTraced ==
    /\ ice = "tracing"
    /\ eip' \in Succ[iceAt]
    /\ iceBuf' = Reply("step")
    /\ ice' = "write" /\ iceAt' = 0
    /\ UNCHANGED <<running, after, emuVars, bps, pipeVars>>

\* DUMP_REGS, DUMP_MEMORY, LIST_BP and LIST_WP copy state into a reply.
Snapshot(packet) ==
    IF packet.cmd = "DUMP_MEMORY" THEN Words("mem", MemoryWords(packet.arg))
    ELSE IF packet.cmd = "DUMP_REGS" THEN Reply("regs") ELSE Reply("list")

IceQuery ==
    /\ IceTake({"DUMP_REGS", "DUMP_MEMORY", "LIST_BP", "LIST_WP"})
    /\ iceBuf' = Snapshot(Taken)
    /\ ice' = "write"
    /\ UNCHANGED <<cpuVars, emuVars, iceAt, bps>>

\* Without the memory TRACE fetches at 0x7C00 of the host, where nothing is ever
\* mapped, and the process dies; DUMP_MEMORY may find bytes of the host further
\* up (IceQuery) or die as well.
IceFault ==
    /\ ice = "got" /\ ~srvPending /\ srvBuf # <<>>
    /\ Taken.cmd \in {"TRACE", "DUMP_MEMORY"} /\ NoMemory
    /\ emu' = "exit" /\ ice' = "off"
    /\ ServerClose
    /\ UNCHANGED <<cpuVars, lin, emuAt, iceAt, iceBuf, bps>>

\* Mutation of IceSetBP: nothing is answered when the table is full.
IceSetBPQuiet ==
    /\ IceTake({"SET_BP"})
    /\ bps' = AddBreakpoint(bps, Taken.arg)
    /\ IF FreeSlots(bps) = {}
       THEN ice' = "read" /\ UNCHANGED iceBuf
       ELSE ice' = "write" /\ iceBuf' = Reply("idx")
    /\ UNCHANGED <<cpuVars, emuVars, iceAt>>

IceSetBP ==
    /\ IceTake({"SET_BP"})
    /\ bps' = AddBreakpoint(bps, Taken.arg)
    /\ iceBuf' = Reply("idx")
    /\ ice' = "write"
    /\ UNCHANGED <<cpuVars, emuVars, iceAt>>

IceUnsetBP ==
    /\ IceTake({"UNSET_BP"})
    /\ bps' = RemoveBreakpoint(bps, Taken.arg)
    /\ ice' = "read"
    /\ UNCHANGED <<cpuVars, emuVars, iceAt, iceBuf>>

\* The default of the switch: SET_WP and UNSET_WP have no case.
IceDefault ==
    /\ IceTake({"SET_WP", "UNSET_WP"})
    /\ ice' = "read"
    /\ UNCHANGED <<cpuVars, emuVars, iceAt, iceBuf, bps>>

IceWrite ==
    /\ ice = "write"
    /\ ServerWrite(iceBuf)
    /\ iceBuf' = <<>>
    /\ ice' = "read"
    /\ UNCHANGED <<cpuVars, emuVars, iceAt, bps>>

----------------------------------------------------------------------------
Emulator == \/ EmuCreate \/ EmuPark \/ EmuAlloc \/ EmuLoad \/ EmuTop \/ EmuExit
            \/ EmuSpin \/ EmuHit \/ EmuFetch \/ EmuExec \/ EmuReport \/ EmuClear

IceThread == \/ IceConnect \/ IceRead \/ IceDisconnect \/ IceGo \/ IceRun
             \/ IceBreak \/ IceCsip \/ IceTrace \/ IceTraced \/ IceQuery
             \/ IceFault \/ IceSetBP \/ IceUnsetBP \/ IceDefault \/ IceWrite
=============================================================================
