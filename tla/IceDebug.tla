------------------------------ MODULE IceDebug ------------------------------
(***************************************************************************)
(* MAVERICK and ICEMAN joined by the debugger pipe: four threads of two    *)
(* processes, interleaved one memory access or one pipe operation at a     *)
(* time.                                                                   *)
(***************************************************************************)
EXTENDS Maverick, Iceman

\* The user names locations.
ASSUME SessionAssumption == Targets \subseteq Addr

vars == <<mavVars, cliVars, pipeVars>>

Init == MavInit /\ CliInit /\ PipeInit

MavStep == (Emulator \/ IceThread) /\ UNCHANGED cliVars
CliStep == (MainThread \/ WaitThread \/ User) /\ UNCHANGED mavVars

Next == MavStep \/ CliStep

Spec == Init /\ [][Next]_vars

(***************************************************************************)
(* The threads of both processes are scheduled preemptively, so each one   *)
(* that can move does.  Nothing is asked of the user, nor of the length of *)
(* an instruction: one that reads the keyboard may wait for ever.          *)
(***************************************************************************)
Fairness ==
    /\ WF_vars(Emulator /\ emu # "exec" /\ UNCHANGED cliVars)
    /\ WF_vars(IceThread /\ ice # "tracing" /\ UNCHANGED cliVars)
    /\ WF_vars(MainThread /\ UNCHANGED mavVars)
    /\ WF_vars(WaitThread /\ UNCHANGED mavVars)

FairSpec == Spec /\ Fairness

----------------------------------------------------------------------------
EmuStates == {"create", "park", "alloc", "load", "top", "spin", "check", "exec", "report", "clear",
              "exit"}
IceStates == {"off", "connect", "read", "got", "run", "csip", "tracing", "write"}
CliStates == {"start", "break", "prompt", "wait", "check", "poll"}
WtStates == {"off", "read", "check", "set"}

Commands == {"GO", "BREAK", "TRACE", "DUMP_REGS", "DUMP_MEMORY", "LIST_BP", "LIST_WP",
             "SET_BP", "UNSET_BP", "SET_WP", "UNSET_WP"}
Packets == [cmd : Commands, arg : Int]
Kinds == DOMAIN ReplyWords \cup {"mem"}
Wire == Kinds \X Nat

\* The types of all the variables.
TypeOK ==
    /\ eip \in Addr /\ running \in BOOLEAN /\ after \in Nat
    /\ bps \in [Slots -> Breakpoint]
    /\ emu \in EmuStates /\ lin \in Addr /\ emuAt \in Addr
    /\ ice \in IceStates /\ iceAt \in Addr /\ iceBuf \in Seq(Wire)
    /\ link \in {"none", "listening", "open", "closed", "broken"}
    /\ toServer \in Seq(Packets) /\ toClient \in Seq(Wire)
    /\ srvPending \in BOOLEAN /\ srvBuf \in Seq(Packets)
    /\ cliPending \in Nat /\ cliBuf \in Seq(Wire)
    /\ cli \in CliStates /\ expect \in Kinds /\ need \in Nat
    /\ wt \in WtStates /\ complete \in BOOLEAN
    /\ strikes \in 0 .. MaxStrikes

\* BREAK and breakpoints clear `running` from one thread while the other may
\* be past its test of it (main.c:173, 404): no more than one instruction of
\* the emulator thread ends after that, until the next GO.
OneStraggler == ~running => after <= 1

\* What a thread of ICEMAN takes for the reply to its command (iceman.c:149)
\* is that reply, whole, and what GoUntilBP reports is a breakpoint hit.
RepliesMatch ==
    /\ (cli = "check" /\ cliPending = 0 /\ Len(cliBuf) >= need)
          => cliBuf = Words(expect, need)
    /\ (wt = "check" /\ cliPending = 0 /\ Len(cliBuf) >= ReplyWords["hit"])
          => cliBuf = Reply(HitKind)

\* The prompt of ICEMAN shows a stopped CPU: nothing runs, or the breakpoint
\* that was reported is about to clear `running` (main.c:185).
PromptMeansStopped == cli = "prompt" => (~running \/ emu = "clear")

\* A strike of the hotkey that races a breakpoint (iceman.c:226), and a debugger
\* that dies before the hit it went for (main.c:373), leave one brk_resp too many
\* in the stream and no more, however long it goes on.
StrayReplies == cli = "prompt" => Len(toClient) <= ReplyWords["brk"] * strikes

\* What was read from the pipe has the packet the debugger waits for, the last
\* one, behind another: only the first is executed (main.c:382).
Overlooked ==
    /\ ice = "got" /\ Len(srvBuf) > 1
    /\ srvBuf[Len(srvBuf)].cmd \notin {"GO", "UNSET_BP", "UNSET_WP"}

\* SET_WP is taken, for which the switch has no case (main.c:473).
Ignored == ice = "got" /\ srvBuf # <<>> /\ Head(srvBuf).cmd = "SET_WP"

\* The reply cannot come: the traced instruction waits for the keyboard, as it
\* may for ever, or MAVERICK is gone.
Unanswerable == ice = "tracing" \/ link = "broken"

\* The debugger waits for the response to a packet still in the pipe or in the
\* buffer of the ICE thread, as it does once it has written it.
Asking == cli = "wait" /\ (toServer # <<>> \/ srvBuf # <<>>)

\* A command that waits for a response gets one (iceman.c:274), unless it is wp,
\* or is read together with a br or wr typed before it and dropped.
Answered == Asking ~> (cli = "prompt" \/ Unanswerable \/ Overlooked \/ Ignored)

\* Wherever a debugger ends, by q or killed between two steps, the next one
\* connects and gets its prompt (main.c:373-378, iceman.c:253).
Recovers == (cli = "start") ~> (cli = "prompt" \/ Unanswerable)

\* A breakpoint that is hit is reported by the debugger (iceman.c:491).
HitReported == (emu = "report" /\ cli = "poll") ~> (cli # "poll")

\* GO sets the CPU going (main.c:401) and nothing takes that back before it has
\* moved, unless it overtakes the initial stop (main.c:498) or, typed as soon as
\* the hit is written, the stop that belongs to that hit (main.c:185).
Overtaking == emu \in {"park", "clear"}
GoMoves == (ice = "run" /\ ~Overtaking) ~> emu \in {"check", "exec", "exit"}

\* "Breakpoint hit at" (main.c:181) is said of an address that has a breakpoint.
HitAtBreakpoint == [][emu # "report" /\ emu' = "report" => AnyInBP(bps, eip)]_vars

\* An instruction is single-stepped by one thread at a time (iceman.c:488).
OneStepper == ~(emu = "exec" /\ ice = "tracing")
=============================================================================
