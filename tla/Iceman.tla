------------------------------- MODULE Iceman -------------------------------
(***************************************************************************)
(* The debugger client, iceman/iceman.c: the main thread (OpenConnection,  *)
(* the command loop, SendBreakMessage, GoUntilBP, WaitPipeResponse) and    *)
(* the thread GoUntilBP starts, WaitForBreakMsgThread.                     *)
(***************************************************************************)
EXTENDS DebugPipe

CONSTANTS Targets,             \* addresses the user names in bp, br and g
          Cmds,                \* the commands the user types, by their letters
          MaxStrikes           \* bound: how often the user strikes the hotkey or Ctrl-C

ASSUME UserAssumption == Targets \subseteq Nat /\ MaxStrikes \in Nat

VARIABLES cli,                 \* what the main thread does next
          expect, need,        \* the reply it waits for and its size in words
          wt,                  \* what WaitForBreakMsgThread does next
          complete,            \* waiting.complete
          strikes              \* strikes so far

cliVars == <<cli, expect, need, wt, complete, strikes>>

CliInit ==
    /\ cli = "start" /\ expect = BrkKind /\ need = 0
    /\ wt = "off" /\ complete = FALSE
    /\ strikes = 0

Packet(cmd, arg) == [cmd |-> cmd, arg |-> arg]

Open ==
    /\ cli = "start"
    /\ ClientOpen
    /\ cli' = "break"
    /\ UNCHANGED <<expect, need, wt, complete, strikes>>

\* WriteFile of a command, then WaitPipeResponse for n words.
Ask(packet, kind, n) ==
    /\ ClientWrite(packet)
    /\ expect' = kind /\ need' = n
    /\ cli' = "wait"
    /\ UNCHANGED <<wt, complete, strikes, cliPending, cliBuf>>

SendBreak == cli = "break" /\ Ask(Packet("BREAK", 0), BrkKind, ReplyWords["brk"])

Query ==
    /\ cli = "prompt"
    /\ \/ "r" \in Cmds /\ Ask(Packet("DUMP_REGS", 0), "regs", ReplyWords["regs"])
       \/ "d" \in Cmds /\ Ask(Packet("DUMP_MEMORY", 1), "mem", MemoryWords(1))
       \/ "u" \in Cmds /\ Ask(Packet("DUMP_MEMORY", 8), "mem", MemoryWords(8))
       \/ "bl" \in Cmds /\ Ask(Packet("LIST_BP", 0), "list", ReplyWords["list"])
       \/ "wl" \in Cmds /\ Ask(Packet("LIST_WP", 0), "list", ReplyWords["list"])
       \/ "t" \in Cmds /\ Ask(Packet("TRACE", 0), "step", ReplyWords["step"])
       \/ "wp" \in Cmds /\ Ask(Packet("SET_WP", 0), "idx", ReplyWords["idx"])

SetBP ==
    /\ cli = "prompt" /\ "bp" \in Cmds
    /\ \E a \in Targets : Ask(Packet("SET_BP", a), "idx", ReplyWords["idx"])

\* br and wr do not wait for anything.
Tell ==
    /\ cli = "prompt"
    /\ \/ "br" \in Cmds /\ \E a \in Targets : ClientWrite(Packet("UNSET_BP", a))
       \/ "wr" \in Cmds /\ ClientWrite(Packet("UNSET_WP", 0))
    /\ UNCHANGED <<cliVars, cliPending, cliBuf>>

\* g, with or without a target: GO, then GoUntilBP starts the waiting thread.
Go ==
    /\ cli = "prompt" /\ "g" \in Cmds
    /\ \E a \in (IF "goto" \in Cmds THEN Targets ELSE {}) \cup {-1} :
          ClientWrite(Packet("GO", a))
    /\ cli' = "poll" /\ wt' = "read" /\ complete' = FALSE
    /\ UNCHANGED <<expect, need, strikes, cliPending, cliBuf>>

Quit ==
    /\ cli = "prompt" /\ "q" \in Cmds
    /\ ClientClose
    /\ cli' = "start"
    /\ UNCHANGED <<expect, need, wt, complete, strikes>>

----------------------------------------------------------------------------
\* WaitPipeResponse on the main thread; one call of ReadFile at a time.
CliRead ==
    /\ cli = "wait"
    /\ ClientRead(need)
    /\ cli' = "check"
    /\ UNCHANGED <<expect, need, wt, complete, strikes>>

\* A read that brought less than the reply is thrown away and repeated.
CliShort ==
    /\ cli = "check" /\ cliPending = 0 /\ Len(cliBuf) < need
    /\ cli' = "wait"
    /\ cliBuf' = <<>>
    /\ UNCHANGED <<expect, need, wt, complete, strikes, link, toServer, toClient,
                   srvPending, srvBuf, cliPending>>

\* Anything of the right size is taken for the reply.
CliAccept ==
    /\ cli = "check" /\ cliPending = 0 /\ Len(cliBuf) >= need
    /\ cli' = "prompt"
    /\ cliBuf' = <<>>
    /\ UNCHANGED <<expect, need, wt, complete, strikes, link, toServer, toClient,
                   srvPending, srvBuf, cliPending>>

----------------------------------------------------------------------------
\* WaitForBreakMsgThread.
WtRead ==
    /\ wt = "read"
    /\ ClientRead(ReplyWords["hit"])
    /\ wt' = "check"
    /\ UNCHANGED <<cli, expect, need, complete, strikes>>

WtShort ==
    /\ wt = "check" /\ cliPending = 0 /\ Len(cliBuf) < ReplyWords["hit"]
    /\ wt' = "read"
    /\ cliBuf' = <<>>
    /\ UNCHANGED <<cli, expect, need, complete, strikes, link, toServer, toClient,
                   srvPending, srvBuf, cliPending>>

WtAccept ==
    /\ wt = "check" /\ cliPending = 0 /\ Len(cliBuf) >= ReplyWords["hit"]
    /\ wt' = "set"
    /\ cliBuf' = <<>>
    /\ UNCHANGED <<cli, expect, need, complete, strikes, link, toServer, toClient,
                   srvPending, srvBuf, cliPending>>

WtSet ==
    /\ wt = "set"
    /\ complete' = TRUE
    /\ wt' = "off"
    /\ UNCHANGED <<cli, expect, need, strikes, pipeVars>>

\* The polling loop of GoUntilBP: a breakpoint was hit ...
Poll ==
    /\ cli = "poll" /\ complete
    /\ cli' = "prompt" /\ complete' = FALSE
    /\ UNCHANGED <<expect, need, wt, strikes, pipeVars>>

\* ... or a key was struck, which may come after `complete` was looked at:
\* the thread is terminated wherever it is, and its read cancelled.
Hotkey ==
    /\ cli = "poll" /\ strikes < MaxStrikes
    /\ strikes' = strikes + 1
    /\ wt' = "off" /\ complete' = FALSE
    /\ cliPending' = 0 /\ cliBuf' = <<>>
    /\ cli' = "break"
    /\ UNCHANGED <<expect, need, link, toServer, toClient, srvPending, srvBuf>>

\* Ctrl-C, or the end of the process in any other way, wherever it stands away
\* from its prompt: a command is written and not answered, the CPU runs.
Killed ==
    /\ cli \notin {"start", "prompt"} /\ strikes < MaxStrikes
    /\ strikes' = strikes + 1
    /\ ClientClose
    /\ wt' = "off" /\ complete' = FALSE
    /\ cli' = "start"
    /\ UNCHANGED <<expect, need>>

----------------------------------------------------------------------------
\* What the program does by itself, what the thread does, what the user does.
MainThread == Open \/ SendBreak \/ CliRead \/ CliShort \/ CliAccept \/ Poll
WaitThread == WtRead \/ WtShort \/ WtAccept \/ WtSet
User == Query \/ SetBP \/ Tell \/ Go \/ Quit \/ Hotkey \/ Killed
=============================================================================
