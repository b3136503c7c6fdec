----------------------------- MODULE DebugPipe -----------------------------
(***************************************************************************)
(* The named pipe between MAVERICK (which creates it, main.c:493) and      *)
(* ICEMAN (which opens it, iceman.c:26): duplex, byte mode, synchronous    *)
(* handles at both ends.  The pipe is Windows code, modelled from the      *)
(* calls the two programs make:                                            *)
(*   - a ReadFile that finds bytes takes all of them, up to its buffer;    *)
(*   - a ReadFile that finds none stays pending, and the next WriteFile    *)
(*     of the other end is copied into it and completes it, alone: what    *)
(*     is written later waits in the pipe;                                 *)
(*   - the operations of one synchronous handle are serialised, so a       *)
(*     WriteFile of another thread waits while a ReadFile is pending.      *)
(*                                                                         *)
(* Replies travel as words of four bytes <<kind, index>>: the kind, which  *)
(* only properties look at, is the reply the word was written in.  What    *)
(* the words say (registers, memory, the location the prompt prints) is    *)
(* shown to the user and steers nothing.                                   *)
(***************************************************************************)
EXTENDS Integers, Sequences

CONSTANT PipeCap               \* bound: packets the pipe holds (4096 bytes in the code)

\* Packets of 20 bytes, and as many of them as the 1024 bytes of main.c:370 take
\* whole: one ReadFile empties the pipe and splits no packet.
ASSUME PipeAssumption == PipeCap \in 1 .. 51

VARIABLES link,                \* none, listening, open, closed (client gone), broken
          toServer,            \* packets written by ICEMAN, not yet read
          toClient,            \* words written by MAVERICK, not yet read
          srvPending,          \* MAVERICK has a ReadFile pending
          srvBuf,              \* packets its last ReadFile returned
          cliPending,          \* words the pending ReadFile of ICEMAN asks for, 0: none
          cliBuf               \* words its last ReadFile returned

pipeVars == <<link, toServer, toClient, srvPending, srvBuf, cliPending, cliBuf>>

----------------------------------------------------------------------------
\* Sizes on the wire, in words: sizeof brk_resp, step_pkt, breakpoint[4], ice_regs.
HitKind == "hit"               \* brk_resp the emulator thread writes
BrkKind == "brk"               \* brk_resp the ICE thread writes
ReplyWords == [hit |-> 2, brk |-> 2, step |-> 7, list |-> 12, regs |-> 68, idx |-> 1]

\* DUMP_MEMORY answers 16 bytes a paragraph.
MemoryWords(paragraphs) == 4 * paragraphs

Words(kind, n) == [i \in 1 .. n |-> <<kind, i>>]

Reply(kind) == Words(kind, ReplyWords[kind])

First(s, n) == SubSeq(s, 1, IF Len(s) < n THEN Len(s) ELSE n)
Rest(s, n) == SubSeq(s, n + 1, Len(s))

PipeInit ==
    /\ link = "none"
    /\ toServer = <<>> /\ toClient = <<>>
    /\ srvPending = FALSE /\ srvBuf = <<>>
    /\ cliPending = 0 /\ cliBuf = <<>>

----------------------------------------------------------------------------
\* WriteFile by MAVERICK: into the pending ReadFile of ICEMAN if there is one.
\* It fails, and the caller never looks, when nobody is at the other end.
ServerWrite(words) ==
    /\ IF link = "open"
       THEN IF cliPending > 0
            THEN /\ cliBuf' = First(words, cliPending)
                 /\ toClient' = toClient \o Rest(words, cliPending)
                 /\ cliPending' = 0
            ELSE /\ toClient' = toClient \o words
                 /\ UNCHANGED <<cliBuf, cliPending>>
       ELSE UNCHANGED <<toClient, cliBuf, cliPending>>
    /\ UNCHANGED <<link, toServer, srvPending, srvBuf>>

\* WriteFile of one cmd_pkt by ICEMAN; it waits while the pipe is full.
ClientWrite(packet) ==
    /\ IF link = "open"
       THEN IF srvPending
            THEN /\ srvBuf' = <<packet>>
                 /\ srvPending' = FALSE
                 /\ UNCHANGED toServer
            ELSE /\ Len(toServer) < PipeCap
                 /\ toServer' = Append(toServer, packet)
                 /\ UNCHANGED <<srvBuf, srvPending>>
       ELSE UNCHANGED <<toServer, srvBuf, srvPending>>
    /\ UNCHANGED <<link, toClient>>

\* ReadFile by ICEMAN for at most n words: what is there, or a pending read.
\* On a broken pipe it fails at once.
ClientRead(n) ==
    /\ \/ /\ toClient # <<>>
          /\ cliBuf' = First(toClient, n)
          /\ toClient' = Rest(toClient, n)
          /\ UNCHANGED cliPending
       \/ /\ toClient = <<>> /\ link = "open"
          /\ cliPending' = n
          /\ cliBuf' = <<>>
          /\ UNCHANGED toClient
    /\ UNCHANGED <<link, toServer, srvPending, srvBuf>>

\* CreateFile by ICEMAN succeeds on a pipe instance that waits for a client.
ClientOpen ==
    /\ link = "listening"
    /\ link' = "open"
    /\ UNCHANGED <<toServer, toClient, srvPending, srvBuf, cliPending, cliBuf>>

\* The ICEMAN process ends.  Its unread replies are lost, a pending read of
\* MAVERICK fails, packets already written stay readable.
ClientClose ==
    /\ link' = IF link = "open" THEN "closed" ELSE link
    /\ toClient' = <<>> /\ cliBuf' = <<>> /\ cliPending' = 0
    /\ srvPending' = FALSE
    /\ UNCHANGED <<toServer, srvBuf>>

\* The MAVERICK process ends: a pending read of ICEMAN fails.
ServerClose ==
    /\ link' = "broken"
    /\ toServer' = <<>> /\ srvBuf' = <<>> /\ srvPending' = FALSE
    /\ cliPending' = 0
    /\ UNCHANGED <<toClient, cliBuf>>
=============================================================================
