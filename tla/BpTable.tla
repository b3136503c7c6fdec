------------------------------ MODULE BpTable ------------------------------
(***************************************************************************)
(* The code breakpoint table taken apart into single memory accesses: the  *)
(* ICE thread writes it field by field (AddBreakpoint, RemoveBreakpoint),  *)
(* the emulator thread reads it field by field (the four IN_BP tests of    *)
(* ice_step), and nothing orders the one with the other.  The ICE thread   *)
(* is the only writer, so what it reads of the table itself is stable.     *)
(***************************************************************************)
EXTENDS Breakpoints

CONSTANTS BpAddr,              \* linear addresses
          MaxOverlap           \* bound: commands that may overlap one check

ASSUME BpTableAssumption == BpAddr \subseteq Nat /\ MaxOverlap \in Nat

VARIABLES table,               \* code_breakpoints
          op, arg, at,         \* the ICE thread: what it does, its address, its slot
          chk, addr, slot,     \* the emulator thread: what it reads next, of which slot
          armed,               \* history: addresses whose AddBreakpoint has ended and
                               \* whose RemoveBreakpoint has not begun
          wanted,              \* history: addresses whose AddBreakpoint has begun and
                               \* whose RemoveBreakpoint has not ended
          held, covered,       \* history: addr was armed ever since the check began,
                               \* and wanted at some time of it
          overlaps             \* commands that overlapped the check so far

tableVars == <<table, op, arg, at, armed, wanted>>
checkVars == <<chk, addr, slot>>
vars == <<tableVars, checkVars, held, covered, overlaps>>

Checking == chk \in {"enabled", "address", "end"}

Init ==
    /\ table = NoBreakpoints
    /\ op = "idle" /\ arg = 0 /\ at = 0 /\ armed = {} /\ wanted = {}
    /\ chk = "idle" /\ addr = 0 /\ slot = 0
    /\ held = FALSE /\ covered = FALSE /\ overlaps = 0

----------------------------------------------------------------------------
\* What a step of the ICE thread is to the check under way.
Witnessed ==
    /\ held' = (held /\ addr \in armed')
    /\ covered' = (covered \/ addr \in wanted')
    /\ UNCHANGED checkVars

\* A command of the ICE thread begins.
Begin ==
    /\ op = "idle" /\ (Checking => overlaps < MaxOverlap)
    /\ arg' \in BpAddr
    /\ overlaps' = IF Checking THEN overlaps + 1 ELSE overlaps
    /\ UNCHANGED table

\* Mutation of BeginAdd: the test for a free slot is lost.
BeginAddAnywhere ==
    /\ Begin
    /\ wanted' = wanted \cup {arg'} /\ UNCHANGED armed
    /\ op' = "address" /\ at' = 0
    /\ Witnessed

\* A table that is full is left as it is.
BeginAdd ==
    /\ FreeSlots(table) # {}
    /\ Begin
    /\ wanted' = wanted \cup {arg'} /\ UNCHANGED armed
    /\ op' = "address" /\ at' = AddIndex(table)
    /\ Witnessed

BeginRemove ==
    /\ Begin
    /\ armed' = armed \ {arg'} /\ UNCHANGED wanted
    /\ op' = "remove" /\ at' = 0
    /\ Witnessed

\* One write of a command that goes on, or ends.
Write(t) ==
    /\ table' = t
    /\ UNCHANGED <<arg, overlaps>>
    /\ Witnessed

\* Mutation of AddAddress: `enabled` is set first and not last.
AddAddressEnabled ==
    /\ op = "address"
    /\ op' = "end" /\ UNCHANGED <<at, armed, wanted>>
    /\ Write([table EXCEPT ![at].address = arg, ![at].enabled = TRUE])

AddAddress ==
    /\ op = "address"
    /\ op' = "end" /\ UNCHANGED <<at, armed, wanted>>
    /\ Write([table EXCEPT ![at].address = arg])

AddEnd ==
    /\ op = "end"
    /\ op' = "enable" /\ UNCHANGED <<at, armed, wanted>>
    /\ Write([table EXCEPT ![at].end = arg + 1])

AddEnabled ==
    /\ op = "enable"
    /\ op' = "idle" /\ armed' = armed \cup {arg} /\ UNCHANGED <<at, wanted>>
    /\ Write([table EXCEPT ![at].enabled = TRUE])

\* Mutation of RemoveSlot: the loop runs to i <= NUM_BPS.
RemoveSlotTooFar ==
    /\ op = "remove"
    /\ op' = (IF at \in Slots THEN "remove" ELSE "idle")
    /\ at' = at + 1
    /\ UNCHANGED <<armed, wanted>>
    /\ Write(table)

RemoveSlot ==
    /\ op = "remove"
    /\ \/ /\ at + 1 \in Slots
          /\ op' = "remove" /\ at' = at + 1 /\ UNCHANGED wanted
       \/ /\ at + 1 \notin Slots
          /\ op' = "idle" /\ at' = 0 /\ wanted' = wanted \ {arg}
    /\ UNCHANGED armed
    /\ Write(IF table[at].address = arg THEN [table EXCEPT ![at].enabled = FALSE] ELSE table)

----------------------------------------------------------------------------
\* ice_step begins its test of the linear address; a command that is under
\* way overlaps it.
BeginCheck ==
    /\ ~Checking
    /\ addr' \in BpAddr
    /\ slot' = 0 /\ chk' = "enabled"
    /\ held' = (addr' \in armed) /\ covered' = (addr' \in wanted)
    /\ overlaps' = IF op = "idle" THEN 0 ELSE 1
    /\ UNCHANGED tableVars

\* IN_BP of this slot failed: the next one, or no breakpoint here.
NextSlot ==
    /\ chk' = IF slot + 1 \in Slots THEN "enabled" ELSE "miss"
    /\ slot' = IF slot + 1 \in Slots THEN slot + 1 ELSE 0

Read(field, holds, next) ==
    /\ chk = field
    /\ IF holds THEN chk' = next /\ slot' = slot ELSE NextSlot
    /\ UNCHANGED <<tableVars, addr, held, covered, overlaps>>

ReadEnabled == Read("enabled", table[slot].enabled, "address")
ReadAddress == Read("address", addr >= table[slot].address, "end")
ReadEnd == Read("end", addr < table[slot].end, "hit")

IceThread == BeginAdd \/ BeginRemove \/ AddAddress \/ AddEnd \/ AddEnabled \/ RemoveSlot
Emulator == BeginCheck \/ ReadEnabled \/ ReadAddress \/ ReadEnd

Next == IceThread \/ Emulator
Spec == Init /\ [][Next]_vars
----------------------------------------------------------------------------
\* The types of the variables.
TypeOK ==
    /\ table \in [Slots -> Breakpoint]
    /\ op \in {"idle", "address", "end", "enable", "remove"} /\ arg \in BpAddr \cup {0}
    /\ at \in Slots /\ armed \subseteq BpAddr /\ wanted \subseteq BpAddr
    /\ chk \in {"idle", "enabled", "address", "end", "hit", "miss"}
    /\ addr \in BpAddr \cup {0} /\ slot \in Slots
    /\ held \in BOOLEAN /\ covered \in BOOLEAN /\ overlaps \in Nat

\* A check that at most one command overlaps reports only an address whose
\* breakpoint was wanted at some time of the check: `enabled` is written last
\* (main.c:48), so neither a half-written slot nor a stale one ever matches.
GenuineHit == (chk = "hit" /\ overlaps <= 1) => covered

\* An address whose breakpoint is armed all along a check is never missed,
\* whatever commands overlap it (main.c:175 reads the slots one by one).
GenuineMiss == chk = "miss" => ~held
=============================================================================
