---------------------------- MODULE Breakpoints ----------------------------
(***************************************************************************)
(* The code breakpoint table of MAVERICK (maverick/main.c) as a value: a   *)
(* table is a function from slots to records, and the operators below are  *)
(* what AddBreakpoint, RemoveBreakpoint and the IN_BP test make of it when *)
(* nobody else touches the table.  BpTable takes the same routines apart   *)
(* into the single memory accesses the two threads really make.            *)
(***************************************************************************)
EXTENDS Integers, FiniteSetsExt

CONSTANT NumBps                \* NUM_BPS, the number of slots

ASSUME NumBpsAssumption == NumBps \in Nat \ {0}

Slots == 0 .. NumBps - 1

\* A slot of breakpoint[NUM_BPS]; `end` is exclusive.
Breakpoint == [address : Int, end : Int, enabled : BOOLEAN]

NoBreakpoints == [i \in Slots |-> [address |-> 0, end |-> 0, enabled |-> FALSE]]

InBP(bp, addr) == bp.enabled /\ addr >= bp.address /\ addr < bp.end

AnyInBP(table, addr) == \E i \in Slots : InBP(table[i], addr)

FreeSlots(table) == {i \in Slots : ~table[i].enabled}

\* The index AddBreakpoint returns: the first free slot, -1 when there is none.
AddIndex(table) ==
    IF FreeSlots(table) = {} THEN -1 ELSE Min(FreeSlots(table))

AddBreakpoint(table, addr) ==
    IF FreeSlots(table) = {} THEN table
    ELSE [table EXCEPT ![AddIndex(table)] =
            [address |-> addr, end |-> addr + 1, enabled |-> TRUE]]

\* Every slot holding the address is disabled, its address and end stay.
RemoveBreakpoint(table, addr) ==
    [i \in Slots |-> IF table[i].address = addr
                     THEN [table[i] EXCEPT !.enabled = FALSE]
                     ELSE table[i]]
=============================================================================
