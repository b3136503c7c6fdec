---------------------------- MODULE BpTableProofs ----------------------------
(***************************************************************************)
(* What holds of the breakpoint table for every number of slots, every set *)
(* of addresses and every number of commands that overlap a check.         *)
(***************************************************************************)
EXTENDS BpTable, WellFoundedInduction, TLAPS

\* Min picks the smallest element of a set of slots.
LEMMA MinElement ==
    ASSUME NEW S, S \subseteq Nat, S # {}
    PROVE  Min(S) \in S /\ \A y \in S : Min(S) <= y
<1>1. PICK x \in S : \A y \in S : ~(<<y, x>> \in OpToRel(<, Nat))
    BY WFMin, NatLessThanWellFounded
<1>2. \A y, z \in Nat : y < z => <<y, z>> \in OpToRel(<, Nat)
    BY Zenon DEF OpToRel
<1>3. \A y \in S : ~(y < x)
    BY <1>1, <1>2, Zenon
<1>4. \A y \in S : x <= y
    BY <1>3
<1>. QED
    BY <1>4 DEF Min

----------------------------------------------------------------------------
(***************************************************************************)
(* The table between the writes of a command.  Every armed address has a   *)
(* slot; every enabled slot is one whole breakpoint that is wanted; the    *)
(* slot AddBreakpoint fills is disabled until its last write, and the      *)
(* slots RemoveBreakpoint has passed no longer hold its address.           *)
(***************************************************************************)
Adding == op \in {"address", "end", "enable"}
Holds(b, a) == b.enabled /\ b.address = a /\ b.end = a + 1

ArmedInTable == \A a \in armed : \E i \in Slots : Holds(table[i], a)
EnabledIsWanted ==
    \A i \in Slots : table[i].enabled =>
        table[i].end = table[i].address + 1 /\ table[i].address \in wanted
AddedIsOff == Adding => ~table[at].enabled /\ arg \in wanted
Filled ==
    /\ op \in {"end", "enable"} => table[at].address = arg
    /\ op = "enable" => table[at].end = arg + 1
Passed ==
    op = "remove" =>
        /\ arg \notin armed
        /\ \A i \in Slots : i < at => ~(table[i].enabled /\ table[i].address = arg)

TableInv == ArmedInTable /\ EnabledIsWanted /\ AddedIsOff /\ Filled /\ Passed

LEMMA SlotsAreNat ==
    Slots \subseteq Nat /\ 0 \in Slots /\ \A i \in Slots : i >= 0 /\ i <= NumBps - 1
BY NumBpsAssumption DEF Slots

\* AddBreakpoint's index is a free slot.
LEMMA AddIndexIsFree ==
    ASSUME NEW t, FreeSlots(t) # {}
    PROVE  AddIndex(t) \in Slots /\ ~t[AddIndex(t)].enabled
<1>1. FreeSlots(t) \subseteq Nat
    BY SlotsAreNat DEF FreeSlots
<1>2. AddIndex(t) \in FreeSlots(t)
    BY <1>1, MinElement DEF AddIndex
<1>. QED
    BY <1>2 DEF FreeSlots

LEMMA InitTable ==
    ASSUME Init
    PROVE  TypeOK /\ TableInv
<1>1. [address |-> 0, end |-> 0, enabled |-> FALSE] \in Breakpoint
    BY DEF Breakpoint
<1>2. NoBreakpoints \in [Slots -> Breakpoint] /\ \A i \in Slots : ~NoBreakpoints[i].enabled
    BY <1>1 DEF NoBreakpoints
<1>3. TypeOK
    BY <1>2, SlotsAreNat DEF Init, TypeOK
<1>. QED
    BY <1>2, <1>3 DEF Init, TableInv, ArmedInTable, EnabledIsWanted, AddedIsOff, Filled,
                      Passed, Adding

\* What a write does to the check has the right types.
LEMMA WitnessedType ==
    ASSUME TypeOK, Witnessed
    PROVE  /\ held' \in BOOLEAN /\ covered' \in BOOLEAN
           /\ UNCHANGED <<chk, addr, slot>>
BY DEF TypeOK, Witnessed, checkVars

LEMMA BeginTable ==
    ASSUME TypeOK, TableInv, BeginAdd \/ BeginRemove
    PROVE  TypeOK' /\ TableInv'
<1>. USE DEF TableInv, ArmedInTable, EnabledIsWanted, AddedIsOff, Filled, Passed, Adding
<1>1. Witnessed /\ table' = table /\ arg' \in BpAddr /\ op = "idle"
    BY DEF BeginAdd, BeginRemove, Begin
<1>2. overlaps' \in Nat
    BY DEF BeginAdd, BeginRemove, Begin, TypeOK
<1>3. CASE BeginAdd
    <2>1. /\ op' = "address" /\ at' \in Slots /\ ~table[at'].enabled
          /\ wanted' = wanted \cup {arg'} /\ armed' = armed
        BY <1>3, AddIndexIsFree DEF BeginAdd
    <2>2. TypeOK'
        BY <1>1, <1>2, <2>1, WitnessedType DEF TypeOK
    <2>. QED BY <1>1, <2>1, <2>2
<1>4. CASE BeginRemove
    <2>1. /\ op' = "remove" /\ at' = 0 /\ wanted' = wanted /\ armed' = armed \ {arg'}
        BY <1>4 DEF BeginRemove
    <2>2. TypeOK'
        BY <1>1, <1>2, <2>1, SlotsAreNat, WitnessedType DEF TypeOK
    <2>. QED BY <1>1, <2>1, <2>2, SlotsAreNat
<1>. QED BY <1>3, <1>4

\* AddBreakpoint changes the one slot it fills.
LEMMA AddTable ==
    ASSUME TypeOK, TableInv, AddAddress \/ AddEnd \/ AddEnabled
    PROVE  /\ TypeOK' /\ TableInv'
           /\ Adding /\ \A i \in Slots : i # at => table'[i] = table[i]
<1>. USE DEF Adding
<1>1. /\ table \in [Slots -> Breakpoint] /\ at \in Slots /\ arg \in Int
      /\ armed \subseteq BpAddr /\ wanted \subseteq BpAddr
    BY BpTableAssumption DEF TypeOK
<1>2. /\ Witnessed /\ wanted' = wanted /\ at' = at /\ arg' = arg /\ overlaps' = overlaps
      /\ Adding
    BY DEF AddAddress, AddEnd, AddEnabled, Write
<1>3. CASE AddAddress
    <2>1. /\ op = "address" /\ op' = "end" /\ armed' = armed
          /\ table' = [table EXCEPT ![at].address = arg]
        BY <1>3 DEF AddAddress, Write
    <2>2. /\ table' \in [Slots -> Breakpoint] /\ table'[at].address = arg
          /\ table'[at].enabled = table[at].enabled
          /\ \A i \in Slots : i # at => table'[i] = table[i]
        BY <1>1, <2>1 DEF Breakpoint
    <2>3. TypeOK'
        BY <1>2, <2>1, <2>2, WitnessedType DEF TypeOK
    <2>4. ArmedInTable'
        BY <1>1, <1>2, <2>1, <2>2 DEF TableInv, ArmedInTable, AddedIsOff, Holds
    <2>. QED
        BY <1>1, <1>2, <2>1, <2>2, <2>3, <2>4
           DEF TableInv, EnabledIsWanted, AddedIsOff, Filled, Passed
<1>4. CASE AddEnd
    <2>1. /\ op = "end" /\ op' = "enable" /\ armed' = armed
          /\ table' = [table EXCEPT ![at].end = arg + 1]
        BY <1>4 DEF AddEnd, Write
    <2>2. /\ table' \in [Slots -> Breakpoint] /\ table'[at].end = arg + 1
          /\ table'[at].enabled = table[at].enabled
          /\ table'[at].address = table[at].address
          /\ \A i \in Slots : i # at => table'[i] = table[i]
        BY <1>1, <2>1 DEF Breakpoint
    <2>3. TypeOK'
        BY <1>2, <2>1, <2>2, WitnessedType DEF TypeOK
    <2>4. ArmedInTable'
        BY <1>1, <1>2, <2>1, <2>2 DEF TableInv, ArmedInTable, AddedIsOff, Holds
    <2>. QED
        BY <1>1, <1>2, <2>1, <2>2, <2>3, <2>4
           DEF TableInv, EnabledIsWanted, AddedIsOff, Filled, Passed
<1>5. CASE AddEnabled
    <2>1. /\ op = "enable" /\ op' = "idle" /\ armed' = armed \cup {arg}
          /\ table' = [table EXCEPT ![at].enabled = TRUE]
        BY <1>5 DEF AddEnabled, Write
    <2>2. /\ table' \in [Slots -> Breakpoint] /\ table'[at].enabled
          /\ table'[at].address = table[at].address /\ table'[at].end = table[at].end
          /\ \A i \in Slots : i # at => table'[i] = table[i]
        BY <1>1, <2>1 DEF Breakpoint
    <2>3. arg \in wanted /\ ~table[at].enabled
        BY <1>2 DEF TableInv, AddedIsOff
    <2>4. TypeOK'
        BY <1>1, <1>2, <2>1, <2>2, <2>3, WitnessedType DEF TypeOK
    <2>5. Holds(table'[at], arg)
        BY <2>1, <2>2 DEF TableInv, Filled, Holds
    <2>6. ArmedInTable'
        BY <1>1, <1>2, <2>1, <2>2, <2>3, <2>5 DEF TableInv, ArmedInTable, Holds
    <2>. QED
        BY <1>1, <1>2, <2>1, <2>2, <2>3, <2>4, <2>5, <2>6
           DEF TableInv, EnabledIsWanted, AddedIsOff, Filled, Passed, Holds
<1>. QED BY <1>3, <1>4, <1>5

\* RemoveBreakpoint only disables slots, and only those of its address.
LEMMA RemoveTable ==
    ASSUME TypeOK, TableInv, RemoveSlot
    PROVE  /\ TypeOK' /\ TableInv'
           /\ ~Adding' /\ arg \notin armed /\ armed' = armed
           /\ \A i \in Slots : /\ table'[i].address = table[i].address
                               /\ table'[i].end = table[i].end
                               /\ table'[i].enabled => table[i].enabled
                               /\ table[i].address # arg => table'[i] = table[i]
<1>1. /\ table \in [Slots -> Breakpoint] /\ at \in Slots /\ wanted \subseteq BpAddr
    BY DEF TypeOK
<1>2. /\ op = "remove" /\ armed' = armed /\ arg' = arg /\ overlaps' = overlaps /\ Witnessed
      /\ table' = IF table[at].address = arg THEN [table EXCEPT ![at].enabled = FALSE]
                  ELSE table
    BY DEF RemoveSlot, Write
<1>3. /\ table' \in [Slots -> Breakpoint]
      /\ ~(table'[at].enabled /\ table'[at].address = arg)
      /\ \A i \in Slots : /\ table'[i].address = table[i].address
                          /\ table'[i].end = table[i].end
                          /\ table'[i].enabled => table[i].enabled
                          /\ table[i].address # arg => table'[i] = table[i]
    BY <1>1, <1>2 DEF Breakpoint
<1>4. arg \notin armed
    BY <1>2 DEF TableInv, Passed
<1>5. \A i \in Slots : i <= at => ~(table'[i].enabled /\ table'[i].address = arg)
    BY <1>1, <1>2, <1>3, SlotsAreNat DEF TableInv, Passed
<1>6. ArmedInTable'
    BY <1>2, <1>3, <1>4 DEF TableInv, ArmedInTable, Holds
<1>7. CASE at + 1 \in Slots
    <2>1. op' = "remove" /\ at' = at + 1 /\ wanted' = wanted
        BY <1>7 DEF RemoveSlot
    <2>2. TypeOK'
        BY <1>2, <1>3, <1>7, <2>1, WitnessedType DEF TypeOK
    <2>3. Passed'
        BY <1>1, <1>2, <1>4, <1>5, <2>1, SlotsAreNat DEF Passed
    <2>4. EnabledIsWanted'
        BY <1>3, <2>1 DEF TableInv, EnabledIsWanted
    <2>. QED
        BY <1>2, <1>3, <1>4, <1>6, <2>1, <2>2, <2>3, <2>4
           DEF TableInv, AddedIsOff, Filled, Adding
<1>8. CASE at + 1 \notin Slots
    <2>1. op' = "idle" /\ at' = 0 /\ wanted' = wanted \ {arg}
        BY <1>8 DEF RemoveSlot
    <2>2. TypeOK'
        BY <1>1, <1>2, <1>3, <2>1, SlotsAreNat, WitnessedType DEF TypeOK
    <2>3. \A i \in Slots : i <= at
        BY <1>1, <1>8, NumBpsAssumption DEF Slots
    <2>4. EnabledIsWanted'
        BY <1>3, <1>5, <2>1, <2>3 DEF TableInv, EnabledIsWanted
    <2>. QED
        BY <1>2, <1>3, <1>4, <1>6, <2>1, <2>2, <2>4
           DEF TableInv, AddedIsOff, Filled, Passed, Adding
<1>. QED BY <1>7, <1>8

----------------------------------------------------------------------------
(***************************************************************************)
(* No miss: an address that is armed all along has a slot ahead of the     *)
(* reader, since a test the reader passes it by on would have failed on a  *)
(* field of that slot.                                                     *)
(*                                                                         *)
(* No false hit: while the reader is past the `enabled` of a slot, no      *)
(* AddBreakpoint is filling that slot: it was seen enabled, and the slot   *)
(* of an AddBreakpoint is disabled from before the command to its last     *)
(* write.  So the address and the end it goes on to compare are those of   *)
(* one breakpoint.                                                         *)
(***************************************************************************)
Reading == chk \in {"address", "end"}
OneCommand == overlaps <= 1

HeldArmed == held => addr \in armed
HeldAhead == Checking /\ held => \E i \in Slots : i >= slot /\ Holds(table[i], addr)
MissInv == HeldArmed /\ HeldAhead /\ GenuineMiss

OverlapCounted == Checking /\ op # "idle" => overlaps >= 1
CoverNoted == Checking /\ addr \in wanted => covered
QuietIsOn == Reading /\ overlaps = 0 => table[slot].enabled
ReadIsNotAdded == Reading /\ OneCommand /\ Adding => slot # at
ReadDoesNotCover ==
    Reading /\ OneCommand /\ ~covered
      => ~(addr >= table[slot].address /\ addr < table[slot].end)
AddressWasRead == chk = "end" /\ OneCommand => addr >= table[slot].address
HitInv ==
    /\ OverlapCounted /\ CoverNoted /\ QuietIsOn
    /\ ReadIsNotAdded /\ ReadDoesNotCover /\ AddressWasRead
    /\ GenuineHit

BpInv == TypeOK /\ TableInv /\ MissInv /\ HitInv

\* What every step of the ICE thread does to the reader's side.
LEMMA WitnessedReader ==
    ASSUME BpInv, Witnessed
    PROVE  /\ HeldArmed' /\ CoverNoted' /\ GenuineMiss'
           /\ held' => held /\ addr \in armed'
           /\ covered => covered'
           /\ Checking' = Checking /\ Reading' = Reading
           /\ UNCHANGED <<chk, addr, slot>>
BY DEF BpInv, MissInv, HeldArmed, CoverNoted, GenuineMiss, Witnessed, checkVars, Checking,
       Reading

LEMMA BeginReader ==
    ASSUME BpInv, BeginAdd \/ BeginRemove
    PROVE  MissInv' /\ HitInv'
<1>1. /\ Witnessed /\ table' = table /\ op = "idle"
      /\ overlaps' = IF Checking THEN overlaps + 1 ELSE overlaps
    BY DEF BeginAdd, BeginRemove, Begin
<1>2. overlaps \in Nat
    BY DEF BpInv, TypeOK
<1>3. /\ HeldArmed' /\ CoverNoted' /\ GenuineMiss'
      /\ held' => held
      /\ covered => covered'
      /\ Checking' = Checking /\ Reading' = Reading
      /\ UNCHANGED <<chk, addr, slot>>
    BY <1>1, WitnessedReader
<1>4. HeldAhead'
    BY <1>1, <1>3 DEF BpInv, MissInv, HeldAhead
<1>5. OverlapCounted'
    BY <1>1, <1>2, <1>3 DEF OverlapCounted
<1>6. Reading /\ OneCommand' => overlaps = 0
    BY <1>1, <1>2 DEF OneCommand, Reading, Checking
<1>7. QuietIsOn'
    BY <1>1, <1>2, <1>3 DEF QuietIsOn, Reading, Checking
<1>8. ReadIsNotAdded'
    <2>1. CASE BeginAdd
        <3>1. ~table[at'].enabled
            BY <2>1, AddIndexIsFree DEF BeginAdd
        <3>2. Reading /\ OneCommand' => slot # at'
            BY <1>6, <3>1 DEF BpInv, HitInv, QuietIsOn
        <3>. QED BY <1>3, <3>2 DEF ReadIsNotAdded
    <2>2. CASE BeginRemove
        <3>1. op' = "remove"
            BY <2>2 DEF BeginRemove
        <3>. QED BY <3>1 DEF ReadIsNotAdded, Adding
    <2>. QED BY <2>1, <2>2
<1>9. OneCommand' => OneCommand
    BY <1>1, <1>2 DEF OneCommand
<1>10. ReadDoesNotCover' /\ AddressWasRead'
    BY <1>1, <1>3, <1>9 DEF BpInv, HitInv, ReadDoesNotCover, AddressWasRead
<1>11. GenuineHit'
    BY <1>1, <1>2, <1>3 DEF BpInv, HitInv, GenuineHit, Checking
<1>. QED
    BY <1>3, <1>4, <1>5, <1>7, <1>8, <1>10, <1>11 DEF MissInv, HitInv

\* A write keeps a reader's slot as it compares it, and every slot that holds
\* an address that stays armed.
LEMMA WriteReader ==
    ASSUME BpInv, Witnessed, UNCHANGED overlaps, op # "idle",
           ReadIsNotAdded',
           Reading /\ OneCommand => /\ table'[slot].address = table[slot].address
                                    /\ table'[slot].end = table[slot].end,
           \A a \in armed \cap armed', i \in Slots :
               Holds(table[i], a) => Holds(table'[i], a)
    PROVE  MissInv' /\ HitInv'
<1>1. /\ HeldArmed' /\ CoverNoted' /\ GenuineMiss'
      /\ held' => held /\ addr \in armed'
      /\ covered => covered'
      /\ Checking' = Checking /\ Reading' = Reading
      /\ UNCHANGED <<chk, addr, slot>>
    BY WitnessedReader
<1>2. OneCommand' = OneCommand /\ (Checking => overlaps >= 1) /\ overlaps \in Nat
    BY DEF OneCommand, BpInv, HitInv, OverlapCounted, TypeOK
<1>3. held => addr \in armed
    BY DEF BpInv, MissInv, HeldArmed
<1>4. HeldAhead'
    BY <1>1, <1>3 DEF BpInv, MissInv, HeldAhead
<1>5. OverlapCounted' /\ QuietIsOn'
    BY <1>1, <1>2 DEF OverlapCounted, QuietIsOn, Reading, Checking
<1>6. ReadDoesNotCover'
    BY <1>1, <1>2 DEF BpInv, HitInv, ReadDoesNotCover
<1>7. AddressWasRead'
    BY <1>1, <1>2 DEF BpInv, HitInv, AddressWasRead, Reading
<1>8. GenuineHit'
    BY <1>1 DEF BpInv, HitInv, GenuineHit
<1>. QED
    BY <1>1, <1>4, <1>5, <1>6, <1>7, <1>8 DEF MissInv, HitInv

LEMMA IceThreadStep ==
    ASSUME BpInv, IceThread
    PROVE  BpInv'
<1>. USE DEF BpInv
<1>1. CASE BeginAdd \/ BeginRemove
    BY <1>1, BeginTable, BeginReader
<1>2. CASE AddAddress \/ AddEnd \/ AddEnabled
    <2>1. /\ TypeOK' /\ TableInv'
          /\ Adding /\ \A i \in Slots : i # at => table'[i] = table[i]
        BY <1>2, AddTable
    <2>2. Witnessed /\ UNCHANGED overlaps /\ op # "idle" /\ at' = at
        BY <1>2 DEF AddAddress, AddEnd, AddEnabled, Write
    <2>3. ~table[at].enabled /\ slot \in Slots
        BY <2>1 DEF TableInv, AddedIsOff, TypeOK
    <2>4. Reading /\ OneCommand => slot # at
        BY <2>1 DEF HitInv, ReadIsNotAdded
    <2>5. UNCHANGED <<chk, slot>>
        BY <2>2 DEF Witnessed, checkVars
    <2>6. ReadIsNotAdded'
        BY <2>2, <2>4, <2>5 DEF ReadIsNotAdded, Reading, OneCommand
    <2>7. \A a \in armed \cap armed', i \in Slots : Holds(table[i], a) => Holds(table'[i], a)
        BY <2>1, <2>3 DEF Holds
    <2>8. MissInv' /\ HitInv'
        BY <2>1, <2>2, <2>3, <2>4, <2>6, <2>7, WriteReader
    <2>. QED BY <2>1, <2>8
<1>3. CASE RemoveSlot
    <2>1. /\ TypeOK' /\ TableInv'
          /\ ~Adding' /\ arg \notin armed /\ armed' = armed
          /\ \A i \in Slots : /\ table'[i].address = table[i].address
                              /\ table'[i].end = table[i].end
                              /\ table[i].address # arg => table'[i] = table[i]
        BY <1>3, RemoveTable
    <2>2. Witnessed /\ UNCHANGED overlaps /\ op # "idle"
        BY <1>3 DEF RemoveSlot, Write
    <2>3. ReadIsNotAdded' /\ slot \in Slots
        BY <2>1 DEF ReadIsNotAdded, TypeOK
    <2>4. \A a \in armed \cap armed', i \in Slots : Holds(table[i], a) => Holds(table'[i], a)
        BY <2>1 DEF Holds
    <2>5. MissInv' /\ HitInv'
        BY <2>1, <2>2, <2>3, <2>4, WriteReader
    <2>. QED BY <2>1, <2>5
<1>. QED
    BY <1>1, <1>2, <1>3 DEF IceThread

----------------------------------------------------------------------------
\* The reader does not touch the table.
LEMMA TableUntouched ==
    ASSUME TableInv, UNCHANGED tableVars
    PROVE  TableInv'
BY DEF TableInv, ArmedInTable, EnabledIsWanted, AddedIsOff, Filled, Passed, Adding, tableVars

LEMMA BeginCheckStep ==
    ASSUME BpInv, BeginCheck
    PROVE  BpInv'
<1>1. /\ addr' \in BpAddr /\ slot' = 0 /\ chk' = "enabled"
      /\ held' = (addr' \in armed) /\ covered' = (addr' \in wanted)
      /\ overlaps' = IF op = "idle" THEN 0 ELSE 1
      /\ UNCHANGED tableVars /\ UNCHANGED <<table, op, arg, at, armed, wanted>>
    BY DEF BeginCheck, tableVars
<1>2. TypeOK'
    BY <1>1, SlotsAreNat DEF BpInv, TypeOK
<1>3. TableInv'
    BY <1>1, TableUntouched DEF BpInv
<1>4. HeldAhead'
    BY <1>1, SlotsAreNat DEF HeldAhead, BpInv, TableInv, ArmedInTable
<1>5. MissInv'
    BY <1>1, <1>4 DEF MissInv, HeldArmed, GenuineMiss
<1>6. OverlapCounted'
    BY <1>1 DEF OverlapCounted
<1>7. CoverNoted'
    BY <1>1 DEF CoverNoted
<1>8. QuietIsOn' /\ ReadIsNotAdded' /\ ReadDoesNotCover' /\ AddressWasRead' /\ GenuineHit'
    BY <1>1 DEF QuietIsOn, ReadIsNotAdded, ReadDoesNotCover, AddressWasRead, GenuineHit, Reading
<1>. QED
    BY <1>2, <1>3, <1>5, <1>6, <1>7, <1>8 DEF BpInv, HitInv

\* A field fails its test: the slot is not the one that holds the address.
LEMMA NextSlotStep ==
    ASSUME BpInv, Checking, NextSlot, ~Holds(table[slot], addr),
           UNCHANGED tableVars, UNCHANGED <<addr, held, covered, overlaps>>
    PROVE  BpInv'
<1>1. /\ UNCHANGED <<table, op, arg, at, armed, wanted, addr, held, covered, overlaps>>
      /\ slot \in Slots
      /\ chk' \in {"enabled", "miss"} /\ slot' \in Slots
    BY SlotsAreNat DEF tableVars, NextSlot, BpInv, TypeOK
<1>2. TypeOK' /\ TableInv'
    BY <1>1, TableUntouched DEF BpInv, TypeOK
<1>3. held => \E i \in Slots : i >= slot + 1 /\ Holds(table[i], addr)
    <2>. SUFFICES ASSUME held
                  PROVE  \E i \in Slots : i >= slot + 1 /\ Holds(table[i], addr)
        OBVIOUS
    <2>1. PICK i \in Slots : i >= slot /\ Holds(table[i], addr)
        BY DEF BpInv, MissInv, HeldAhead
    <2>2. i \in Nat /\ slot \in Nat /\ i # slot
        BY <1>1, <2>1, SlotsAreNat
    <2>. QED BY <2>1, <2>2
<1>4. CASE slot + 1 \in Slots
    <2>1. chk' = "enabled" /\ slot' = slot + 1
        BY <1>4 DEF NextSlot
    <2>. QED
        BY <1>1, <1>2, <1>3, <2>1
           DEF BpInv, MissInv, HeldArmed, HeldAhead, GenuineMiss, HitInv, OverlapCounted,
               CoverNoted, QuietIsOn, ReadIsNotAdded, ReadDoesNotCover, AddressWasRead,
               GenuineHit, Checking, Reading
<1>5. CASE slot + 1 \notin Slots
    <2>1. chk' = "miss"
        BY <1>5 DEF NextSlot
    <2>2. ~held
        BY <1>1, <1>3, <1>5, NumBpsAssumption DEF Slots
    <2>. QED
        BY <1>1, <1>2, <2>1, <2>2
           DEF BpInv, MissInv, HeldArmed, HeldAhead, GenuineMiss, HitInv, OverlapCounted,
               CoverNoted, QuietIsOn, ReadIsNotAdded, ReadDoesNotCover, AddressWasRead,
               GenuineHit, Checking, Reading
<1>. QED BY <1>4, <1>5

\* A field passes its test.
LEMMA FieldStep ==
    ASSUME BpInv, slot' = slot,
           UNCHANGED tableVars, UNCHANGED <<addr, held, covered, overlaps>>,
           \/ chk = "enabled" /\ table[slot].enabled /\ chk' = "address"
           \/ chk = "address" /\ addr >= table[slot].address /\ chk' = "end"
           \/ chk = "end" /\ addr < table[slot].end /\ chk' = "hit"
    PROVE  BpInv'
<1>1. /\ UNCHANGED <<table, op, arg, at, armed, wanted, addr, held, covered, overlaps>>
      /\ slot \in Slots /\ addr \in Nat /\ table[slot] \in Breakpoint
      /\ Checking /\ chk' \in {"address", "end", "hit"}
    BY BpTableAssumption DEF tableVars, BpInv, TypeOK, Checking
<1>2. TypeOK' /\ TableInv'
    BY <1>1, TableUntouched DEF BpInv, TypeOK
<1>3. MissInv'
    BY <1>1 DEF BpInv, MissInv, HeldArmed, HeldAhead, GenuineMiss, Checking
<1>4. OverlapCounted' /\ CoverNoted'
    BY <1>1 DEF BpInv, HitInv, OverlapCounted, CoverNoted, Checking
<1>5. CASE chk = "enabled" /\ table[slot].enabled /\ chk' = "address"
    <2>1. table[slot].end = table[slot].address + 1 /\ table[slot].address \in wanted
        BY <1>1, <1>5 DEF BpInv, TableInv, EnabledIsWanted
    <2>2. table[slot].address \in Int
        BY <1>1 DEF Breakpoint
    <2>3. addr >= table[slot].address /\ addr < table[slot].end => addr \in wanted
        BY <1>1, <2>1, <2>2
    <2>4. ReadDoesNotCover'
        BY <1>1, <2>3 DEF BpInv, HitInv, CoverNoted, ReadDoesNotCover
    <2>5. ReadIsNotAdded'
        BY <1>1, <1>5 DEF BpInv, TableInv, AddedIsOff, ReadIsNotAdded, Adding
    <2>. QED
        BY <1>1, <1>2, <1>3, <1>4, <1>5, <2>4, <2>5
           DEF BpInv, HitInv, QuietIsOn, AddressWasRead, GenuineHit
<1>6. CASE chk = "address" /\ addr >= table[slot].address /\ chk' = "end"
    BY <1>1, <1>2, <1>3, <1>4, <1>6
       DEF BpInv, HitInv, QuietIsOn, ReadIsNotAdded, ReadDoesNotCover, AddressWasRead,
           GenuineHit, Reading, OneCommand, Adding
<1>7. CASE chk = "end" /\ addr < table[slot].end /\ chk' = "hit"
    <2>1. GenuineHit'
        BY <1>1, <1>7
           DEF BpInv, HitInv, ReadDoesNotCover, AddressWasRead, GenuineHit, Reading, OneCommand
    <2>. QED
        BY <1>1, <1>2, <1>3, <1>4, <1>7, <2>1
           DEF BpInv, HitInv, QuietIsOn, ReadIsNotAdded, ReadDoesNotCover, AddressWasRead,
               Reading
<1>. QED BY <1>5, <1>6, <1>7

LEMMA EmulatorStep ==
    ASSUME BpInv, Emulator
    PROVE  BpInv'
<1>1. CASE BeginCheck
    BY <1>1, BeginCheckStep
<1>2. CASE ReadEnabled \/ ReadAddress \/ ReadEnd
    <2>1. Checking /\ UNCHANGED tableVars /\ UNCHANGED <<addr, held, covered, overlaps>>
        BY <1>2 DEF ReadEnabled, ReadAddress, ReadEnd, Read, Checking, tableVars
    <2>2. addr \in Nat
        BY BpTableAssumption DEF BpInv, TypeOK
    <2>3. CASE NextSlot /\ ~Holds(table[slot], addr)
        BY <2>1, <2>3, NextSlotStep
    <2>4. CASE /\ slot' = slot
               /\ \/ chk = "enabled" /\ table[slot].enabled /\ chk' = "address"
                  \/ chk = "address" /\ addr >= table[slot].address /\ chk' = "end"
                  \/ chk = "end" /\ addr < table[slot].end /\ chk' = "hit"
        BY <2>1, <2>4, FieldStep
    <2>. QED
        BY <1>2, <2>2, <2>3, <2>4 DEF ReadEnabled, ReadAddress, ReadEnd, Read, Holds
<1>. QED BY <1>1, <1>2 DEF Emulator

----------------------------------------------------------------------------
\* The inductive invariant holds in every state of the table and its reader.
THEOREM BpInvariance ==
    Spec => []BpInv
<1>1. Init => BpInv
    BY InitTable
       DEF Init, BpInv, MissInv, HeldArmed, HeldAhead, GenuineMiss, HitInv, OverlapCounted,
           CoverNoted, QuietIsOn, ReadIsNotAdded, ReadDoesNotCover, AddressWasRead,
           GenuineHit, Checking, Reading
<1>2. BpInv /\ [Next]_vars => BpInv'
    <2>. SUFFICES ASSUME BpInv, [Next]_vars
                  PROVE  BpInv'
        OBVIOUS
    <2>1. CASE UNCHANGED vars
        BY <2>1, TableUntouched
           DEF vars, tableVars, checkVars, BpInv, TypeOK, MissInv, HeldArmed, HeldAhead,
               GenuineMiss, HitInv, OverlapCounted, CoverNoted, QuietIsOn, ReadIsNotAdded,
               ReadDoesNotCover, AddressWasRead, GenuineHit, Adding, Reading, Checking,
               OneCommand
    <2>. QED
        BY <2>1, IceThreadStep, EmulatorStep DEF Next
<1>. QED
    BY <1>1, <1>2, PTL DEF Spec

\* The variables of the table, of its writer and of its reader keep to their
\* types: no index leaves the table.
THEOREM BpTypeCorrect ==
    Spec => []TypeOK
<1>1. BpInv => TypeOK
    BY DEF BpInv
<1>. QED
    BY <1>1, BpInvariance, PTL

\* A breakpoint that is armed all along a check is not missed, however many
\* commands overlap the check and however many slots there are.
THEOREM NoMissedBreakpoint ==
    Spec => []GenuineMiss
<1>1. BpInv => GenuineMiss
    BY DEF BpInv, MissInv
<1>. QED
    BY <1>1, BpInvariance, PTL

\* A check that at most one command overlaps reports only an address whose
\* breakpoint was wanted at some time of the check.
THEOREM OnlyGenuineHits ==
    Spec => []GenuineHit
<1>1. BpInv => GenuineHit
    BY DEF BpInv, HitInv
<1>. QED
    BY <1>1, BpInvariance, PTL
=============================================================================
