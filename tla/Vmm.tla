-------------------------------- MODULE Vmm --------------------------------
(***************************************************************************)
(* The page allocator of LOCUTUS, locutus/os2mem.c.  PFBitmap is the set   *)
(* of its pages that are marked.  The scan for a block has no bound that   *)
(* the bitmap meets (4096*4096*32 pages against 4096*32), so it reads, and *)
(* marks, what the linker put behind the bitmap: Behind pages worth of     *)
(* memory with any content, and after that an access violation.            *)
(*                                                                         *)
(* VMMAllocPages is a call, one step for each round of the loop of         *)
(* VMMScanAddressSpace, and a return.                                      *)
(***************************************************************************)
EXTENDS Integers, Sequences, FiniteSetsExt

CONSTANTS DwordBits,           \* pages a dword of the bitmap describes, 32
          Pages,               \* pages the bitmap describes, 4096*32
          Behind,              \* pages the memory behind the bitmap would describe
          Reserved,            \* pages VMMInit marks, 16
          Requests,            \* pairs <<base, n>> the callers ask for
          MaxBlocks            \* bound: blocks granted in a run

ASSUME VmmAssumption ==
    /\ DwordBits \in Nat \ {0} /\ Pages \in Nat /\ Behind \in Nat
    /\ Pages % DwordBits = 0 /\ Behind % DwordBits = 0
    /\ Reserved \in 1 .. Pages
    /\ Requests \subseteq Nat \X Nat
    /\ MaxBlocks \in Nat

VARIABLES used,                \* PFBitmap and what lies behind it
          vmm,                 \* idle, scan or fault
          vbase, nPages,       \* the arguments of VMMAllocPages
          current,             \* current_pf
          granted              \* history: the blocks granted, in order

vmmVars == <<used, vmm, vbase, nPages, current, granted>>

Top == Pages + Behind
Page == 0 .. Top - 1

Free(first, last) == {p \in first .. last : p \in Page /\ p \notin used}

\* PFDword(pfn) == -1
Full(pfn) == \A p \in Page : p \div DwordBits = pfn \div DwordBits => p \in used

\* Outcomes of a scan that are not pages: it never ends, or leaves the memory.
Hang == -1
Fault == -2

\* Mutation of Sweep: the last page of the window is not looked at.
SweepShort(start) ==
    LET stops == {c \in start .. Top - 1 : (c - start) % DwordBits = 0 /\ ~Full(c)}
        window == Free(Min(stops), Min(stops) + DwordBits - 2)
    IN  IF stops = {} THEN Fault ELSE IF window # {} THEN Min(window) ELSE Hang

\* The loop over dwords.  It advances by whole dwords while they are full; at
\* the first other one it looks at the DwordBits pages from where it stands,
\* and when those are all in use it stays there for ever.
Sweep(start) ==
    LET stops == {c \in start .. Top - 1 : (c - start) % DwordBits = 0 /\ ~Full(c)}
        stop == Min(stops)
        window == Free(stop, stop + DwordBits - 1)
    IN  IF stops = {} THEN Fault
        ELSE IF window # {} THEN Min(window)
        ELSE IF stop + DwordBits > Top THEN Fault ELSE Hang

\* A full dword is left for the next one; else the loop up to
\* 32 - index % 32 (a page number, so it does nothing above the first dword).
FindFirstFreePage(index) ==
    LET bound == DwordBits - (index % DwordBits)
        early == Free(index, bound - 1)
    IN  IF Full(index) THEN Sweep(index + bound)
        ELSE IF early # {} THEN Min(early)
        ELSE Sweep(IF index < bound THEN bound ELSE index)

\* Mutation of NumberOfPagesFreeHere: one page more is counted.
CountTwoTooMany(index) ==
    IF {p \in used : p >= index} = {} THEN Fault
    ELSE Min({p \in used : p >= index}) + 2 - index

\* i has been incremented past the first page in use when it is returned.
UsedFrom(index) == {p \in used : p >= index}
NumberOfPagesFreeHere(index) ==
    IF UsedFrom(index) = {} THEN Fault ELSE Min(UsedFrom(index)) + 1 - index

\* Mutations of VMMReserveRegion: one page less, or one more, is marked.
ReserveTooFew(base, n) == used \cup (base .. base + n - 2)
ReserveTooMany(base, n) == used \cup (base .. base + n)

\* VMMReserveRegion marks the pages.  Nothing unmarks them: VMMFreePages
\* ends in an empty function.
VMMReserveRegion(base, n) == used \cup (base .. base + n - 1)

----------------------------------------------------------------------------
\* VMMInit clears the bitmap, not what is behind it.
Init ==
    /\ \E behind \in SUBSET (Pages .. Top - 1) : used = (0 .. Reserved - 1) \cup behind
    /\ vmm = "idle" /\ vbase = 0 /\ nPages = 0 /\ current = 0
    /\ granted = <<>>

VMMAllocPages(base, n) ==
    /\ vmm = "idle"
    /\ vmm' = "scan"
    /\ vbase' = base /\ nPages' = n /\ current' = base
    /\ UNCHANGED <<used, granted>>

\* One round of VMMScanAddressSpace that comes back with a page.
Found == FindFirstFreePage(current)
Round ==
    /\ vmm = "scan"
    /\ Found \in Page
    /\ NumberOfPagesFreeHere(Found) # Fault

ScanGrants ==
    /\ Round
    /\ NumberOfPagesFreeHere(Found) >= nPages
    /\ used' = VMMReserveRegion(Found, nPages)
    /\ granted' = Append(granted, [wanted |-> vbase, base |-> Found, pages |-> nPages])
    /\ vmm' = "idle"
    /\ vbase' = 0 /\ nPages' = 0 /\ current' = 0

\* Mutation of ScanGoesOn: a run that is too short is left by a whole dword.
ScanGoesOnByDword ==
    /\ Round
    /\ NumberOfPagesFreeHere(Found) < nPages
    /\ current' = Found + DwordBits
    /\ UNCHANGED <<used, vmm, vbase, nPages, granted>>

\* Mutation of ScanGoesOn: the search goes back as many pages as it wants.
ScanGoesBack ==
    /\ Round
    /\ NumberOfPagesFreeHere(Found) < nPages
    /\ current' = Found + NumberOfPagesFreeHere(Found) - nPages
    /\ UNCHANGED <<used, vmm, vbase, nPages, granted>>

ScanGoesOn ==
    /\ Round
    /\ NumberOfPagesFreeHere(Found) < nPages
    /\ current' = Found + NumberOfPagesFreeHere(Found)
    /\ UNCHANGED <<used, vmm, vbase, nPages, granted>>

\* The process ends in an access violation; nothing returns NULL.
ScanFaults ==
    /\ vmm = "scan"
    /\ \/ Found = Fault
       \/ Found \in Page /\ NumberOfPagesFreeHere(Found) = Fault
    /\ vmm' = "fault"
    /\ UNCHANGED <<used, vbase, nPages, current, granted>>

VmmScan == ScanGrants \/ ScanGoesOn \/ ScanFaults

\* The callers: Os2Mmap at an object's address, Dos32AllocMem at 0,
\* GenerateThunk for one page at 0x800.
Call ==
    /\ Len(granted) < MaxBlocks
    /\ \E r \in Requests : VMMAllocPages(r[1], r[2])

Next == Call \/ VmmScan
Spec == Init /\ [][Next]_vmmVars
----------------------------------------------------------------------------
TypeOK ==
    /\ used \subseteq Page
    /\ vmm \in {"idle", "scan", "fault"}
    /\ vbase \in Nat /\ nPages \in Nat /\ current \in Nat
    /\ granted \in Seq([wanted : Nat, base : Page, pages : Nat])

Space == INSTANCE PageSpace WITH used <- used, granted <- granted
Blocks == DOMAIN granted
PagesOf(i) == Space!PagesOf(granted[i])

\* Two blocks share at most the last page of the one that was granted later:
\* NumberOfPagesFreeHere counts one page too many (os2mem.c:121), no more.
SharedLastPageOnly ==
    \A i, j \in Blocks : i < j => PagesOf(i) \cap PagesOf(j) \subseteq {Space!LastPage(granted[j])}

\* No block touches the first 64kb (os2mem.c:82), whatever base is asked for.
FirstPagesKept == \A i \in Blocks : PagesOf(i) \cap (0 .. Reserved - 1) = {}

\* The scan only stands still (os2mem.c:101) in the middle of a dword: from the
\* first page of one it always gets on.
StuckMidDword == (vmm = "scan" /\ Found = Hang) => current % DwordBits # 0

\* The block granted is the first one: no run of n free pages starts between
\* the requested base and it, whatever dwords and runs the scan jumped over
\* ("returns the first block found", os2mem.c:27).
Fits(p, n) == \A q \in p .. p + n - 1 : q \in Page /\ q \notin used
AtLeastOne(n) == IF n = 0 THEN 1 ELSE n
FirstFit ==
    [][granted' # granted =>
         LET b == granted'[Len(granted')]
         IN  \A p \in b.wanted .. b.base - 1 : ~Fits(p, AtLeastOne(b.pages))]_vmmVars

\* The allocator is a page space as PageSpace describes it.
IsPageSpace == Space!SpaceSpec

\* The rounds of VMMScanAddressSpace come to an end, however many runs are too
\* short: each begins at a later page than the one before, and none behind the
\* memory (os2mem.c:128-137).  A call that does not return stands still in
\* FindFirstFreePage, as StuckMidDword has it.
RoundsAdvance ==
    [][vmm = "scan" /\ vmm' = "scan" => current < current' /\ current' <= Top]_vmmVars

\* "searches for a free block of sufficient size" (os2mem.c:26).
BlocksDisjoint == \A i, j \in Blocks : i # j => PagesOf(i) \cap PagesOf(j) = {}
=============================================================================
