------------------------------ MODULE DosCalls ------------------------------
(***************************************************************************)
(* An OS/2 program on LOCUTUS and the services it calls (locutus/          *)
(* doscalls.c, os2thunk.c), over the page allocator Vmm: the loader maps   *)
(* objects and thunks, then the program runs and asks for memory, for      *)
(* facts about the system and for the host's files.                        *)
(*                                                                         *)
(* The host's files are external: lseek and write answer anything.  What a *)
(* service writes through the pointers it is given is part of its answer.  *)
(***************************************************************************)
EXTENDS Vmm

CONSTANTS
    PageBytes,      \* 4096
    Words,          \* the numbers a uint32_t has, 2^32
    Objects,        \* pairs <<address, bytes>> the loader may map
    ThunkPage,      \* 0x800
    ThunkBytes,     \* bytes of a thunk, 8
    Sizes,          \* ulObjectSize of Dos32AllocMem
    InfoValues,     \* values in DosSysInfo, 30
    InfoAsks,       \* ulStartIndex, ulLastIndex and ulDataBufferLength as uint32_t
    HostAnswers     \* what lseek and write return

\* AddrToPF, PFToAddr and ALIGN with a page's size
AddrToPF(a) == a \div PageBytes
PFToAddr(p) == (p * PageBytes) % Words
Aligned(x) == IF x % PageBytes = 0 THEN x ELSE (x + PageBytes - (x % PageBytes)) % Words

ASSUME DosAssumption ==
    /\ PageBytes \in Nat \ {0} /\ Words \in Nat \ {0} /\ Words % PageBytes = 0
    /\ Objects \subseteq (0 .. Words - 1) \X (0 .. Words - 1)
    /\ ThunkPage \in Nat /\ ThunkBytes \in 0 .. PageBytes
    /\ Sizes \subseteq 0 .. Words - 1
    /\ InfoValues \in Nat /\ 4 * InfoValues < Words
    /\ InfoAsks \subseteq [start : 0 .. Words - 1, last : 0 .. Words - 1, room : 0 .. Words - 1]
    /\ HostAnswers \subseteq 0 .. Words - 1

VARIABLES program,   \* loading, runs, or spins
          asked,     \* history: the bytes asked of the allocator, in order
          answer     \* what the last service left in EAX and behind its pointers

dosVars == <<vmmVars, program, asked, answer>>

NoAnswer == [service |-> "none"]
NoError == 0
NotEnoughMemory == 8
InvalidParameter == 87
BufferOverflow == 111

----------------------------------------------------------------------------
DosInit == Init /\ program = "loading" /\ asked = <<>> /\ answer = NoAnswer

\* A call of VMMAllocPages made for so many bytes.
Allocate(base, pages, bytes) ==
    /\ Call
    /\ vbase' = base /\ nPages' = pages
    /\ asked' = Append(asked, bytes)
    /\ answer' = NoAnswer
    /\ UNCHANGED program

\* LoadLX rounds an object up to whole pages before Os2Mmap divides.
Os2Mmap(address, bytes) == Allocate(AddrToPF(address), Aligned(bytes) \div PageBytes, bytes)

MapObject == program = "loading" /\ \E o \in Objects : Os2Mmap(o[1], o[2])

GenerateThunk == program = "loading" /\ Allocate(ThunkPage, 1, ThunkBytes)

LaunchOS2 ==
    /\ program = "loading" /\ vmm = "idle"
    /\ program' = "runs"
    /\ UNCHANGED <<vmmVars, asked, answer>>

\* Mutation of Dos32AllocMem: the bytes are not rounded up.
AllocMemShort == program = "runs" /\ \E bytes \in Sizes : Allocate(0, bytes \div PageBytes, bytes)

Dos32AllocMem == program = "runs" /\ \E bytes \in Sizes : Allocate(0, Aligned(bytes) \div PageBytes, bytes)

\* VMMAllocPages returns, to Dos32AllocMem when it is the program that asked.
AllocReturns ==
    /\ ScanGrants
    /\ answer' = IF program = "loading" THEN NoAnswer
                 ELSE [service |-> "Dos32AllocMem", base |-> PFToAddr(Found),
                       code |-> IF PFToAddr(Found) # 0 THEN NoError ELSE NotEnoughMemory]
    /\ UNCHANGED <<program, asked>>

AllocGoesOn == (ScanGoesOn \/ ScanFaults) /\ UNCHANGED <<program, asked, answer>>

\* A service that does not touch the allocator is called while the program
\* has blocks to ask for (a bound).
Service ==
    /\ program = "runs" /\ vmm = "idle" /\ Len(granted) < MaxBlocks
    /\ UNCHANGED <<vmmVars, asked>>

Answers(a) == Service /\ answer' = a /\ UNCHANGED program

Spins == Service /\ program' = "spins" /\ UNCHANGED answer

\* Mutation of SysInfoCode: the indices are not compared with the table.
SysInfoUnbounded(ask) ==
    IF ask.start > ask.last \/ (4 * (ask.last - ask.start)) % Words > ask.room
      THEN BufferOverflow ELSE NoError

\* DosQuerySysInfo_Impl computes in uint32_t, the length too.
SysInfoCode(ask) ==
    IF ask.start > ask.last \/ (4 * (ask.last - ask.start)) % Words > ask.room
      THEN BufferOverflow
      ELSE IF ask.start > InfoValues \/ ask.last > InfoValues THEN InvalidParameter ELSE NoError

\* It copies the values from ulStartIndex up to the one before ulLastIndex.
Dos32QuerySysInfo ==
    \E ask \in InfoAsks :
        LET copied == IF SysInfoCode(ask) = NoError THEN ask.start .. ask.last - 1 ELSE {}
        IN  Answers([service |-> "Dos32QuerySysInfo", code |-> SysInfoCode(ask),
                     room |-> ask.room, values |-> copied])

\* DosSetFilePtr_Impl and DosWrite_Impl wait for ever when the host fails.
HostError == Words - 1

Dos32File ==
    \E r \in HostAnswers :
        IF r = HostError THEN Spins
        ELSE Answers([service |-> "Dos32File", code |-> NoError, actual |-> r])

\* DosPutMessage_Impl returns what write returned.
Dos32PutMessage ==
    \E r \in HostAnswers : Answers([service |-> "Dos32PutMessage", code |-> r])

\* Dos32QueryHType and Dos32Exit are an endless loop.
Dos32Exit == Spins

DosNext ==
    \/ MapObject \/ GenerateThunk \/ LaunchOS2
    \/ Dos32AllocMem \/ AllocReturns \/ AllocGoesOn
    \/ Dos32QuerySysInfo \/ Dos32File \/ Dos32PutMessage \/ Dos32Exit

DosSpec == DosInit /\ [][DosNext]_dosVars
----------------------------------------------------------------------------
\* A block has room for the bytes it was asked for, by the loader or by the
\* program, whatever the rounding (os2thunk.h:7, doscalls.c:81, enterprs.c:41).
\* Only a size in the last page below 2^32 is rounded up to none: the program
\* is then told that it has its memory.
AllocCovers ==
    \A i \in DOMAIN granted :
        asked[i] <= Words - PageBytes => granted[i].pages * PageBytes >= asked[i]

\* Dos32QuerySysInfo copies no more than the caller's buffer has room for, and
\* from the table only, for all indices and lengths, those included that make
\* the product of the first test overflow (doscalls.c:95).  Asked from
\* index 0 on it starts one value before the table.
SysInfoInside ==
    answer.service = "Dos32QuerySysInfo" /\ answer.code = NoError =>
        /\ 4 * Cardinality(answer.values) <= answer.room
        /\ answer.values \subseteq 0 .. InfoValues
=============================================================================
