--------------------------- MODULE DosCallsProofs ---------------------------
(***************************************************************************)
(* What holds of programs and their memory for every size of a page, of    *)
(* the address space and of the requests.                                  *)
(***************************************************************************)
EXTENDS DosCalls, VmmProofs, FiniteSetTheorems

----------------------------------------------------------------------------
\* Every step of a program is a step of the allocator or leaves it alone.
LEMMA StepsOfVmm ==
    ASSUME [DosNext]_dosVars
    PROVE  [Next]_vmmVars
<1>1. CASE MapObject
    BY <1>1 DEF MapObject, Os2Mmap, Allocate, Next
<1>2. CASE GenerateThunk
    BY <1>2 DEF GenerateThunk, Allocate, Next
<1>3. CASE LaunchOS2
    BY <1>3 DEF LaunchOS2
<1>4. CASE Dos32AllocMem
    BY <1>4 DEF Dos32AllocMem, Allocate, Next
<1>5. CASE AllocReturns
    BY <1>5 DEF AllocReturns, Next, VmmScan
<1>6. CASE AllocGoesOn
    BY <1>6 DEF AllocGoesOn, Next, VmmScan
<1>7. CASE Dos32QuerySysInfo \/ Dos32File \/ Dos32PutMessage \/ Dos32Exit
    BY <1>7 DEF Dos32QuerySysInfo, Dos32File, Dos32PutMessage, Dos32Exit, Answers, Spins, Service
<1>8. CASE UNCHANGED dosVars
    BY <1>8 DEF dosVars
<1>. QED
    BY <1>1, <1>2, <1>3, <1>4, <1>5, <1>6, <1>7, <1>8 DEF DosNext

\* The loader and the program use the allocator as its callers do: what is
\* proved of VMMAllocPages holds for them.
THEOREM UsesVmm ==
    DosSpec => Spec
<1>1. DosInit => Init
    BY DEF DosInit
<1>2. [DosNext]_dosVars => [Next]_vmmVars
    BY StepsOfVmm
<1>. QED
    BY <1>1, <1>2, PTL DEF DosSpec, Spec
----------------------------------------------------------------------------
\* A block of so many pages is large enough; a size in the last page of the
\* numbers is not promised one.
Covers(pages, bytes) == bytes <= Words - PageBytes => pages * PageBytes >= bytes

\* ALIGN and the shift by the bits of a page.
LEMMA AlignedCovers ==
    ASSUME DosAssumption, NEW bytes \in 0 .. Words - 1
    PROVE  Covers(Aligned(bytes) \div PageBytes, bytes)
<1>. SUFFICES ASSUME bytes <= Words - PageBytes
              PROVE  (Aligned(bytes) \div PageBytes) * PageBytes >= bytes
    BY DEF Covers
<1>. DEFINE q == bytes \div PageBytes
            r == bytes % PageBytes
<1>1. PageBytes \in Nat \ {0} /\ Words \in Nat \ {0} /\ bytes \in Nat
    BY DEF DosAssumption
<1>2. q \in Nat /\ r \in 0 .. PageBytes - 1 /\ bytes = PageBytes * q + r
    BY <1>1, Division
<1>3. CASE r = 0
    <2>1. Aligned(bytes) = PageBytes * q
        BY <1>1, <1>2, <1>3 DEF Aligned
    <2>2. Aligned(bytes) \div PageBytes = q
        BY <1>1, <1>2, <2>1, Multiple
    <2>. HIDE DEF q, r
    <2>. QED
        BY <1>1, <1>2, <1>3, <2>2
<1>4. CASE r # 0
    <2>. DEFINE top == bytes + PageBytes - r
    <2>1. Aligned(bytes) = top % Words
        BY <1>4 DEF Aligned
    <2>. HIDE DEF q, r
    <2>2. top \in 0 .. Words - 1 /\ top >= bytes
        BY <1>1, <1>2, <1>4
    <2>3. top = PageBytes * (q + 1)
        BY <1>1, <1>2
    <2>4. top % Words = top
        <3>. HIDE DEF top
        <3>. QED
            BY <1>1, <2>2
    <2>5. (PageBytes * (q + 1)) \div PageBytes = q + 1
        BY <1>1, <1>2, Multiple
    <2>6. (q + 1) * PageBytes = PageBytes * (q + 1)
        BY <1>1, <1>2
    <2>. QED
        BY <2>1, <2>2, <2>3, <2>4, <2>5, <2>6
<1>. QED
    BY <1>3, <1>4

\* The requests are granted in the order they are made, one at a time, and
\* the pages being looked for cover the bytes last asked.
InStep ==
    /\ asked \in Seq(Nat)
    /\ Len(asked) = IF vmm = "idle" THEN Len(granted) ELSE Len(granted) + 1
    /\ vmm # "idle" => Covers(nPages, asked[Len(asked)])

CoverInv == Inv /\ InStep /\ AllocCovers

LEMMA AllocateKeeps ==
    ASSUME VmmAssumption, DosAssumption, CoverInv,
           NEW base, NEW pages, NEW bytes \in Nat, Covers(pages, bytes),
           Allocate(base, pages, bytes)
    PROVE  InStep' /\ AllocCovers'
<1>1. /\ vmm = "idle" /\ vmm' = "scan" /\ granted' = granted
      /\ nPages' = pages /\ asked' = Append(asked, bytes)
    BY DEF Allocate, Call, VMMAllocPages
<1>2. asked \in Seq(Nat) /\ Len(asked) = Len(granted)
    BY <1>1 DEF CoverInv, InStep
<1>3. granted \in Seq([wanted : Nat, base : Page, pages : Nat])
    BY DEF CoverInv, Inv, TypeOK
<1>4. /\ asked' \in Seq(Nat) /\ Len(asked') = Len(granted) + 1
      /\ asked'[Len(asked')] = bytes
      /\ \A i \in DOMAIN granted : asked'[i] = asked[i]
    BY <1>1, <1>2, <1>3
<1>5. InStep'
    BY <1>1, <1>4 DEF InStep, Covers
<1>6. AllocCovers'
    BY <1>1, <1>4 DEF CoverInv, AllocCovers
<1>. QED
    BY <1>5, <1>6

LEMMA ReturnKeeps ==
    ASSUME VmmAssumption, DosAssumption, CoverInv, AllocReturns
    PROVE  InStep' /\ AllocCovers'
<1>. DEFINE new == Len(granted) + 1
<1>1. /\ vmm = "scan" /\ vmm' = "idle" /\ asked' = asked
      /\ granted' = Append(granted, [wanted |-> vbase, base |-> Found, pages |-> nPages])
    BY DEF AllocReturns, ScanGrants, Round
<1>2. asked \in Seq(Nat) /\ Len(asked) = new /\ Covers(nPages, asked[new])
    BY <1>1 DEF CoverInv, InStep
<1>3. granted \in Seq([wanted : Nat, base : Page, pages : Nat])
    BY DEF CoverInv, Inv, TypeOK
<1>4. /\ DOMAIN granted' = DOMAIN granted \cup {new} /\ Len(granted') = new
      /\ \A i \in DOMAIN granted : granted'[i] = granted[i]
      /\ granted'[new].pages = nPages
    BY <1>1, <1>3
<1>5. InStep'
    BY <1>1, <1>2, <1>4 DEF InStep
<1>6. ASSUME NEW i \in DOMAIN granted', asked'[i] <= Words - PageBytes
      PROVE  granted'[i].pages * PageBytes >= asked'[i]
    <2>1. CASE i = new
        BY <1>1, <1>2, <1>4, <1>6, <2>1 DEF Covers
    <2>2. CASE i \in DOMAIN granted
        BY <1>1, <1>4, <1>6, <2>2 DEF CoverInv, AllocCovers
    <2>. QED
        BY <1>4, <2>1, <2>2
<1>7. AllocCovers'
    BY <1>6 DEF AllocCovers
<1>. QED
    BY <1>5, <1>7

LEMMA CoverNext ==
    ASSUME VmmAssumption, DosAssumption, CoverInv, [DosNext]_dosVars
    PROVE  CoverInv'
<1>1. Inv'
    BY StepsOfVmm, NextInv DEF CoverInv
<1>2. CASE MapObject
    <2>1. PICK o \in Objects : Os2Mmap(o[1], o[2])
        BY <1>2 DEF MapObject
    <2>2. o[2] \in 0 .. Words - 1 /\ o[2] \in Nat
        BY DEF DosAssumption
    <2>. QED
        BY <1>1, <2>1, <2>2, AlignedCovers, AllocateKeeps DEF Os2Mmap, CoverInv
<1>3. CASE GenerateThunk
    <2>1. ThunkBytes \in Nat /\ Covers(1, ThunkBytes)
        BY DEF DosAssumption, Covers
    <2>. QED
        BY <1>1, <1>3, <2>1, AllocateKeeps DEF GenerateThunk, CoverInv
<1>4. CASE Dos32AllocMem
    <2>1. PICK bytes \in Sizes : Allocate(0, Aligned(bytes) \div PageBytes, bytes)
        BY <1>4 DEF Dos32AllocMem
    <2>2. bytes \in 0 .. Words - 1 /\ bytes \in Nat
        BY DEF DosAssumption
    <2>. QED
        BY <1>1, <2>1, <2>2, AlignedCovers, AllocateKeeps DEF CoverInv
<1>5. CASE AllocReturns
    BY <1>1, <1>5, ReturnKeeps DEF CoverInv
<1>6. CASE AllocGoesOn
    <2>1. vmm = "scan" /\ vmm' \in {"scan", "fault"} /\ UNCHANGED <<granted, asked, nPages>>
        BY <1>6 DEF AllocGoesOn, ScanGoesOn, ScanFaults, Round
    <2>. QED
        BY <1>1, <2>1 DEF CoverInv, InStep, AllocCovers, Covers
<1>7. CASE UNCHANGED <<vmmVars, asked>>
    BY <1>1, <1>7 DEF CoverInv, InStep, AllocCovers, Covers, vmmVars
<1>8. LaunchOS2 \/ Dos32QuerySysInfo \/ Dos32File \/ Dos32PutMessage \/ Dos32Exit
        \/ UNCHANGED dosVars => UNCHANGED <<vmmVars, asked>>
    BY DEF LaunchOS2, Dos32QuerySysInfo, Dos32File, Dos32PutMessage, Dos32Exit,
           Answers, Spins, Service, dosVars
<1>. QED
    BY <1>2, <1>3, <1>4, <1>5, <1>6, <1>7, <1>8 DEF DosNext

\* Whatever a program and its loader ask for (doscalls.c:81, enterprs.c:41),
\* a block has room for the bytes: no rounding loses a page, but for the sizes
\* in the last page below 2^32.
THEOREM BlocksCover ==
    DosSpec => []AllocCovers
<1>1. DosInit => CoverInv
    <2>. SUFFICES ASSUME DosInit PROVE CoverInv
        OBVIOUS
    <2>1. Inv
        BY VmmAssumption, InitInv DEF DosInit
    <2>2. InStep /\ AllocCovers
        BY DEF DosInit, Init, InStep, AllocCovers
    <2>. QED
        BY <2>1, <2>2 DEF CoverInv
<1>2. CoverInv /\ [DosNext]_dosVars => CoverInv'
    BY VmmAssumption, DosAssumption, CoverNext
<1>3. CoverInv => AllocCovers
    BY DEF CoverInv
<1>. QED
    BY <1>1, <1>2, <1>3, PTL DEF DosSpec
----------------------------------------------------------------------------
\* What the tests of DosQuerySysInfo_Impl let through fits, although the
\* product of the first may have lost its upper bits: the second bounds it.
LEMMA PassedTests ==
    ASSUME DosAssumption, NEW ask \in InfoAsks, SysInfoCode(ask) = NoError
    PROVE  /\ 4 * Cardinality(ask.start .. ask.last - 1) <= ask.room
           /\ ask.start .. ask.last - 1 \subseteq 0 .. InfoValues
<1>. DEFINE n == ask.last - ask.start
<1>1. /\ ask.start \in Nat /\ ask.last \in Nat /\ ask.room \in Nat
      /\ InfoValues \in Nat /\ Words \in Nat \ {0} /\ 4 * InfoValues < Words
    BY DEF DosAssumption
<1>2. /\ ask.start <= ask.last /\ (4 * n) % Words <= ask.room
      /\ ask.start <= InfoValues /\ ask.last <= InfoValues
    BY <1>1 DEF SysInfoCode, NoError, BufferOverflow, InvalidParameter
<1>3. n \in Nat /\ n <= InfoValues
    BY <1>1, <1>2
<1>4. (4 * n) % Words = 4 * n
    <2>. HIDE DEF n
    <2>1. 4 * n \in 0 .. Words - 1
        BY <1>1, <1>3
    <2>. QED
        BY <1>1, <2>1
<1>5. Cardinality(ask.start .. ask.last - 1) = n
    <2>1. Cardinality(ask.start .. ask.last - 1) =
            IF ask.start > ask.last - 1 THEN 0 ELSE ask.last - 1 - ask.start + 1
        <3>1. ask.start \in Int /\ ask.last - 1 \in Int
            BY <1>1
        <3>. QED
            BY <3>1, FS_Interval, Zenon
    <2>. QED
        BY <1>1, <1>2, <2>1
<1>6. 4 * Cardinality(ask.start .. ask.last - 1) <= ask.room
    BY <1>2, <1>4, <1>5
<1>7. ask.start .. ask.last - 1 \subseteq 0 .. InfoValues
    BY <1>1, <1>2
<1>. QED
    BY <1>6, <1>7

\* For all indices and lengths (doscalls.c:95) the copy of the values stays
\* inside the caller's buffer and does not pass the end of the table.
THEOREM CopiesInside ==
    DosSpec => []SysInfoInside
<1>1. DosInit => SysInfoInside
    BY DEF DosInit, SysInfoInside, NoAnswer
<1>2. SysInfoInside /\ [DosNext]_dosVars => SysInfoInside'
    <2>. SUFFICES ASSUME SysInfoInside, [DosNext]_dosVars
                  PROVE  SysInfoInside'
        OBVIOUS
    <2>1. CASE answer' = answer
        BY <2>1 DEF SysInfoInside
    <2>2. CASE answer'.service # "Dos32QuerySysInfo"
        BY <2>2 DEF SysInfoInside
    <2>3. CASE Dos32QuerySysInfo
        <3>1. PICK ask \in InfoAsks :
                  answer' = [service |-> "Dos32QuerySysInfo", code |-> SysInfoCode(ask),
                             room |-> ask.room,
                             values |-> IF SysInfoCode(ask) = NoError
                                          THEN ask.start .. ask.last - 1 ELSE {}]
            BY <2>3 DEF Dos32QuerySysInfo, Answers
        <3>. QED
            BY <3>1, DosAssumption, PassedTests DEF SysInfoInside
    <2>4. \/ Dos32QuerySysInfo
          \/ answer' = answer
          \/ answer'.service # "Dos32QuerySysInfo"
        <3>1. MapObject \/ GenerateThunk \/ Dos32AllocMem => answer' = NoAnswer
            BY DEF MapObject, Os2Mmap, GenerateThunk, Dos32AllocMem, Allocate
        <3>2. AllocReturns => answer'.service # "Dos32QuerySysInfo"
            BY DEF AllocReturns, NoAnswer
        <3>3. Dos32File => answer' = answer \/ answer'.service # "Dos32QuerySysInfo"
            BY DEF Dos32File, Answers, Spins
        <3>4. Dos32PutMessage => answer'.service # "Dos32QuerySysInfo"
            BY DEF Dos32PutMessage, Answers
        <3>5. LaunchOS2 \/ AllocGoesOn \/ Dos32Exit \/ UNCHANGED dosVars => answer' = answer
            BY DEF LaunchOS2, AllocGoesOn, Dos32Exit, Spins, dosVars
        <3>. QED
            BY <3>1, <3>2, <3>3, <3>4, <3>5 DEF DosNext, NoAnswer
    <2>. QED
        BY <2>1, <2>2, <2>3, <2>4
<1>. QED
    BY <1>1, <1>2, PTL DEF DosSpec
=============================================================================
