----------------------------- MODULE VmmProofs -----------------------------
(***************************************************************************)
(* What holds of the page allocator for every size of the bitmap, of its   *)
(* dwords and of the memory behind it, and for every request; and that it  *)
(* grants the first block that fits: the scan may jump over dwords and     *)
(* runs, but only over pages that are in use or runs that are too short.   *)
(***************************************************************************)
EXTENDS Vmm, WellFoundedInduction, TLAPS

----------------------------------------------------------------------------
\* Min picks the smallest element of a set of page numbers.
LEMMA MinElement ==
    ASSUME NEW S, S \subseteq Nat, S # {}
    PROVE  Min(S) \in S /\ \A y \in S : Min(S) <= y
<1>1. PICK x \in S : \A y \in S : ~(<<y, x>> \in OpToRel(<, Nat))
    BY WFMin, NatLessThanWellFounded
<1>2. \A y, z \in Nat : y < z => <<y, z>> \in OpToRel(<, Nat)
    BY Zenon DEF OpToRel
<1>3. \A y \in S : ~(y < x)
    BY <1>1, <1>2, Zenon
<1>4. \A y \in S : x <= y
    BY <1>3
<1>. QED
    BY <1>4 DEF Min

LEMMA PagesAreNat ==
    ASSUME VmmAssumption
    PROVE  Top \in Nat /\ Page \subseteq Nat /\ \A p \in Page : p < Top
BY DEF VmmAssumption, Top, Page

\* What Free is made of.
LEMMA FreePages ==
    ASSUME VmmAssumption, NEW first \in Nat, NEW last \in Int
    PROVE  /\ Free(first, last) \subseteq Nat
           /\ \A p \in Free(first, last) : p \notin used /\ p >= first
BY PagesAreNat DEF Free

\* The dword loop ends at a free page at or above the one it starts from.
LEMMA SweepFindsFree ==
    ASSUME VmmAssumption, NEW start \in Nat, Sweep(start) \in Page
    PROVE  Sweep(start) \notin used /\ Sweep(start) >= start
<1>. DEFINE stops == {c \in start .. Top - 1 : (c - start) % DwordBits = 0 /\ ~Full(c)}
            stop == Min(stops)
            window == Free(stop, stop + DwordBits - 1)
<1>1. Hang \notin Page /\ Fault \notin Page
    BY DEF Hang, Fault, Page
<1>2. stops # {} /\ window # {} /\ Sweep(start) = Min(window)
    BY <1>1 DEF Sweep
<1>3. stops \subseteq Nat /\ \A c \in stops : c >= start
    BY DEF VmmAssumption, Top
<1>4. stop \in stops
    BY <1>2, <1>3, MinElement
<1>. HIDE DEF stop, stops
<1>5. stop \in Nat /\ stop >= start
    BY <1>3, <1>4
<1>6. stop + DwordBits - 1 \in Int
    BY <1>5 DEF VmmAssumption
<1>7. window \subseteq Nat /\ \A p \in window : p \notin used /\ p >= stop
    BY <1>5, <1>6, FreePages
<1>. HIDE DEF window
<1>8. Sweep(start) \in window
    BY <1>2, <1>7, MinElement
<1>9. Sweep(start) \in Nat /\ Sweep(start) \notin used /\ Sweep(start) >= stop
    BY <1>7, <1>8
<1>. QED
    BY <1>5, <1>9

\* FindFirstFreePage comes back with a free page at or above its index.
LEMMA FindsFree ==
    ASSUME VmmAssumption, NEW index \in Nat, FindFirstFreePage(index) \in Page
    PROVE  /\ FindFirstFreePage(index) \notin used
           /\ FindFirstFreePage(index) >= index
<1>. DEFINE bound == DwordBits - (index % DwordBits)
            early == Free(index, bound - 1)
<1>1. bound \in Nat /\ bound > 0
    BY DEF VmmAssumption
<1>2. CASE Full(index)
    <2>1. FindFirstFreePage(index) = Sweep(index + bound)
        BY <1>2 DEF FindFirstFreePage
    <2>. QED BY <1>1, <2>1, SweepFindsFree DEF Page
<1>3. CASE ~Full(index) /\ early # {}
    <2>1. FindFirstFreePage(index) = Min(early)
        BY <1>3 DEF FindFirstFreePage
    <2>2. early \subseteq Nat /\ \A p \in early : p \notin used /\ p >= index
        BY <1>1 DEF Free, Page
    <2>. HIDE DEF early
    <2>3. Min(early) \in early
        BY <1>3, <2>2, MinElement
    <2>. QED BY <2>1, <2>2, <2>3
<1>4. CASE ~Full(index) /\ early = {}
    <2>. DEFINE start == IF index < bound THEN bound ELSE index
    <2>1. FindFirstFreePage(index) = Sweep(start)
        BY <1>4 DEF FindFirstFreePage
    <2>2. start \in Nat /\ start >= index
        BY <1>1
    <2>. HIDE DEF start
    <2>. QED BY <2>1, <2>2, SweepFindsFree DEF Page
<1>. QED
    BY <1>2, <1>3, <1>4

\* NumberOfPagesFreeHere of a free page p: all the pages it counts are free
\* but the last, which exists.
LEMMA CountsOneTooMany ==
    ASSUME VmmAssumption, used \subseteq Page, NEW p \in Page, p \notin used,
           NumberOfPagesFreeHere(p) # Fault
    PROVE  LET n == NumberOfPagesFreeHere(p)
           IN  /\ n \in Nat /\ n >= 2
               /\ p + n - 1 \in used
               /\ \A q \in p .. p + n - 2 : q \notin used
<1>. DEFINE n == NumberOfPagesFreeHere(p)
            first == Min(UsedFrom(p))
<1>1. UsedFrom(p) # {} /\ n = first + 1 - p
    BY DEF NumberOfPagesFreeHere
<1>2. UsedFrom(p) \subseteq Nat
    BY PagesAreNat DEF UsedFrom
<1>3. first \in UsedFrom(p) /\ \A q \in UsedFrom(p) : first <= q
    BY <1>1, <1>2, MinElement
<1>4. first \in Nat /\ first \in used /\ first > p
    BY <1>2, <1>3 DEF UsedFrom, Page
<1>5. \A q \in p .. first - 1 : q \notin used
    BY <1>2, <1>3, <1>4 DEF UsedFrom, Page
<1>. HIDE DEF first, n
<1>6. n \in Nat /\ n >= 2 /\ p + n - 1 = first /\ p + n - 2 = first - 1
    BY <1>1, <1>4 DEF Page
<1>. QED
    BY <1>4, <1>5, <1>6 DEF n

----------------------------------------------------------------------------
(***************************************************************************)
(* The inductive invariant.  A block's pages stay marked, the first ones   *)
(* are never unmarked, and the scan does not fall behind its base: that is *)
(* what a new block must meet to lie beside the old ones.                  *)
(***************************************************************************)
GrantsMarked == \A i \in Blocks : PagesOf(i) \subseteq used
FirstPagesMarked == 0 .. Reserved - 1 \subseteq used
ScanAhead == vmm = "scan" => current >= vbase

Inv ==
    /\ TypeOK
    /\ GrantsMarked
    /\ FirstPagesMarked
    /\ ScanAhead
    /\ SharedLastPageOnly
    /\ FirstPagesKept

NewBlock == [wanted |-> vbase, base |-> Found, pages |-> nPages]

\* A block about to be granted is free but for its last page, which exists.
LEMMA GrantIsFree ==
    ASSUME VmmAssumption, Inv, ScanGrants
    PROVE  /\ Found \in Page /\ Found \notin used /\ Found >= vbase
           /\ Found .. Found + nPages - 1 \subseteq Page
           /\ (Found .. Found + nPages - 1) \cap used \subseteq {Found + nPages - 1}
<1>1. Found \in Page /\ NumberOfPagesFreeHere(Found) # Fault
    BY DEF ScanGrants, Round
<1>2. current \in Nat /\ vbase \in Nat /\ nPages \in Nat /\ used \subseteq Page /\ current >= vbase
    BY DEF Inv, TypeOK, ScanAhead, ScanGrants, Round
<1>3. Found \notin used /\ Found >= current
    BY <1>1, <1>2, FindsFree DEF Found
<1>. DEFINE n == NumberOfPagesFreeHere(Found)
            f == Found
<1>4. /\ n \in Nat /\ n >= 2
      /\ f + n - 1 \in used
      /\ \A q \in f .. f + n - 2 : q \notin used
    BY <1>1, <1>2, <1>3, CountsOneTooMany
<1>5. nPages <= n
    BY <1>2, <1>4 DEF ScanGrants
<1>6. f \in Nat /\ f + n - 1 < Top
    BY <1>1, <1>2, <1>4, PagesAreNat
<1>. HIDE DEF n, f
<1>7. f .. f + nPages - 1 \subseteq Page
    BY <1>2, <1>4, <1>5, <1>6, PagesAreNat DEF Page
<1>8. (f .. f + nPages - 1) \cap used \subseteq {f + nPages - 1}
    BY <1>2, <1>4, <1>5, <1>6
<1>9. f >= vbase
    BY <1>2, <1>3, <1>6 DEF f
<1>. QED
    BY <1>1, <1>3, <1>7, <1>8, <1>9 DEF f

LEMMA InitInv ==
    ASSUME VmmAssumption, Init
    PROVE  Inv
<1>1. TypeOK
    BY DEF VmmAssumption, Init, TypeOK, Page, Top
<1>2. Blocks = {}
    BY DEF Init, Blocks
<1>. QED
    BY <1>1, <1>2 DEF Init, Inv, GrantsMarked, FirstPagesMarked, ScanAhead,
                      SharedLastPageOnly, FirstPagesKept

\* Steps that grant nothing leave what Inv says of blocks as it is.
LEMMA OldBlocks ==
    ASSUME Inv, UNCHANGED <<used, granted>>
    PROVE  /\ GrantsMarked' /\ FirstPagesMarked'
           /\ SharedLastPageOnly' /\ FirstPagesKept'
BY DEF Inv, GrantsMarked, FirstPagesMarked, SharedLastPageOnly, FirstPagesKept, Blocks, PagesOf

\* The history after a grant: the old blocks and the new one.
LEMMA GrantHistory ==
    ASSUME VmmAssumption, Inv, ScanGrants
    PROVE  /\ granted' \in Seq([wanted : Nat, base : Page, pages : Nat])
           /\ Blocks' = Blocks \cup {Len(granted) + 1}
           /\ \A i \in Blocks : i \in Nat /\ i <= Len(granted) /\ granted'[i] = granted[i]
           /\ Len(granted) \in Nat
           /\ granted'[Len(granted) + 1] = NewBlock
           /\ Space!PagesOf(NewBlock) = Found .. Found + nPages - 1
           /\ Space!LastPage(NewBlock) = Found + nPages - 1
<1>1. NewBlock \in [wanted : Nat, base : Page, pages : Nat]
    BY DEF NewBlock, Inv, TypeOK, ScanGrants, Round
<1>2. granted \in Seq([wanted : Nat, base : Page, pages : Nat]) /\ granted' = Append(granted, NewBlock)
    BY DEF Inv, TypeOK, ScanGrants, NewBlock
<1>3. /\ granted' \in Seq([wanted : Nat, base : Page, pages : Nat])
      /\ Blocks' = Blocks \cup {Len(granted) + 1}
      /\ \A i \in Blocks : i \in Nat /\ i <= Len(granted) /\ granted'[i] = granted[i]
      /\ Len(granted) \in Nat
      /\ granted'[Len(granted) + 1] = NewBlock
    BY <1>1, <1>2 DEF Blocks
<1>4. NewBlock.base = Found /\ NewBlock.pages = nPages
    BY DEF NewBlock
<1>. QED
    BY <1>3, <1>4 DEF Space!PagesOf, Space!LastPage

LEMMA GrantInv ==
    ASSUME VmmAssumption, Inv, ScanGrants
    PROVE  Inv'
<1>. DEFINE new == Len(granted) + 1
            b == Found
<1>1. /\ b \in Page /\ b \notin used
      /\ b .. b + nPages - 1 \subseteq Page
      /\ (b .. b + nPages - 1) \cap used \subseteq {b + nPages - 1}
    BY GrantIsFree
<1>2. /\ granted' \in Seq([wanted : Nat, base : Page, pages : Nat])
      /\ Blocks' = Blocks \cup {new}
      /\ \A i \in Blocks : i \in Nat /\ i < new /\ granted'[i] = granted[i]
      /\ granted'[new] = NewBlock
      /\ new \in Nat /\ new \notin Blocks
      /\ Space!PagesOf(NewBlock) = b .. b + nPages - 1
      /\ Space!LastPage(NewBlock) = b + nPages - 1
    BY GrantHistory
<1>3. used' = used \cup (b .. b + nPages - 1)
    BY DEF ScanGrants, VMMReserveRegion
<1>4. vmm' = "idle" /\ vbase' = 0 /\ nPages' = 0 /\ current' = 0
    BY DEF ScanGrants
<1>5. b >= Reserved /\ nPages \in Nat /\ Reserved \in Nat /\ b \in Nat
    BY <1>1, PagesAreNat DEF Inv, TypeOK, FirstPagesMarked, VmmAssumption
<1>. HIDE DEF b, new
<1>6. TypeOK'
    BY <1>1, <1>2, <1>3, <1>4 DEF Inv, TypeOK, Page, Top
<1>7. GrantsMarked'
    BY <1>2, <1>3 DEF Inv, GrantsMarked, PagesOf
<1>8. FirstPagesMarked'
    BY <1>3 DEF Inv, FirstPagesMarked
<1>9. ScanAhead'
    BY <1>4 DEF ScanAhead
<1>10. SharedLastPageOnly'
    <2>. SUFFICES ASSUME NEW i \in Blocks', NEW j \in Blocks', i < j
                  PROVE  Space!PagesOf(granted'[i]) \cap Space!PagesOf(granted'[j])
                           \subseteq {Space!LastPage(granted'[j])}
        BY DEF SharedLastPageOnly, PagesOf
    <2>1. i \in Blocks
        BY <1>2
    <2>2. CASE j \in Blocks
        BY <1>2, <2>1, <2>2 DEF Inv, SharedLastPageOnly, PagesOf
    <2>3. CASE j = new
        <3>1. Space!PagesOf(granted'[i]) \subseteq used
            BY <1>2, <2>1 DEF Inv, GrantsMarked, PagesOf
        <3>. QED
            BY <1>1, <1>2, <2>3, <3>1
    <2>. QED BY <1>2, <2>2, <2>3
<1>11. FirstPagesKept'
    <2>1. (b .. b + nPages - 1) \cap (0 .. Reserved - 1) = {}
        BY <1>5
    <2>. QED
        BY <1>2, <2>1 DEF Inv, FirstPagesKept, PagesOf
<1>. QED
    BY <1>6, <1>7, <1>8, <1>9, <1>10, <1>11 DEF Inv

LEMMA NextInv ==
    ASSUME VmmAssumption, Inv, [Next]_vmmVars
    PROVE  Inv'
<1>1. CASE Call
    <2>1. UNCHANGED <<used, granted>>
        BY <1>1 DEF Call, VMMAllocPages
    <2>2. TypeOK' /\ ScanAhead'
        BY <1>1 DEF Inv, TypeOK, ScanAhead, Call, VMMAllocPages, VmmAssumption, Page, Top
    <2>. QED BY <2>1, <2>2, OldBlocks DEF Inv
<1>2. CASE ScanGrants
    BY <1>2, GrantInv
<1>3. CASE ScanGoesOn
    <2>1. UNCHANGED <<used, granted>>
        BY <1>3 DEF ScanGoesOn
    <2>. DEFINE b == Found
                n == NumberOfPagesFreeHere(Found)
    <2>2. b \in Page /\ b \in Nat /\ b \notin used /\ b >= current
        BY <1>3, FindsFree, PagesAreNat DEF ScanGoesOn, Round, Found, Inv, TypeOK
    <2>3. n \in Nat
        BY <1>3, <2>2, CountsOneTooMany DEF ScanGoesOn, Round, Inv, TypeOK
    <2>4. current' = b + n /\ UNCHANGED <<used, vmm, vbase, nPages, granted>>
        BY <1>3 DEF ScanGoesOn
    <2>. HIDE DEF b, n
    <2>5. TypeOK' /\ ScanAhead'
        BY <2>2, <2>3, <2>4 DEF Inv, TypeOK, ScanAhead, Page, Top
    <2>. QED BY <2>1, <2>5, OldBlocks DEF Inv
<1>4. CASE ScanFaults
    <2>1. UNCHANGED <<used, granted>>
        BY <1>4 DEF ScanFaults
    <2>2. TypeOK' /\ ScanAhead'
        BY <1>4 DEF Inv, TypeOK, ScanAhead, ScanFaults, Page, Top
    <2>. QED BY <2>1, <2>2, OldBlocks DEF Inv
<1>5. CASE UNCHANGED vmmVars
    <2>1. UNCHANGED <<used, granted>>
        BY <1>5 DEF vmmVars
    <2>2. TypeOK' /\ ScanAhead'
        BY <1>5 DEF Inv, TypeOK, ScanAhead, vmmVars, Page, Top
    <2>. QED BY <2>1, <2>2, OldBlocks DEF Inv
<1>. QED
    BY <1>1, <1>2, <1>3, <1>4, <1>5 DEF Next, VmmScan

----------------------------------------------------------------------------
\* The inductive invariant holds in every state of the allocator.
THEOREM Invariance ==
    Spec => []Inv
<1>1. Init => Inv
    BY VmmAssumption, InitInv
<1>2. Inv /\ [Next]_vmmVars => Inv'
    BY VmmAssumption, NextInv
<1>. QED
    BY <1>1, <1>2, PTL DEF Spec

\* The bitmap, the scan and the blocks keep to their types: no page that is
\* marked, and no block that is granted, is outside the bitmap and what lies
\* behind it, so a scan that runs off the end faults before it grants.
THEOREM TypeCorrect ==
    Spec => []TypeOK
<1>1. Inv => TypeOK
    BY DEF Inv
<1>. QED
    BY <1>1, Invariance, PTL

\* Two blocks VMMAllocPages granted share no page but the last of the later.
THEOREM OverlapIsOnePage ==
    Spec => []SharedLastPageOnly
<1>1. Inv => SharedLastPageOnly
    BY DEF Inv
<1>. QED
    BY <1>1, Invariance, PTL

\* The 64kb that VMMInit marks are in no block, whatever base is asked for.
THEOREM FirstPagesNeverGranted ==
    Spec => []FirstPagesKept
<1>1. Inv => FirstPagesKept
    BY DEF Inv
<1>. QED
    BY <1>1, Invariance, PTL

\* Every round of a search begins behind the one before, and inside the memory,
\* so that the rounds end.
THEOREM RoundsAlwaysAdvance ==
    Spec => RoundsAdvance
<1>. DEFINE Advance == vmm = "scan" /\ vmm' = "scan" => current < current' /\ current' <= Top
<1>1. Inv /\ [Next]_vmmVars => [Advance]_vmmVars
    <2>. SUFFICES ASSUME VmmAssumption, Inv, Next PROVE Advance
        BY VmmAssumption
    <2>1. CASE ScanGoesOn
        <3>. DEFINE b == Found
                    n == NumberOfPagesFreeHere(Found)
        <3>1. b \in Page /\ b \in Nat /\ b \notin used /\ b >= current
            BY <2>1, FindsFree, PagesAreNat DEF ScanGoesOn, Round, Found, Inv, TypeOK
        <3>2. n \in Nat /\ n >= 2 /\ b + n - 1 \in used
            BY <2>1, <3>1, CountsOneTooMany DEF ScanGoesOn, Round, Inv, TypeOK
        <3>3. current' = b + n /\ current \in Nat /\ used \subseteq Page
            BY <2>1 DEF ScanGoesOn, Inv, TypeOK
        <3>. HIDE DEF b, n
        <3>4. b + n - 1 < Top /\ Top \in Nat
            BY <3>2, <3>3, PagesAreNat
        <3>. QED
            BY <3>1, <3>2, <3>3, <3>4
    <2>2. CASE Call \/ ScanGrants \/ ScanFaults
        BY <2>2 DEF Call, VMMAllocPages, ScanGrants, ScanFaults
    <2>. QED
        BY <2>1, <2>2 DEF Next, VmmScan
<1>. QED
    BY <1>1, Invariance, PTL DEF Spec, RoundsAdvance

\* The scan over dwords implements the abstract page space: a step of the
\* allocator that grants is a Grant, and every other step stutters.
THEOREM Implements ==
    Spec => IsPageSpace
<1>1. Init => Space!SpaceInit
    BY VmmAssumption, PagesAreNat DEF Init, Space!SpaceInit, VmmAssumption, Page, Top
<1>2. Inv /\ [Next]_vmmVars => [Space!SpaceNext]_(Space!spaceVars)
    <2>. SUFFICES ASSUME VmmAssumption, Inv, [Next]_vmmVars
                  PROVE  [Space!SpaceNext]_(Space!spaceVars)
        BY VmmAssumption
    <2>1. CASE ScanGrants
        <3>1. /\ granted' = Append(granted, NewBlock)
              /\ used' = used \cup (Found .. Found + nPages - 1)
            BY <2>1 DEF ScanGrants, NewBlock, VMMReserveRegion
        <3>2. /\ Len(granted) \in Nat /\ Len(granted') = Len(granted) + 1
              /\ granted'[Len(granted')] = NewBlock /\ granted' # granted
            BY <3>1 DEF Inv, TypeOK
        <3>3. /\ NewBlock.base = Found /\ NewBlock.wanted = vbase
              /\ Space!PagesOf(NewBlock) = Found .. Found + nPages - 1
              /\ Space!LastPage(NewBlock) = Found + nPages - 1
            BY <2>1, GrantHistory DEF NewBlock
        <3>4. /\ Found \notin used /\ Found >= vbase
              /\ (Found .. Found + nPages - 1) \cap used \subseteq {Found + nPages - 1}
            BY <2>1, GrantIsFree
        <3>5. Space!Grant(NewBlock)
            BY <3>1, <3>3, <3>4 DEF Space!Grant
        <3>. QED
            BY <3>2, <3>5 DEF Space!SpaceNext
    <2>2. CASE Call \/ ScanGoesOn \/ ScanFaults \/ UNCHANGED vmmVars
        BY <2>2 DEF Call, VMMAllocPages, ScanGoesOn, ScanFaults, vmmVars, Space!spaceVars
    <2>. QED
        BY <2>1, <2>2 DEF Next, VmmScan
<1>. QED
    BY <1>1, <1>2, Invariance, PTL DEF Spec, IsPageSpace, Space!SpaceSpec

----------------------------------------------------------------------------
\* Division by the number of pages of a dword.
LEMMA Division ==
    ASSUME NEW d \in Nat \ {0}, NEW q \in Nat
    PROVE  /\ q \div d \in Nat /\ q % d \in 0 .. d - 1
           /\ q = d * (q \div d) + (q % d)
OBVIOUS

LEMMA Quotient ==
    ASSUME NEW d \in Nat \ {0}, NEW k \in Nat, NEW r \in 0 .. d - 1
    PROVE  (d * k + r) \div d = k /\ (d * k + r) % d = r
OBVIOUS

LEMMA Multiple ==
    ASSUME NEW d \in Nat \ {0}, NEW k \in Nat
    PROVE  (d * k) % d = 0 /\ (d * k) \div d = k
OBVIOUS

\* Below any page q, and not below an aligned start, stands the first page of
\* its dword, at a whole number of dwords from the start.
LEMMA DwordOf ==
    ASSUME NEW d \in Nat \ {0}, NEW start \in Nat, start % d = 0,
           NEW q \in Nat, q >= start
    PROVE  \E c \in Nat : /\ c >= start /\ c <= q
                          /\ (c - start) % d = 0
                          /\ c \div d = q \div d
<1>. DEFINE k == start \div d
            m == q \div d
<1>1. k \in Nat /\ start = d * k
    BY Division
<1>2. m \in Nat /\ q % d \in 0 .. d - 1 /\ q = d * m + (q % d)
    BY Division
<1>. HIDE DEF k, m
<1>3. k <= m
    <2>. SUFFICES ASSUME m + 1 <= k PROVE FALSE
        BY <1>1, <1>2
    <2>1. d * (m + 1) <= d * k
        BY <1>1, <1>2
    <2>2. d * (m + 1) = d * m + d
        BY <1>2
    <2>. QED BY <1>1, <1>2, <2>1, <2>2
<1>4. PICK j \in Nat : m = k + j
    <2>1. m - k \in Nat /\ m = k + (m - k)
        BY <1>1, <1>2, <1>3
    <2>. QED BY <2>1
<1>5. d * m = d * k + d * j /\ d * m \in Nat /\ d * j \in Nat
    BY <1>1, <1>2, <1>4
<1>6. (d * j) % d = 0 /\ (d * m) \div d = m
    BY <1>2, <1>4, Quotient
<1>7. /\ d * m >= start /\ d * m <= q
      /\ (d * m - start) % d = 0 /\ (d * m) \div d = q \div d
    BY <1>1, <1>2, <1>5, <1>6 DEF m
<1>. QED
    BY <1>5, <1>7

----------------------------------------------------------------------------
\* Min of a set has no element below it: what is below in a range is used.
LEMMA BelowLeastFree ==
    ASSUME VmmAssumption, NEW first \in Nat, NEW last \in Int, Free(first, last) # {},
           NEW q \in first .. Min(Free(first, last)) - 1
    PROVE  q \in used /\ Min(Free(first, last)) \in Page
<1>. DEFINE window == Free(first, last)
            p == Min(window)
<1>1. window \subseteq Nat
    BY FreePages
<1>2. p \in window /\ \A y \in window : p <= y
    BY <1>1, MinElement
<1>3. p \in first .. last /\ p \in Page /\ p \in Nat
    BY <1>2, PagesAreNat DEF Free
<1>. HIDE DEF p, window
<1>4. q \in first .. last /\ q \in Page /\ q < p
    BY <1>3, PagesAreNat DEF p, window, Page
<1>5. q \notin window
    BY <1>2, <1>3, <1>4
<1>. QED
    BY <1>3, <1>4, <1>5 DEF Free, p, window

\* The dword loop skips no free page when it starts at a dword, or in one
\* that is not full.
LEMMA SweepFindsFirst ==
    ASSUME VmmAssumption, NEW start \in Nat, Sweep(start) \in Page,
           start % DwordBits = 0 \/ ~Full(start),
           NEW q \in start .. Sweep(start) - 1
    PROVE  q \in used
<1>. DEFINE stops == {c \in start .. Top - 1 : (c - start) % DwordBits = 0 /\ ~Full(c)}
            stop == Min(stops)
            window == Free(stop, stop + DwordBits - 1)
<1>1. Hang \notin Page /\ Fault \notin Page
    BY DEF Hang, Fault, Page
<1>2. stops # {} /\ window # {} /\ Sweep(start) = Min(window)
    BY <1>1 DEF Sweep
<1>3. Top \in Nat /\ DwordBits \in Nat \ {0}
    BY DEF VmmAssumption, Top
<1>4. stops \subseteq Nat /\ \A c \in stops : c >= start /\ c < Top
    BY <1>3
<1>. HIDE DEF stop
<1>5. stop \in stops /\ \A c \in stops : stop <= c
    BY <1>2, <1>4, MinElement DEF stop
<1>6. \A c \in start .. stop - 1 : (c - start) % DwordBits = 0 => Full(c)
    <2>. SUFFICES ASSUME NEW c \in start .. stop - 1, (c - start) % DwordBits = 0, ~Full(c)
                  PROVE  FALSE
        OBVIOUS
    <2>1. stop \in Nat /\ stop < Top
        BY <1>4, <1>5
    <2>2. c \in start .. Top - 1 /\ ~(stop <= c)
        BY <1>3, <2>1
    <2>. QED BY <1>5, <2>2
<1>. HIDE DEF stops
<1>. stop \in Nat /\ stop >= start /\ stop < Top
    BY <1>4, <1>5
<1>7. CASE q < stop
    <2>1. start \in start .. stop - 1 /\ (start - start) % DwordBits = 0
        BY <1>3, <1>7
    <2>2. start % DwordBits = 0
        BY <1>6, <2>1
    <2>3. q \in Nat /\ q >= start
        BY <1>7
    <2>4. PICK c \in Nat : /\ c >= start /\ c <= q
                           /\ (c - start) % DwordBits = 0
                           /\ c \div DwordBits = q \div DwordBits
        BY <1>3, <1>7, <2>2, <2>3, DwordOf
    <2>5. Full(c)
        BY <1>6, <1>7, <2>4
    <2>6. q \in Page
        BY <1>3, <1>7 DEF Page
    <2>. QED
        BY <2>4, <2>5, <2>6 DEF Full
<1>8. CASE q >= stop
    <2>1. stop + DwordBits - 1 \in Int /\ Sweep(start) \in Nat
        BY <1>3, PagesAreNat
    <2>2. q \in stop .. Min(window) - 1
        BY <1>2, <1>8, <2>1
    <2>. QED
        BY <1>2, <2>1, <2>2, BelowLeastFree
<1>. QED
    BY <1>7, <1>8

\* FindFirstFreePage finds the first free page: it skips only pages in use.
LEMMA FindsFirst ==
    ASSUME VmmAssumption, NEW index \in Nat, FindFirstFreePage(index) \in Page,
           NEW q \in index .. FindFirstFreePage(index) - 1
    PROVE  q \in used
<1>. DEFINE bound == DwordBits - (index % DwordBits)
            early == Free(index, bound - 1)
            m == index \div DwordBits
            p == FindFirstFreePage(index)
<1>1. /\ DwordBits \in Nat \ {0} /\ m \in Nat /\ index % DwordBits \in 0 .. DwordBits - 1
      /\ index = DwordBits * m + (index % DwordBits)
      /\ bound \in 1 .. DwordBits
    <2>1. DwordBits \in Nat \ {0}
        BY DEF VmmAssumption
    <2>2. m \in Nat /\ index % DwordBits \in 0 .. DwordBits - 1
        BY <2>1, Division
    <2>3. index = DwordBits * m + (index % DwordBits)
        BY <2>1, Division
    <2>. HIDE DEF m
    <2>. QED BY <2>1, <2>2, <2>3
<1>2. p \in Nat /\ q \in Page /\ q \in Nat
    BY PagesAreNat DEF Page
<1>3. CASE Full(index)
    <2>. DEFINE start == index + bound
    <2>1. p = Sweep(start)
        BY <1>3 DEF FindFirstFreePage
    <2>2. start = DwordBits * (m + 1) /\ start \in Nat
        BY <1>1
    <2>3. start % DwordBits = 0
        <3>1. m + 1 \in Nat /\ start = DwordBits * (m + 1)
            BY <1>1, <2>2
        <3>. HIDE DEF start, m
        <3>. QED BY <1>1, <3>1, Multiple
    <2>4. CASE q < start
        <3>. DEFINE r == (index % DwordBits) + (q - index)
        <3>1. r \in 0 .. DwordBits - 1 /\ q = DwordBits * m + r
            BY <1>1, <1>2, <2>4
        <3>2. q \div DwordBits = m
            <4>. HIDE DEF m, r
            <4>. QED BY <1>1, <3>1, Quotient
        <3>. QED BY <1>2, <1>3, <3>2 DEF Full
    <2>5. CASE q >= start
        <3>. HIDE DEF start, p
        <3>1. q \in start .. Sweep(start) - 1
            BY <1>2, <2>1, <2>2, <2>5 DEF p
        <3>. QED BY <2>1, <2>2, <2>3, <3>1, SweepFindsFirst DEF p
    <2>. QED BY <1>2, <2>2, <2>4, <2>5
<1>4. CASE ~Full(index) /\ early # {}
    <2>1. p = Min(early)
        BY <1>4 DEF FindFirstFreePage
    <2>. QED BY <1>1, <1>4, <2>1, BelowLeastFree
<1>5. CASE ~Full(index) /\ early = {}
    <2>. DEFINE start == IF index < bound THEN bound ELSE index
    <2>1. p = Sweep(start)
        BY <1>5 DEF FindFirstFreePage
    <2>2. start \in Nat
        BY <1>1
    <2>3. start % DwordBits = 0 \/ ~Full(start)
        <3>1. CASE index >= bound
            BY <1>1, <1>5, <3>1
        <3>2. CASE index < bound /\ index = 0
            <4>1. DwordBits = DwordBits * 1 + 0 /\ bound = DwordBits
                BY <1>1, <3>2
            <4>2. DwordBits % DwordBits = 0
                BY <1>1
            <4>. QED BY <3>2, <4>1, <4>2
        <3>3. CASE index < bound /\ index > 0
            <4>1. index \in 0 .. DwordBits - 1
                BY <1>1, <3>3
            <4>2. index \div DwordBits = 0 /\ index % DwordBits = index
                BY <1>1, <4>1
            <4>3. start \in 0 .. DwordBits - 1
                BY <1>1, <3>3, <4>2
            <4>4. start \div DwordBits = 0
                BY <1>1, <4>3
            <4>. HIDE DEF start
            <4>. QED BY <1>5, <4>2, <4>4 DEF Full
        <3>. QED BY <1>1, <3>1, <3>2, <3>3
    <2>4. CASE q < start
        <3>1. q \in index .. bound - 1
            BY <1>1, <1>2, <2>4
        <3>. QED BY <1>2, <1>5, <3>1 DEF Free
    <2>5. CASE q >= start
        <3>. HIDE DEF start, p
        <3>1. q \in start .. Sweep(start) - 1
            BY <1>2, <2>1, <2>2, <2>5 DEF p
        <3>. QED BY <2>1, <2>2, <2>3, <3>1, SweepFindsFirst DEF p
    <2>. QED BY <1>2, <2>2, <2>4, <2>5
<1>. QED
    BY <1>3, <1>4, <1>5

----------------------------------------------------------------------------
(***************************************************************************)
(* What the scan carries from one round to the next: no block that fits    *)
(* starts between the base asked for and the page it stands at.            *)
(***************************************************************************)
NothingMissed ==
    vmm = "scan" => \A p \in vbase .. current - 1 : ~Fits(p, AtLeastOne(nPages))

LEMMA UsedDoesNotFit ==
    ASSUME NEW p \in Nat, NEW n \in Nat, NEW q \in Nat, q \in used, p <= q, q <= p + n - 1
    PROVE  ~Fits(p, n)
BY DEF Fits

\* Neither the pages below the one found nor a run that is too short fit.
LEMMA RoundMissesNothing ==
    ASSUME VmmAssumption, Inv, NothingMissed, Round
    PROVE  /\ Found \in Nat
           /\ \A p \in vbase .. Found - 1 : ~Fits(p, AtLeastOne(nPages))
<1>1. /\ Found \in Page /\ Found \in Nat /\ current \in Nat /\ vbase \in Nat
      /\ nPages \in Nat /\ vmm = "scan"
    BY PagesAreNat DEF Inv, TypeOK, Round
<1>2. AtLeastOne(nPages) \in Nat /\ AtLeastOne(nPages) >= 1
    BY <1>1 DEF AtLeastOne
<1>3. \A p \in current .. Found - 1 : p \in used
    BY <1>1, FindsFirst DEF Found
<1>. DEFINE f == Found
            n == AtLeastOne(nPages)
<1>. HIDE DEF f, n
<1>. SUFFICES ASSUME NEW p \in vbase .. f - 1
              PROVE  ~Fits(p, n)
    BY <1>1 DEF f, n
<1>4. p \in Nat
    BY <1>1
<1>5. CASE p < current
    BY <1>1, <1>5 DEF NothingMissed, n
<1>6. CASE p >= current
    <2>1. p \in used /\ p <= p + n - 1
        BY <1>1, <1>2, <1>3, <1>4, <1>6 DEF f, n
    <2>. QED
        BY <1>2, <1>4, <2>1, UsedDoesNotFit DEF n
<1>. QED
    BY <1>1, <1>4, <1>5, <1>6

LEMMA NothingMissedStep ==
    ASSUME VmmAssumption, Inv, NothingMissed, [Next]_vmmVars
    PROVE  NothingMissed'
<1>1. CASE Call
    <2>1. vbase' \in Nat /\ current' = vbase'
        BY <1>1 DEF Call, VMMAllocPages, VmmAssumption
    <2>2. \A b \in Nat : b .. b - 1 = {}
        OBVIOUS
    <2>3. vbase' .. current' - 1 = {}
        BY <2>1, <2>2, Zenon
    <2>. QED BY <2>3 DEF NothingMissed
<1>2. CASE ScanGrants \/ ScanFaults
    BY <1>2 DEF ScanGrants, ScanFaults, NothingMissed
<1>3. CASE ScanGoesOn
    <2>. DEFINE f == Found
                n == NumberOfPagesFreeHere(f)
                k == AtLeastOne(nPages)
    <2>1. Round /\ n < nPages /\ current' = f + n /\ UNCHANGED <<used, vmm, vbase, nPages, granted>>
        BY <1>3 DEF ScanGoesOn
    <2>2. f \in Nat /\ \A p \in vbase .. f - 1 : ~Fits(p, k)
        BY <2>1, RoundMissesNothing
    <2>3. used \subseteq Page /\ f \in Page /\ f \notin used
        BY <2>1, FindsFree DEF Inv, TypeOK, Round, Found
    <2>4. n \in Nat /\ n >= 2 /\ f + n - 1 \in used
        BY <2>1, <2>3, CountsOneTooMany DEF Round
    <2>5. nPages \in Nat /\ vbase \in Nat /\ k = nPages
        <3>1. nPages \in Nat /\ vbase \in Nat
            BY DEF Inv, TypeOK
        <3>. HIDE DEF n
        <3>. QED BY <2>1, <2>4, <3>1 DEF AtLeastOne
    <2>. HIDE DEF f, n, k
    <2>6. \A p \in vbase .. f + n - 1 : ~Fits(p, k)
        <3>. SUFFICES ASSUME NEW p \in vbase .. f + n - 1 PROVE ~Fits(p, k)
            OBVIOUS
        <3>1. CASE p < f
            BY <2>2, <2>5, <3>1
        <3>2. CASE p >= f
            <4>1. p \in Nat /\ f + n - 1 \in Nat /\ p <= f + n - 1 /\ f + n - 1 <= p + k - 1
                BY <2>1, <2>2, <2>4, <2>5, <3>2
            <4>. QED BY <2>4, <2>5, <4>1, UsedDoesNotFit
        <3>. QED BY <2>2, <2>5, <3>1, <3>2
    <2>7. SUFFICES ASSUME NEW p \in vbase' .. current' - 1
                   PROVE  ~Fits(p, AtLeastOne(nPages))'
        BY DEF NothingMissed
    <2>8. p \in vbase .. f + n - 1
        <3>1. vbase' = vbase /\ current' = f + n
            BY <2>1
        <3>. QED BY <2>2, <2>4, <2>5, <3>1
    <2>9. ~Fits(p, k)
        BY <2>6, <2>8
    <2>. QED
        BY <2>1, <2>9 DEF Fits, AtLeastOne, k
<1>4. CASE UNCHANGED vmmVars
    BY <1>4 DEF vmmVars, NothingMissed, Fits, AtLeastOne
<1>. QED
    BY <1>1, <1>2, <1>3, <1>4 DEF Next, VmmScan

\* The block granted is the first one that fits at or above the base asked
\* for ("returns the first block found", os2mem.c:27).
THEOREM GrantsFirstFit ==
    Spec => FirstFit
<1>. DEFINE Grants == granted' # granted =>
                 LET b == granted'[Len(granted')]
                 IN  \A p \in b.wanted .. b.base - 1 : ~Fits(p, AtLeastOne(b.pages))
<1>1. Init => NothingMissed
    BY DEF Init, NothingMissed
<1>2. Inv /\ NothingMissed /\ [Next]_vmmVars => NothingMissed'
    BY VmmAssumption, NothingMissedStep
<1>3. Inv /\ NothingMissed /\ [Next]_vmmVars => [Grants]_vmmVars
    <2>. SUFFICES ASSUME Inv, NothingMissed, [Next]_vmmVars, granted' # granted
                  PROVE  Grants
        OBVIOUS
    <2>1. ScanGrants
        BY DEF Next, Call, VmmScan, VMMAllocPages, ScanGoesOn, ScanFaults, vmmVars
    <2>2. Len(granted') = Len(granted) + 1 /\ granted'[Len(granted')] = NewBlock
        BY <2>1 DEF ScanGrants, NewBlock, Inv, TypeOK
    <2>3. NewBlock.wanted = vbase /\ NewBlock.base = Found /\ NewBlock.pages = nPages
        BY DEF NewBlock
    <2>4. \A p \in vbase .. Found - 1 : ~Fits(p, AtLeastOne(nPages))
        BY <2>1, VmmAssumption, RoundMissesNothing DEF ScanGrants
    <2>. QED
        BY <2>2, <2>3, <2>4
<1>. HIDE DEF Grants
<1>4. [][Grants]_vmmVars => FirstFit
    BY PTL DEF FirstFit, Grants
<1>. QED
    BY <1>1, <1>2, <1>3, <1>4, Invariance, PTL DEF Spec

----------------------------------------------------------------------------
\* From the first page of a dword on, the dword loop looks at whole dwords, and
\* one that is not full has a free page.
LEMMA SweepAligned ==
    ASSUME VmmAssumption, NEW start \in Nat, start % DwordBits = 0
    PROVE  Sweep(start) # Hang
<1>. DEFINE stops == {c \in start .. Top - 1 : (c - start) % DwordBits = 0 /\ ~Full(c)}
            stop == Min(stops)
            window == Free(stop, stop + DwordBits - 1)
<1>1. DwordBits \in Nat \ {0} /\ Top \in Nat
    BY DEF VmmAssumption, Top
<1>2. CASE stops = {}
    BY <1>2 DEF Sweep, Hang, Fault
<1>3. CASE stops # {}
    <2>1. stops \subseteq Nat
        BY <1>1
    <2>. HIDE DEF stop
    <2>2. stop \in stops
        BY <1>3, <2>1, MinElement DEF stop
    <2>3. stop \in Nat /\ stop >= start /\ (stop - start) % DwordBits = 0 /\ ~Full(stop)
        BY <1>1, <2>2
    <2>4. PICK k \in Nat : stop = DwordBits * k
        <3>1. PICK i \in Nat : start = DwordBits * i
            <4>. DEFINE i == start \div DwordBits
            <4>1. i \in Nat /\ start = DwordBits * i + (start % DwordBits)
                BY <1>1, Division
            <4>. HIDE DEF i
            <4>2. start = DwordBits * i + 0
                BY <4>1
            <4>. QED BY <1>1, <4>1, <4>2
        <3>2. PICK j \in Nat : stop - start = DwordBits * j
            <4>. DEFINE d == stop - start
                        j == d \div DwordBits
            <4>1. d \in Nat /\ d % DwordBits = 0
                BY <2>3
            <4>. HIDE DEF d
            <4>2. j \in Nat /\ d = DwordBits * j + (d % DwordBits)
                BY <1>1, <4>1, Division
            <4>. HIDE DEF j
            <4>3. d = DwordBits * j
                BY <1>1, <4>1, <4>2
            <4>. QED BY <4>2, <4>3 DEF d
        <3>3. stop = DwordBits * (i + j) /\ i + j \in Nat
            BY <1>1, <2>3, <3>1, <3>2
        <3>. QED BY <3>3
    <2>5. PICK p \in Page : p \div DwordBits = stop \div DwordBits /\ p \notin used
        BY <2>3 DEF Full
    <2>6. p \in Nat /\ stop \div DwordBits = k
        BY <1>1, <2>4, Multiple, PagesAreNat
    <2>7. p % DwordBits \in 0 .. DwordBits - 1 /\ p = DwordBits * k + (p % DwordBits)
        <3>1. p % DwordBits \in 0 .. DwordBits - 1 /\ p = DwordBits * (p \div DwordBits) + (p % DwordBits)
            BY <1>1, <2>6, Division
        <3>. QED BY <2>5, <2>6, <3>1
    <2>8. p \in window
        <3>1. p \in stop .. stop + DwordBits - 1
            BY <1>1, <2>3, <2>4, <2>6, <2>7
        <3>. QED BY <2>5, <3>1 DEF Free
    <2>9. window \subseteq Nat
        BY <1>1, <2>3, FreePages
    <2>10. Sweep(start) = Min(window) /\ Min(window) \in Nat
        <3>. HIDE DEF window
        <3>1. Min(window) \in Nat
            BY <2>8, <2>9, MinElement
        <3>. QED BY <1>3, <2>8, <3>1 DEF Sweep, stop, window
    <2>. QED BY <2>10 DEF Hang
<1>. QED BY <1>2, <1>3

LEMMA FindsAligned ==
    ASSUME VmmAssumption, NEW index \in Nat, index % DwordBits = 0
    PROVE  FindFirstFreePage(index) # Hang
<1>. DEFINE bound == DwordBits - (index % DwordBits)
            early == Free(index, bound - 1)
<1>1. DwordBits \in Nat \ {0} /\ bound = DwordBits
    BY DEF VmmAssumption
<1>2. (index + bound) % DwordBits = 0 /\ index + bound \in Nat
    <2>. DEFINE m == index \div DwordBits
    <2>1. m \in Nat /\ index = DwordBits * m + (index % DwordBits)
        BY <1>1, Division
    <2>. HIDE DEF m
    <2>2. index = DwordBits * m + 0
        BY <2>1
    <2>. HIDE DEF bound
    <2>3. index + bound = DwordBits * (m + 1) /\ m + 1 \in Nat
        BY <1>1, <2>1, <2>2
    <2>. QED BY <1>1, <2>3, Multiple
<1>3. bound % DwordBits = 0 /\ bound \in Nat
    BY <1>1
<1>4. CASE Full(index)
    <2>. HIDE DEF bound
    <2>. QED BY <1>2, <1>4, SweepAligned DEF FindFirstFreePage, bound
<1>5. CASE ~Full(index) /\ early # {}
    <2>1. early \subseteq Nat
        BY <1>1, FreePages
    <2>. HIDE DEF early
    <2>2. Min(early) \in Nat
        BY <1>5, <2>1, MinElement
    <2>. QED BY <1>5, <2>2 DEF FindFirstFreePage, Hang, early
<1>6. CASE ~Full(index) /\ early = {}
    <2>. DEFINE start == IF index < bound THEN bound ELSE index
    <2>1. FindFirstFreePage(index) = Sweep(start)
        BY <1>6 DEF FindFirstFreePage
    <2>2. start \in Nat /\ start % DwordBits = 0
        BY <1>3
    <2>. HIDE DEF start
    <2>. QED BY <2>1, <2>2, SweepAligned
<1>. QED BY <1>4, <1>5, <1>6

\* The scan stands still in the middle of a dword only (os2mem.c:101): an
\* allocation that asks for the first page of one and is not sent on into the
\* middle of another always ends.
THEOREM StandsStillMidDword ==
    Spec => []StuckMidDword
<1>1. Inv => StuckMidDword
    <2>. SUFFICES ASSUME Inv, vmm = "scan", current % DwordBits = 0
                  PROVE  Found # Hang
        BY VmmAssumption DEF StuckMidDword, Inv, TypeOK
    <2>1. current \in Nat
        BY DEF Inv, TypeOK
    <2>. QED BY <2>1, VmmAssumption, FindsAligned DEF Found
<1>. QED
    BY <1>1, Invariance, PTL
=============================================================================
