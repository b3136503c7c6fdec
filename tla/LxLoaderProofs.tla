-------------------------- MODULE LxLoaderProofs --------------------------
(***************************************************************************)
(* What holds of the loader of LOCUTUS for every executable, every set of  *)
(* libraries and every size of the bitmap of pages.                        *)
(***************************************************************************)
EXTENDS LxLoader, FiniteSetTheorems, TLAPS

VP == INSTANCE VmmProofs

----------------------------------------------------------------------------
(***************************************************************************)
(* The allocator underneath.  A call of the loader is none of the calls of *)
(* Vmm, which asks for what is in Requests; the rounds of the scan are the *)
(* same.                                                                   *)
(***************************************************************************)
LEMMA SamePages ==
    VP!Page = VMM!Page
BY DEF VP!Page, VMM!Page, VP!Top, VMM!Top

\* What the assumptions say of the bitmap under the loader.
LEMMA Bitmap ==
    /\ VP!VmmAssumption
    /\ VMM!Page \subseteq Nat /\ 0 \in VMM!Page
    /\ ThunkBase \in Nat /\ Reserved \in Nat /\ Pages \in Nat
    /\ ThunkBase <= Pages /\ 0 .. Pages - 1 \subseteq VMM!Page
<1>1. VMM!VmmAssumption
    BY LoaderAssumption
<1>2. VP!VmmAssumption
    BY <1>1 DEF VP!VmmAssumption, VMM!VmmAssumption
<1>. QED
    BY <1>1, <1>2, LoaderAssumption DEF VMM!VmmAssumption, VMM!Page, VMM!Top

\* The allocator's invariant, by its proofs.
Allocator == VP!Inv /\ VP!NothingMissed

\* What the loader may take for granted of the allocator's variables.
LEMMA AllocatorTypes ==
    ASSUME Allocator
    PROVE  /\ used \subseteq VMM!Page
           /\ vmm \in {"idle", "scan", "fault"}
           /\ vbase \in Nat /\ nPages \in Nat
           /\ granted \in Seq([wanted : Nat, base : VMM!Page, pages : Nat])
BY SamePages DEF Allocator, VP!Inv, VP!TypeOK

\* At the start no block is granted, and only the reserved pages are in use.
LEMMA AllocatorInit ==
    ASSUME VMM!Init
    PROVE  /\ Allocator
           /\ vmm = "idle" /\ granted = <<>>
           /\ \A p \in used : p \in 0 .. Reserved - 1 \/ p >= Pages
<1>1. VP!Init
    BY DEF VMM!Init, VP!Init, VMM!Top, VP!Top
<1>2. VP!Inv
    BY <1>1, Bitmap, VP!InitInv
<1>3. VP!NothingMissed /\ vmm = "idle" /\ granted = <<>>
    BY DEF VMM!Init, VP!NothingMissed
<1>4. \A p \in used : p \in 0 .. Reserved - 1 \/ p >= Pages
    BY Bitmap DEF VMM!Init, VMM!Top
<1>. QED
    BY <1>2, <1>3, <1>4 DEF Allocator

\* A step that leaves the allocator alone leaves its invariant.
LEMMA AllocatorStays ==
    ASSUME Allocator, UNCHANGED vmmVars
    PROVE  Allocator'
<1>1. UNCHANGED VP!vmmVars
    BY DEF vmmVars, VP!vmmVars
<1>. QED
    BY <1>1, Bitmap, VP!NextInv, VP!NothingMissedStep DEF Allocator

\* VMMAllocPages (os2mem.c:124) keeps the invariant for any base and number.
LEMMA AllocatorCall ==
    ASSUME Allocator, NEW base \in Nat, NEW n \in Nat, VMM!VMMAllocPages(base, n)
    PROVE  /\ Allocator'
           /\ vmm = "idle" /\ vmm' = "scan" /\ vbase' = base /\ nPages' = n
           /\ UNCHANGED <<used, granted>>
<1>1. /\ vmm = "idle" /\ vmm' = "scan" /\ vbase' = base /\ nPages' = n /\ current' = base
      /\ UNCHANGED <<used, granted>>
    BY DEF VMM!VMMAllocPages
<1>2. VP!TypeOK'
    BY <1>1 DEF Allocator, VP!Inv, VP!TypeOK, VP!Page, VP!Top
<1>3. VP!ScanAhead'
    BY <1>1 DEF VP!ScanAhead
<1>4. VP!GrantsMarked' /\ VP!FirstPagesMarked' /\ VP!SharedLastPageOnly' /\ VP!FirstPagesKept'
    BY <1>1 DEF Allocator, VP!Inv, VP!GrantsMarked, VP!FirstPagesMarked, VP!SharedLastPageOnly,
                VP!FirstPagesKept, VP!Blocks, VP!PagesOf
<1>5. VP!NothingMissed'
    <2>1. base .. base - 1 = {}
        OBVIOUS
    <2>2. vbase' .. current' - 1 = {}
        BY <1>1, <2>1, Zenon
    <2>. QED BY <2>2 DEF VP!NothingMissed
<1>. QED
    BY <1>1, <1>2, <1>3, <1>4, <1>5 DEF Allocator, VP!Inv

\* A round of the scan is the same for both instances of Vmm.
LEMMA SameScan ==
    ASSUME VMM!VmmScan
    PROVE  /\ VP!Next
           /\ VMM!ScanGrants => VP!ScanGrants
<1>1. VMM!ScanGrants => VP!ScanGrants
    BY Zenon DEF VMM!ScanGrants, VMM!Round, VMM!Found, VMM!FindFirstFreePage, VMM!Sweep, VMM!Free,
           VMM!Full, VMM!NumberOfPagesFreeHere, VMM!UsedFrom, VMM!VMMReserveRegion, VMM!Page, VMM!Top,
           VMM!Fault, VMM!Hang, VMM!Min,
           VP!ScanGrants, VP!Round, VP!Found, VP!FindFirstFreePage, VP!Sweep, VP!Free,
           VP!Full, VP!NumberOfPagesFreeHere, VP!UsedFrom, VP!VMMReserveRegion, VP!Page, VP!Top,
           VP!Fault, VP!Hang, VP!Min
<1>2. VMM!ScanGoesOn => VP!ScanGoesOn
    BY Zenon DEF VMM!ScanGoesOn, VMM!Round, VMM!Found, VMM!FindFirstFreePage, VMM!Sweep, VMM!Free,
           VMM!Full, VMM!NumberOfPagesFreeHere, VMM!UsedFrom, VMM!VMMReserveRegion, VMM!Page, VMM!Top,
           VMM!Fault, VMM!Hang, VMM!Min,
           VP!ScanGoesOn, VP!Round, VP!Found, VP!FindFirstFreePage, VP!Sweep, VP!Free,
           VP!Full, VP!NumberOfPagesFreeHere, VP!UsedFrom, VP!VMMReserveRegion, VP!Page, VP!Top,
           VP!Fault, VP!Hang, VP!Min
<1>3. VMM!ScanFaults => VP!ScanFaults
    BY Zenon DEF VMM!ScanFaults, VMM!Round, VMM!Found, VMM!FindFirstFreePage, VMM!Sweep, VMM!Free,
           VMM!Full, VMM!NumberOfPagesFreeHere, VMM!UsedFrom, VMM!VMMReserveRegion, VMM!Page, VMM!Top,
           VMM!Fault, VMM!Hang, VMM!Min,
           VP!ScanFaults, VP!Round, VP!Found, VP!FindFirstFreePage, VP!Sweep, VP!Free,
           VP!Full, VP!NumberOfPagesFreeHere, VP!UsedFrom, VP!VMMReserveRegion, VP!Page, VP!Top,
           VP!Fault, VP!Hang, VP!Min
<1>. QED
    BY <1>1, <1>2, <1>3 DEF VMM!VmmScan, VP!VmmScan, VP!Next

\* A round of the scan that grants: the block begins on a free page f, and no
\* block that fits begins between what was asked for and f.
GrantAt(f) ==
    /\ f \in VMM!Page /\ f \notin used /\ f >= vbase
    /\ vmm' = "idle"
    /\ used' = used \cup (f .. f + nPages - 1)
    /\ granted' = Append(granted, [wanted |-> vbase, base |-> f, pages |-> nPages])
    /\ \A p \in vbase .. f - 1 :
          \E q \in p .. p + (IF nPages = 0 THEN 1 ELSE nPages) - 1 : q \notin VMM!Page \/ q \in used

\* A round of the scan keeps the invariant, and grants the first fit if it grants.
LEMMA AllocatorScan ==
    ASSUME Allocator, VMM!VmmScan
    PROVE  /\ Allocator' /\ vmm = "scan"
           /\ \/ vmm' # "idle" /\ UNCHANGED <<used, vbase, nPages, granted>>
              \/ \E f \in VMM!Page : GrantAt(f)
<1>1. Allocator'
    <2>1. [VP!Next]_(VP!vmmVars)
        BY SameScan
    <2>. QED BY <2>1, Bitmap, VP!NextInv, VP!NothingMissedStep DEF Allocator
<1>2. CASE VMM!ScanGrants
    <2>1. VP!ScanGrants /\ VP!Inv /\ VP!NothingMissed /\ VP!VmmAssumption
        BY <1>2, SameScan, Bitmap DEF Allocator
    <2>2. VP!Round
        BY <2>1 DEF VP!ScanGrants
    <2>3. /\ VP!Found \in VMM!Page /\ VP!Found \notin used /\ VP!Found >= vbase
        BY <2>1, VP!GrantIsFree, SamePages
    <2>4. \A p \in vbase .. VP!Found - 1 : ~VP!Fits(p, VP!AtLeastOne(nPages))
        BY <2>1, <2>2, VP!RoundMissesNothing
    <2>5. /\ vmm' = "idle" /\ vmm = "scan"
          /\ used' = used \cup (VP!Found .. VP!Found + nPages - 1)
          /\ granted' = Append(granted, [wanted |-> vbase, base |-> VP!Found, pages |-> nPages])
        BY <2>1 DEF VP!ScanGrants, VP!Round, VP!VMMReserveRegion
    <2>6. GrantAt(VP!Found)
        BY <2>3, <2>4, <2>5, SamePages DEF GrantAt, VP!Fits, VP!AtLeastOne
    <2>. QED BY <1>1, <2>3, <2>5, <2>6
<1>3. CASE VMM!ScanGoesOn \/ VMM!ScanFaults
    BY <1>1, <1>3 DEF VMM!ScanGoesOn, VMM!ScanFaults, VMM!Round
<1>. QED
    BY <1>2, <1>3 DEF VMM!VmmScan

----------------------------------------------------------------------------
(***************************************************************************)
(* The inductive invariant.  Its first part is what the loader has where:  *)
(* the types, in full; what is asked of the allocator and what came back;  *)
(* and one block for each object mapped, for each function with a thunk,   *)
(* and for the one being waited for.                                       *)
(***************************************************************************)
Content == {Raw} \cup {ObjectPage(i, n) : i \in Nat, n \in Nat}
                 \cup {Thunk(l, n) : l \in DOMAIN Libraries, n \in Nat}
PageContent == [what : Content, fix : [Offsets -> VMM!Page \cup {Unpatched}]]

Types ==
    /\ exe \in Exes
    /\ pc \in {"resolve", "map", "mapping", "page", "fixup", "thunk", "run", "exit", "crash"}
    /\ modules \in Seq(DOMAIN Libraries \cup {Missing}) /\ Len(modules) <= Len(exe.libs)
    /\ DOMAIN entries = DOMAIN Libraries
    /\ \A l \in DOMAIN Libraries : entries[l] \in [Ordinals(l) -> VMM!Page \cup {Host}]
    /\ mapped \in Seq(VMM!Page) /\ Len(mapped) <= Len(exe.objs)
    /\ page \in Nat /\ rec \in Nat
    /\ mem \in [VMM!Page -> PageContent]
    /\ eip \in Nat /\ esp \in Nat

RecordsOf(e, k) == e.table[e.objs[k].first].fixups
LibraryOf(ms, m) == IF m \in DOMAIN ms THEN ms[m] ELSE Missing
LastBase(g) == g[Len(g)].base
ThunksOf(es) == {f \in UNION {{l} \X Ordinals(l) : l \in DOMAIN Libraries} :
                   es[f[1]][f[2]] > NoFunction}

\* Where the loader stands in the objects, in the pages and in the records.
Progress ==
    LET k == Len(mapped)
    IN  /\ vmm # "idle" => pc \in {"mapping", "thunk"}
        /\ pc = "mapping" => k < Len(exe.objs)
        /\ pc \in {"page", "fixup", "thunk"} => k > 0 /\ page <= exe.objs[k].pages
        /\ pc \in {"fixup", "thunk"} => page < exe.objs[k].pages /\ rec > 0
        /\ pc = "thunk" =>
             LET r == RecordsOf(exe, k)[rec]
                 l == LibraryOf(modules, r.mod)
             IN  /\ rec <= Len(RecordsOf(exe, k)) /\ l \in DOMAIN Libraries
                 /\ r.ord \in Ordinals(l) /\ entries[l][r.ord] = Host

\* What the loader waits for, and what it has got.
Request ==
    LET k == Len(mapped)
    IN  /\ pc = "mapping" /\ vmm # "idle" =>
             vbase = exe.objs[k + 1].base /\ nPages = exe.objs[k + 1].size
        /\ pc = "thunk" /\ vmm # "idle" => vbase = ThunkBase /\ nPages = 1
        /\ pc = "mapping" /\ vmm = "idle" =>
             LastBase(granted) .. LastBase(granted) + exe.objs[k + 1].size - 1 \subseteq used
        /\ pc = "thunk" /\ vmm = "idle" =>
             /\ LastBase(granted) > NoFunction /\ LastBase(granted) >= ThunkBase
             /\ LastBase(granted) \in used
             /\ \A f \in ThunksOf(entries) : entries[f[1]][f[2]] # LastBase(granted)

\* A block that is granted and not yet taken.
Pending(p, v) == IF p \in {"mapping", "thunk"} /\ v = "idle" THEN 1 ELSE 0

Granted ==
    /\ IsFiniteSet(ThunksOf(entries))
    /\ Len(granted) = Len(mapped) + Cardinality(ThunksOf(entries)) + Pending(pc, vmm)

Marked ==
    /\ \A i \in 1 .. Len(mapped) : mapped[i] .. mapped[i] + exe.objs[i].size - 1 \subseteq used
    /\ \A f \in ThunksOf(entries) :
          entries[f[1]][f[2]] \in used /\ entries[f[1]][f[2]] >= ThunkBase

(***************************************************************************)
(* Its second part is about the executables a linker makes: objects of at  *)
(* least a page, apart from each other, behind the reserved pages, and     *)
(* below those of the thunks.  Only the pages of objects that are mapped   *)
(* are in use below the thunks, so that the first fit for the next object  *)
(* is where it was linked.                                                 *)
(***************************************************************************)
Span(e, i) == e.objs[i].base .. e.objs[i].base + e.objs[i].size - 1
Linked(e) ==
    /\ \A i \in DOMAIN e.objs :
          /\ e.objs[i].size > 0
          /\ Reserved <= e.objs[i].base /\ e.objs[i].base + e.objs[i].size <= ThunkBase
    /\ \A i, j \in DOMAIN e.objs : i # j => Span(e, i) \cap Span(e, j) = {}

Taken(p, v) == IF p = "mapping" /\ v = "idle" THEN 1 ELSE 0

AsLinked ==
    /\ \A i \in 1 .. Len(mapped) : mapped[i] = exe.objs[i].base
    /\ pc = "mapping" /\ vmm = "idle" => LastBase(granted) = exe.objs[Len(mapped) + 1].base

BelowThunks ==
    \A p \in used : p < ThunkBase =>
        p < Reserved \/ \E i \in 1 .. Len(mapped) + Taken(pc, vmm) : p \in Span(exe, i)

ThunksKept ==
    \A f \in ThunksOf(entries) : mem[entries[f[1]][f[2]]].what = Thunk(f[1], f[2])

\* The pages of an object that are loaded by now.
Written(i, n) ==
    \/ i < Len(mapped) \/ pc \in {"resolve", "map", "mapping", "run"}
    \/ pc \in {"page", "fixup", "thunk"} /\ n < page
    \/ pc \in {"fixup", "thunk"} /\ n = page

Loaded ==
    \A i \in 1 .. Len(mapped) : \A n \in 0 .. exe.objs[i].size - 1 :
        Written(i, n) => mem[exe.objs[i].base + n].what = ObjectPage(i, n)

Kept == Linked(exe) => AsLinked /\ BelowThunks /\ ThunksKept /\ Loaded

LoaderInv == Allocator /\ Types /\ Progress /\ Request /\ Granted /\ Marked

----------------------------------------------------------------------------
\* What the tables of an executable hold.
LEMMA Tables ==
    ASSUME NEW e \in Exes
    PROVE  /\ e.libs \in Seq(STRING) /\ Len(e.libs) \in Nat
           /\ Len(e.objs) \in Nat /\ DOMAIN e.objs = 1 .. Len(e.objs)
           /\ \A i \in 1 .. Len(e.objs) :
                 /\ e.objs[i] \in ObjectTableEntry
                 /\ e.objs[i].base \in Nat /\ e.objs[i].size \in Nat
                 /\ e.objs[i].first \in Nat /\ e.objs[i].pages \in Nat
                 /\ e.objs[i].pages <= e.objs[i].size
                 /\ e.objs[i].pages > 0 => RecordsOf(e, i) \in Seq(FixupRecord)
           /\ e.start.obj \in 0 .. Len(e.objs) /\ e.start.page \in Nat
           /\ e.stack.obj \in 0 .. Len(e.objs) /\ e.stack.page \in Nat \cup {NoStack}
<1>1. e \in Header /\ Consistent(e)
    BY LoaderAssumption
<1>2. /\ e.libs \in Seq(STRING) /\ e.objs \in Seq(ObjectTableEntry) /\ e.table \in Seq(PageTableEntry)
      /\ e.start.obj \in Nat /\ e.start.page \in Nat
      /\ e.stack.obj \in Nat /\ e.stack.page \in Nat \cup {NoStack}
    BY <1>1 DEF Header
<1>3. \A i \in 1 .. Len(e.objs) :
          /\ e.objs[i] \in ObjectTableEntry
          /\ e.objs[i].base \in Nat /\ e.objs[i].size \in Nat
          /\ e.objs[i].first \in Nat /\ e.objs[i].pages \in Nat
    <2>. SUFFICES ASSUME NEW i \in 1 .. Len(e.objs)
                  PROVE  /\ e.objs[i] \in ObjectTableEntry
                         /\ e.objs[i].base \in Nat /\ e.objs[i].size \in Nat
                         /\ e.objs[i].first \in Nat /\ e.objs[i].pages \in Nat
        OBVIOUS
    <2>1. e.objs[i] \in ObjectTableEntry
        BY <1>2
    <2>. QED BY <2>1 DEF ObjectTableEntry
<1>4. ASSUME NEW i \in 1 .. Len(e.objs)
      PROVE  /\ e.objs[i].pages <= e.objs[i].size
             /\ e.objs[i].pages > 0 => RecordsOf(e, i) \in Seq(FixupRecord)
    <2>1. /\ e.objs[i].pages <= e.objs[i].size
          /\ e.objs[i].first .. e.objs[i].first + e.objs[i].pages - 1 \subseteq DOMAIN e.table
        BY <1>1, <1>2 DEF Consistent
    <2>2. e.objs[i].pages > 0 => e.objs[i].first \in DOMAIN e.table
        BY <1>3, <2>1, SMTT(30)
    <2>3. e.objs[i].pages > 0 => e.table[e.objs[i].first] \in PageTableEntry
        BY <1>2, <2>2
    <2>. QED BY <2>1, <2>3 DEF RecordsOf, PageTableEntry
<1>5. e.start.obj <= Len(e.objs) /\ e.stack.obj <= Len(e.objs)
    BY <1>1 DEF Consistent
<1>6. Len(e.libs) \in Nat /\ Len(e.objs) \in Nat /\ DOMAIN e.objs = 1 .. Len(e.objs)
    BY <1>2
<1>7. e.start.obj \in 0 .. Len(e.objs) /\ e.stack.obj \in 0 .. Len(e.objs)
    BY <1>2, <1>5, <1>6
<1>. QED
    BY <1>2, <1>3, <1>4, <1>6, <1>7, Zenon

\* The numbers in the invariant.
LEMMA Numbers ==
    ASSUME LoaderInv
    PROVE  /\ exe \in Exes
           /\ Len(mapped) \in Nat /\ Len(mapped) <= Len(exe.objs)
           /\ \A i \in 1 .. Len(mapped) : mapped[i] \in VMM!Page /\ mapped[i] \in Nat
           /\ page \in Nat /\ rec \in Nat
           /\ Len(granted) \in Nat
           /\ granted \in Seq([wanted : Nat, base : VMM!Page, pages : Nat])
           /\ used \subseteq VMM!Page
<1>1. Allocator /\ Types
    BY DEF LoaderInv
<1>2. exe \in Exes /\ mapped \in Seq(VMM!Page) /\ Len(mapped) <= Len(exe.objs)
    BY <1>1 DEF Types
<1>3. page \in Nat /\ rec \in Nat
    BY <1>1 DEF Types
<1>4. granted \in Seq([wanted : Nat, base : VMM!Page, pages : Nat]) /\ used \subseteq VMM!Page
    BY <1>1, AllocatorTypes
<1>5. Len(granted) \in Nat /\ Len(mapped) \in Nat
    BY <1>2, <1>4
<1>6. \A i \in 1 .. Len(mapped) : mapped[i] \in VMM!Page /\ mapped[i] \in Nat
    <2>1. \A i \in 1 .. Len(mapped) : mapped[i] \in VMM!Page
        BY <1>2
    <2>. QED BY <2>1, Bitmap
<1>. QED
    BY <1>2, <1>3, <1>4, <1>5, <1>6

\* Steps between which the allocator is not called.
LEMMA QuietStep ==
    ASSUME LoaderInv, UNCHANGED <<vmmVars, exe, entries, mapped>>, Types',
           pc \notin {"mapping", "thunk"}, pc' \notin {"mapping", "thunk"},
           pc' \in {"page", "fixup"} =>
               Len(mapped) > 0 /\ page' <= exe.objs[Len(mapped)].pages,
           pc' = "fixup" => page' < exe.objs[Len(mapped)].pages /\ rec' > 0
    PROVE  LoaderInv'
<1>1. Allocator'
    BY AllocatorStays DEF LoaderInv
<1>2. vmm = "idle" /\ vmm' = "idle"
    <2>1. vmm = "idle"
        BY DEF LoaderInv, Progress
    <2>. QED BY <2>1 DEF vmmVars
<1>3. Progress'
    BY <1>2 DEF Progress
<1>4. Request'
    BY DEF Request
<1>5. Granted'
    BY DEF LoaderInv, Granted, Pending, vmmVars
<1>6. Marked'
    BY DEF LoaderInv, Marked, vmmVars
<1>. QED
    BY <1>1, <1>3, <1>4, <1>5, <1>6 DEF LoaderInv

\* It holds when LoadLX is called.
LEMMA LoaderInit ==
    ASSUME Init
    PROVE  LoaderInv
<1>1. /\ Allocator /\ vmm = "idle" /\ granted = <<>>
      /\ exe \in Exes /\ pc = "resolve" /\ modules = <<>> /\ mapped = <<>> /\ page = 0 /\ rec = 0
      /\ mem = [p \in VMM!Page |-> Fresh(Raw)] /\ eip = 0 /\ esp = 0
    BY AllocatorInit DEF Init
<1>2. PICK past \in [DOMAIN Libraries -> {NoFunction, Host}] : entries = TableWith(past)
    BY DEF Init
<1>3. /\ DOMAIN entries = DOMAIN Libraries
      /\ \A l \in DOMAIN Libraries : entries[l] \in [Ordinals(l) -> {NoFunction, Host}]
    BY <1>2 DEF TableWith
<1>4. 0 \in VMM!Page /\ VMM!Page \subseteq Nat
    BY Bitmap
<1>5. ThunksOf(entries) = {}
    BY <1>3 DEF ThunksOf, NoFunction, Host
<1>6. mem \in [VMM!Page -> PageContent]
    <2>1. Fresh(Raw) \in PageContent
        BY DEF Fresh, PageContent, Content
    <2>. QED BY <1>1, <2>1
<1>7. Types
    <2>1. modules \in Seq(DOMAIN Libraries \cup {Missing}) /\ mapped \in Seq(VMM!Page)
        BY <1>1
    <2>2. Len(modules) = 0 /\ Len(mapped) = 0
        BY <1>1
    <2>3. Len(exe.libs) \in Nat /\ Len(exe.objs) \in Nat
        BY <1>1, Tables
    <2>4. \A l \in DOMAIN Libraries : entries[l] \in [Ordinals(l) -> VMM!Page \cup {Host}]
        BY <1>3, <1>4 DEF NoFunction
    <2>. QED BY <1>1, <1>3, <1>6, <2>1, <2>2, <2>3, <2>4 DEF Types
<1>8. Len(mapped) = 0 /\ Len(granted) = 0
    BY <1>1
<1>9. Progress /\ Request
    BY <1>1 DEF Progress, Request
<1>10. Granted
    <2>1. IsFiniteSet(ThunksOf(entries)) /\ Cardinality(ThunksOf(entries)) = 0
        BY <1>5, FS_EmptySet
    <2>. QED BY <1>1, <1>8, <2>1 DEF Granted, Pending
<1>11. Marked
    BY <1>5, <1>8 DEF Marked
<1>. QED
    BY <1>1, <1>7, <1>9, <1>10, <1>11 DEF LoaderInv

----------------------------------------------------------------------------
\* The steps of the loader.
LEMMA ResolveStep ==
    ASSUME LoaderInv, ResolveImport \/ ResolveEnd
    PROVE  LoaderInv'
<1>1. /\ pc = "resolve" /\ pc' \in {"resolve", "map"}
      /\ UNCHANGED <<vmmVars, exe, entries, mapped, page, rec, mem, eip, esp>>
    BY DEF ResolveImport, ResolveEnd, placeVars
<1>2. Types
    BY DEF LoaderInv
<1>3. modules' \in Seq(DOMAIN Libraries \cup {Missing}) /\ Len(modules') <= Len(exe.libs)
    <2>1. /\ modules \in Seq(DOMAIN Libraries \cup {Missing}) /\ Len(modules) <= Len(exe.libs)
          /\ exe \in Exes
        BY <1>2 DEF Types
    <2>2. Len(exe.libs) \in Nat
        BY <2>1, Tables
    <2>3. CASE ResolveImport
        <3>1. PICK m \in DOMAIN Libraries \cup {Missing} : modules' = Append(modules, m)
            BY <2>3 DEF ResolveImport
        <3>2. Len(modules) < Len(exe.libs)
            BY <2>3 DEF ResolveImport
        <3>. QED BY <2>1, <2>2, <3>1, <3>2
    <2>4. CASE ResolveEnd
        BY <2>1, <2>4 DEF ResolveEnd
    <2>. QED BY <2>3, <2>4
<1>4. Types'
    BY <1>1, <1>2, <1>3 DEF Types
<1>. QED
    BY <1>1, <1>4, QuietStep

\* The program is launched, or there is no stack for it.
LEMMA LaunchStep ==
    ASSUME LoaderInv, Launch
    PROVE  LoaderInv'
<1>1. /\ pc = "map" /\ pc' \in {"run", "exit"}
      /\ UNCHANGED <<vmmVars, exe, modules, entries, mapped, page, rec, mem>>
    BY DEF Launch
<1>2. Types
    BY DEF LoaderInv
<1>3. eip' \in Nat /\ esp' \in Nat
    <2>1. eip \in Nat /\ esp \in Nat /\ exe \in Exes
        BY <1>2 DEF Types
    <2>2. CASE exe.stack.page = NoStack
        BY <2>1, <2>2 DEF Launch
    <2>3. CASE exe.stack.page # NoStack
        <3>1. /\ exe.start.obj \in 0 .. Len(exe.objs) /\ exe.start.page \in Nat
              /\ exe.stack.obj \in 0 .. Len(exe.objs) /\ exe.stack.page \in Nat
            BY <2>1, <2>3, Tables
        <3>2. \A i \in 1 .. Len(exe.objs) : exe.objs[i].base \in Nat
            BY <2>1, Tables
        <3>3. Address(exe.start) \in Nat /\ Address(exe.stack) \in Nat
            <4>1. ASSUME NEW a, a.obj \in 0 .. Len(exe.objs), a.page \in Nat
                  PROVE  Address(a) \in Nat
                <5>1. CASE a.obj = 0
                    BY <4>1, <5>1 DEF Address
                <5>2. CASE a.obj # 0
                    <6>1. Len(exe.objs) \in Nat
                        BY <2>1, Tables
                    <6>2. a.obj \in 1 .. Len(exe.objs)
                        BY <4>1, <5>2, <6>1
                    <6>3. exe.objs[a.obj].base \in Nat
                        BY <3>2, <6>2
                    <6>. QED BY <4>1, <5>2, <6>3 DEF Address
                <5>. QED BY <5>1, <5>2
            <4>. QED BY <3>1, <4>1
        <3>. QED BY <2>3, <3>3 DEF Launch
    <2>. QED BY <2>2, <2>3
<1>4. Types'
    BY <1>1, <1>2, <1>3 DEF Types
<1>. QED
    BY <1>1, <1>4, QuietStep

\* Loading stops at what the loader does not know.
LEMMA StopStep ==
    ASSUME LoaderInv, LoadUnknown \/ FixupMissing \/ FixupUnsupported
    PROVE  LoaderInv'
<1>1. /\ pc \in {"page", "fixup"} /\ pc' \in {"exit", "crash"}
      /\ UNCHANGED <<vmmVars, exe, modules, entries, mapped, page, rec, mem, eip, esp>>
    BY DEF LoadUnknown, FixupMissing, FixupUnsupported, AtFixup
<1>2. Types'
    BY <1>1 DEF LoaderInv, Types
<1>. QED
    BY <1>1, <1>2, QuietStep

\* The records of a page are through: on to the next page.
LEMMA FixupEndStep ==
    ASSUME LoaderInv, FixupEnd
    PROVE  LoaderInv'
<1>1. /\ pc = "fixup" /\ pc' = "page" /\ page' = page + 1 /\ rec' = 0
      /\ UNCHANGED <<vmmVars, exe, modules, entries, mapped, mem, eip, esp>>
    BY DEF FixupEnd
<1>2. Types'
    BY <1>1 DEF LoaderInv, Types
<1>3. Len(mapped) > 0 /\ page < exe.objs[Len(mapped)].pages
    BY <1>1 DEF LoaderInv, Progress
<1>4. page' <= exe.objs[Len(mapped)].pages
    <2>1. exe.objs[Len(mapped)].pages \in Nat
        BY <1>3, Numbers, Tables
    <2>. QED BY <1>1, <1>3, <2>1, Numbers
<1>. QED
    BY <1>1, <1>2, <1>3, <1>4, QuietStep

\* What a step writes to memory keeps its type.
LEMMA FreshPage ==
    ASSUME NEW c \in Content
    PROVE  Fresh(c) \in PageContent
BY DEF Fresh, PageContent

\* A page is copied from the file.
LEMMA LoadPageStep ==
    ASSUME LoaderInv, LoadPage
    PROVE  LoaderInv'
<1>1. /\ pc = "page" /\ page < Object.pages /\ pc' = "fixup" /\ rec' = 1
      /\ mem' = [mem EXCEPT ![Dst] = Fresh(ObjectPage(Number, page))]
      /\ UNCHANGED <<vmmVars, exe, modules, entries, mapped, page, eip, esp>>
    BY DEF LoadPage
<1>2. Types /\ Len(mapped) \in Nat /\ page \in Nat
    BY Numbers DEF LoaderInv
<1>3. Len(mapped) > 0 /\ page < exe.objs[Len(mapped)].pages
    BY <1>1 DEF LoaderInv, Progress, Object, Number
<1>4. mem' \in [VMM!Page -> PageContent]
    <2>1. Fresh(ObjectPage(Number, page)) \in PageContent
        BY <1>2, FreshPage DEF Content, Number
    <2>2. mem \in [VMM!Page -> PageContent]
        BY <1>2 DEF Types
    <2>. QED BY <1>1, <2>1, <2>2
<1>5. Types'
    BY <1>1, <1>2, <1>4 DEF Types
<1>6. page' <= exe.objs[Len(mapped)].pages /\ page' < exe.objs[Len(mapped)].pages
    <2>1. exe.objs[Len(mapped)].pages \in Nat
        BY <1>3, Numbers, Tables
    <2>. QED BY <1>1, <1>2, <1>3, <2>1
<1>. QED
    BY <1>1, <1>3, <1>5, <1>6, QuietStep

\* The pages that are not in the file are cleared.
LEMMA ClearRestStep ==
    ASSUME LoaderInv, ClearRest
    PROVE  LoaderInv'
<1>1. /\ pc = "page" /\ pc' = "map" /\ page' = 0
      /\ UNCHANGED <<vmmVars, exe, modules, entries, mapped, rec, eip, esp>>
    BY DEF ClearRest
<1>2. Types /\ Len(mapped) \in Nat /\ page \in Nat
    BY Numbers DEF LoaderInv
<1>3. Len(mapped) > 0
    BY <1>1 DEF LoaderInv, Progress
<1>4. mem' \in [VMM!Page -> PageContent]
    <2>1. mapped[Len(mapped)] \in Nat
        BY <1>2, <1>3, Numbers
    <2>2. ASSUME NEW p \in Dst .. mapped[Number] + Object.size - 1
          PROVE  Fresh(ObjectPage(Number, p - mapped[Number])) \in PageContent
        <3>1. p - mapped[Number] \in Nat
            BY <1>2, <2>1 DEF Dst, Number
        <3>. QED BY <1>2, <3>1, FreshPage DEF Content, Number
    <2>3. mem \in [VMM!Page -> PageContent]
        BY <1>2 DEF Types
    <2>. QED BY <2>2, <2>3 DEF ClearRest
<1>5. Types'
    BY <1>1, <1>2, <1>4 DEF Types
<1>. QED
    BY <1>1, <1>3, <1>5, QuietStep

\* The record at hand is one of the page table's.
LEMMA AtRecord ==
    ASSUME LoaderInv, pc \in {"fixup", "thunk"}, rec <= Len(Records)
    PROVE  /\ Len(mapped) > 0 /\ page < exe.objs[Len(mapped)].pages
           /\ Records = RecordsOf(exe, Len(mapped)) /\ Records \in Seq(FixupRecord)
           /\ rec \in 1 .. Len(Records)
           /\ Fixup = RecordsOf(exe, Len(mapped))[rec] /\ Fixup \in FixupRecord
           /\ Library = LibraryOf(modules, Fixup.mod)
           /\ Library \in DOMAIN Libraries \cup {Missing}
<1>1. Len(mapped) > 0 /\ page < exe.objs[Len(mapped)].pages /\ rec > 0
    BY DEF LoaderInv, Progress
<1>2. Len(mapped) \in 1 .. Len(exe.objs) /\ exe \in Exes /\ page \in Nat /\ rec \in Nat
    BY <1>1, Numbers, Tables
<1>3. exe.objs[Len(mapped)].pages > 0
    <2>1. exe.objs[Len(mapped)].pages \in Nat
        BY <1>2, Tables
    <2>. QED BY <1>1, <1>2, <2>1
<1>4. Records = RecordsOf(exe, Len(mapped)) /\ Records \in Seq(FixupRecord)
    BY <1>2, <1>3, Tables DEF Records, Object, Number, RecordsOf
<1>5. rec \in 1 .. Len(Records)
    <2>1. Len(Records) \in Nat
        BY <1>4
    <2>. QED BY <1>1, <1>2, <2>1
<1>6. Fixup = RecordsOf(exe, Len(mapped))[rec] /\ Fixup \in FixupRecord
    BY <1>4, <1>5 DEF Fixup
<1>7. Library = LibraryOf(modules, Fixup.mod)
    BY DEF Library, Module, LibraryOf
<1>8. Library \in DOMAIN Libraries \cup {Missing}
    BY DEF Library, Module, LoaderInv, Types
<1>. QED
    BY <1>1, <1>4, <1>5, <1>6, <1>7, <1>8

\* What is read from the table of a library that was found.
LEMMA EntryRead ==
    ASSUME LoaderInv, pc = "fixup", HasEntry, Entry # NoFunction
    PROVE  /\ Library \in DOMAIN Libraries
           /\ Fixup.ord \in Ordinals(Library)
           /\ Entry = entries[Library][Fixup.ord]
           /\ Entry \in VMM!Page \cup {Host}
<1>1. rec <= Len(Records) /\ Library # Missing
    BY DEF HasEntry, AtFixup
<1>2. Library \in DOMAIN Libraries /\ Fixup \in FixupRecord
    BY <1>1, AtRecord
<1>3. Fixup.ord \in Nat /\ Libraries[Library] \in Nat
    BY <1>2, LoaderAssumption DEF FixupRecord
<1>4. Fixup.ord \in Ordinals(Library) /\ Entry = entries[Library][Fixup.ord]
    BY <1>3 DEF Entry, Ordinals
<1>5. entries[Library] \in [Ordinals(Library) -> VMM!Page \cup {Host}]
    BY <1>2 DEF LoaderInv, Types
<1>. QED
    BY <1>2, <1>4, <1>5

\* Fixups that are applied patch the page at hand with the number of a page.
LEMMA Patches ==
    ASSUME LoaderInv, FixupInternal \/ FixupInvalid \/ FixupThunked
    PROVE  \E value \in VMM!Page : pc = "fixup" /\ rec <= Len(Records) /\ doFixup(value)
<1>1. pc = "fixup" /\ rec <= Len(Records)
    BY DEF FixupInternal, FixupInvalid, FixupThunked, HasEntry, AtFixup
<1>2. CASE FixupInternal \/ FixupInvalid
    BY <1>1, <1>2, Bitmap DEF FixupInternal, FixupInvalid
<1>3. CASE FixupThunked
    <2>1. HasEntry /\ Entry # NoFunction /\ Entry # Host /\ doFixup(Entry)
        BY <1>3 DEF FixupThunked
    <2>2. Entry \in VMM!Page
        BY <1>1, <2>1, EntryRead
    <2>. QED BY <1>1, <2>1, <2>2
<1>. QED
    BY <1>2, <1>3

\* A fixup that needs no thunk is applied.
LEMMA PatchStep ==
    ASSUME LoaderInv, FixupInternal \/ FixupInvalid \/ FixupThunked
    PROVE  LoaderInv'
<1>1. PICK value \in VMM!Page : pc = "fixup" /\ rec <= Len(Records) /\ doFixup(value)
    BY Patches
<1>2. /\ rec' = rec + 1
      /\ UNCHANGED <<vmmVars, pc, mapped, page, exe, modules, entries, eip, esp>>
      /\ mem' = [mem EXCEPT ![Dst].fix =
                   [o \in Offsets |-> IF o \in Fixup.at /\ (value # 0 \/ Fixup.self)
                                      THEN value ELSE mem[Dst].fix[o]]]
    BY <1>1 DEF doFixup
<1>3. Types /\ rec \in Nat
    BY Numbers DEF LoaderInv
<1>4. mem' \in [VMM!Page -> PageContent]
    <2>1. mem \in [VMM!Page -> PageContent]
        BY <1>3 DEF Types
    <2>2. CASE Dst \in VMM!Page
        <3>1. mem[Dst] \in PageContent
            BY <2>1, <2>2
        <3>. DEFINE fix == [o \in Offsets |-> IF o \in Fixup.at /\ (value # 0 \/ Fixup.self)
                                              THEN value ELSE mem[Dst].fix[o]]
        <3>2. fix \in [Offsets -> VMM!Page \cup {Unpatched}]
            BY <3>1 DEF PageContent
        <3>. HIDE DEF fix
        <3>3. [mem[Dst] EXCEPT !.fix = fix] \in PageContent
            BY <3>1, <3>2 DEF PageContent
        <3>4. mem' = [mem EXCEPT ![Dst] = [mem[Dst] EXCEPT !.fix = fix]]
            BY <1>2 DEF fix
        <3>. QED BY <2>1, <3>3, <3>4
    <2>3. CASE Dst \notin VMM!Page
        BY <1>2, <2>1, <2>3
    <2>. QED BY <2>2, <2>3
<1>5. Types'
    BY <1>1, <1>2, <1>3, <1>4 DEF Types
<1>6. Len(mapped) > 0 /\ page < exe.objs[Len(mapped)].pages /\ rec > 0
    BY <1>1 DEF LoaderInv, Progress
<1>7. page <= exe.objs[Len(mapped)].pages /\ rec' > 0
    <2>1. exe.objs[Len(mapped)].pages \in Nat
        BY <1>6, Numbers, Tables
    <2>. QED BY <1>2, <1>3, <1>6, <2>1, Numbers
<1>. QED
    BY <1>1, <1>2, <1>5, <1>6, <1>7, QuietStep

\* The next object is asked for.
LEMMA MapObjectStep ==
    ASSUME LoaderInv, MapObject
    PROVE  LoaderInv'
<1>. DEFINE k == Len(mapped) + 1
<1>1. /\ pc = "map" /\ pc' = "mapping" /\ Len(mapped) < Len(exe.objs)
      /\ VMM!VMMAllocPages(exe.objs[k].base, exe.objs[k].size)
      /\ UNCHANGED <<exe, modules, entries, mapped, page, rec, mem, eip, esp>>
    BY DEF MapObject
<1>2. exe.objs[k].base \in Nat /\ exe.objs[k].size \in Nat
    <2>1. k \in 1 .. Len(exe.objs) /\ exe \in Exes
        BY <1>1, Numbers, Tables
    <2>. QED BY <2>1, Tables
<1>3. /\ Allocator'
      /\ vmm = "idle" /\ vmm' = "scan" /\ vbase' = exe.objs[k].base /\ nPages' = exe.objs[k].size
      /\ UNCHANGED <<used, granted>>
    BY <1>1, <1>2, AllocatorCall DEF LoaderInv
<1>4. Types'
    BY <1>1 DEF LoaderInv, Types
<1>5. Progress'
    BY <1>1, <1>3 DEF Progress
<1>6. Request'
    BY <1>1, <1>3 DEF Request
<1>7. Granted'
    BY <1>1, <1>3 DEF LoaderInv, Granted, Pending
<1>8. Marked'
    BY <1>1, <1>3 DEF LoaderInv, Marked
<1>. QED
    BY <1>3, <1>4, <1>5, <1>6, <1>7, <1>8 DEF LoaderInv

\* The last element of a sequence is one of its set.
LEMMA LastElement ==
    ASSUME NEW S, NEW s \in Seq(S), Len(s) > 0
    PROVE  s[Len(s)] \in S
OBVIOUS

\* A block that was waited for is there.
LEMMA BlockCame ==
    ASSUME LoaderInv, pc \in {"mapping", "thunk"}, vmm = "idle"
    PROVE  /\ Len(granted) \in Nat /\ Len(granted) > 0
           /\ Returned = LastBase(granted) /\ Returned \in VMM!Page /\ Returned \in Nat
<1>1. /\ Len(granted) = Len(mapped) + Cardinality(ThunksOf(entries)) + 1
      /\ Cardinality(ThunksOf(entries)) \in Nat
    BY FS_CardinalityType DEF LoaderInv, Granted, Pending
<1>2. Len(granted) > 0 /\ Len(granted) \in Nat
    BY <1>1, Numbers
<1>3. granted[Len(granted)] \in [wanted : Nat, base : VMM!Page, pages : Nat]
    <2>1. granted \in Seq([wanted : Nat, base : VMM!Page, pages : Nat])
        BY Numbers
    <2>. QED BY <1>2, <2>1, LastElement
<1>. QED
    BY <1>2, <1>3, Bitmap DEF Returned, LastBase

\* The object's pages were granted, and their base is taken.
LEMMA ObjectMappedStep ==
    ASSUME LoaderInv, ObjectMapped
    PROVE  LoaderInv'
<1>. DEFINE k == Len(mapped) + 1
<1>1. /\ pc = "mapping" /\ vmm = "idle" /\ pc' = "page" /\ page' = 0
      /\ mapped' = Append(mapped, Returned)
      /\ UNCHANGED <<vmmVars, exe, modules, entries, rec, mem, eip, esp>>
    BY DEF ObjectMapped
<1>2. Types /\ Len(mapped) \in Nat /\ Len(mapped) < Len(exe.objs)
    BY <1>1, Numbers DEF LoaderInv, Progress
<1>3. Returned = LastBase(granted) /\ Returned \in VMM!Page
    BY <1>1, BlockCame
<1>4. /\ mapped' \in Seq(VMM!Page) /\ Len(mapped') = k /\ mapped'[k] = Returned
      /\ \A i \in 1 .. Len(mapped) : mapped'[i] = mapped[i]
    <2>1. mapped \in Seq(VMM!Page)
        BY <1>2 DEF Types
    <2>. QED BY <1>1, <1>3, <2>1
<1>5. k <= Len(exe.objs) /\ exe.objs[k].pages \in Nat
    <2>1. k \in 1 .. Len(exe.objs)
        BY <1>2, Numbers, Tables
    <2>. QED BY <2>1, Numbers, Tables
<1>6. Types'
    BY <1>1, <1>2, <1>4, <1>5 DEF Types
<1>7. Allocator'
    BY <1>1, AllocatorStays DEF LoaderInv
<1>8. vmm' = "idle"
    BY <1>1 DEF vmmVars
<1>9. Progress'
    <2>1. Len(mapped') > 0 /\ page' <= exe'.objs[Len(mapped')].pages
        BY <1>1, <1>2, <1>4, <1>5
    <2>. QED BY <1>1, <1>8, <2>1 DEF Progress
<1>10. Request'
    BY <1>1 DEF Request
<1>11. Granted'
    <2>1. /\ IsFiniteSet(ThunksOf(entries))
          /\ Len(granted) = Len(mapped) + Cardinality(ThunksOf(entries)) + 1
        BY <1>1 DEF LoaderInv, Granted, Pending
    <2>2. Cardinality(ThunksOf(entries)) \in Nat
        BY <2>1, FS_CardinalityType
    <2>3. Pending(pc', vmm') = 0 /\ granted' = granted /\ entries' = entries
        BY <1>1 DEF Pending, vmmVars
    <2>4. Len(granted) = Len(mapped') + Cardinality(ThunksOf(entries)) + 0
        BY <1>2, <1>4, <2>1, <2>2
    <2>. QED BY <2>1, <2>3, <2>4 DEF Granted
<1>12. Marked'
    <2>1. used' = used /\ exe' = exe /\ entries' = entries
        BY <1>1 DEF vmmVars
    <2>2. Returned .. Returned + exe.objs[k].size - 1 \subseteq used
        BY <1>1, <1>3 DEF LoaderInv, Request
    <2>3. ASSUME NEW i \in 1 .. Len(mapped')
          PROVE  mapped'[i] .. mapped'[i] + exe.objs[i].size - 1 \subseteq used
        <3>1. CASE i = k
            BY <1>4, <2>2, <3>1
        <3>2. CASE i # k
            <4>1. i \in 1 .. Len(mapped)
                BY <1>2, <1>4, <3>2
            <4>. QED BY <1>4, <4>1 DEF LoaderInv, Marked
        <3>. QED BY <3>1, <3>2
    <2>4. \A f \in ThunksOf(entries) :
              entries[f[1]][f[2]] \in used /\ entries[f[1]][f[2]] >= ThunkBase
        BY DEF LoaderInv, Marked
    <2>. QED BY <2>1, <2>3, <2>4 DEF Marked
<1>. QED
    BY <1>6, <1>7, <1>9, <1>10, <1>11, <1>12 DEF LoaderInv

\* A page is asked for a thunk.
LEMMA GenerateThunkStep ==
    ASSUME LoaderInv, GenerateThunk
    PROVE  LoaderInv'
<1>1. /\ pc = "fixup" /\ pc' = "thunk" /\ rec <= Len(Records)
      /\ HasEntry /\ Entry = Host /\ VMM!VMMAllocPages(ThunkBase, 1)
      /\ UNCHANGED <<exe, modules, entries, mapped, page, rec, mem, eip, esp>>
    BY DEF GenerateThunk, HasEntry, AtFixup
<1>2. /\ Allocator'
      /\ vmm = "idle" /\ vmm' = "scan" /\ vbase' = ThunkBase /\ nPages' = 1
      /\ UNCHANGED <<used, granted>>
    BY <1>1, Bitmap, AllocatorCall DEF LoaderInv
<1>3. Types'
    BY <1>1 DEF LoaderInv, Types
<1>4. Progress'
    <2>. DEFINE k == Len(mapped)
                r == RecordsOf(exe, k)[rec]
                l == LibraryOf(modules, r.mod)
    <2>1. /\ k > 0 /\ page < exe.objs[k].pages /\ page <= exe.objs[k].pages
          /\ rec > 0
        BY <1>1 DEF LoaderInv, Progress
    <2>2. /\ Records = RecordsOf(exe, k) /\ Fixup = r /\ Library = l
        BY <1>1, AtRecord
    <2>3. /\ Library \in DOMAIN Libraries
          /\ Fixup.ord \in Ordinals(Library)
          /\ entries[Library][Fixup.ord] = Host
        <3>1. Entry # NoFunction
            BY <1>1 DEF NoFunction, Host
        <3>. QED BY <1>1, <3>1, EntryRead
    <2>4. /\ rec <= Len(RecordsOf(exe, k)) /\ l \in DOMAIN Libraries
          /\ r.ord \in Ordinals(l) /\ entries[l][r.ord] = Host
        BY <1>1, <2>2, <2>3
    <2>. HIDE DEF r, l
    <2>5. /\ rec' <= Len(RecordsOf(exe', Len(mapped')))
          /\ LibraryOf(modules', RecordsOf(exe', Len(mapped'))[rec'].mod) \in DOMAIN Libraries
          /\ RecordsOf(exe', Len(mapped'))[rec'].ord
               \in Ordinals(LibraryOf(modules', RecordsOf(exe', Len(mapped'))[rec'].mod))
          /\ entries'[LibraryOf(modules', RecordsOf(exe', Len(mapped'))[rec'].mod)]
                     [RecordsOf(exe', Len(mapped'))[rec'].ord] = Host
        BY <1>1, <2>4 DEF r, l
    <2>. QED BY <1>1, <1>2, <2>1, <2>5 DEF Progress
<1>5. Request'
    BY <1>1, <1>2 DEF Request
<1>6. Granted'
    BY <1>1, <1>2 DEF LoaderInv, Granted, Pending
<1>7. Marked'
    BY <1>1, <1>2 DEF LoaderInv, Marked
<1>. QED
    BY <1>2, <1>3, <1>4, <1>5, <1>6, <1>7 DEF LoaderInv

\* The function whose thunk was waited for had none, and has one now.
LEMMA NewThunk ==
    ASSUME LoaderInv, ThunkMade
    PROVE  /\ Library \in DOMAIN Libraries /\ Fixup.ord \in Ordinals(Library)
           /\ Returned \in VMM!Page /\ Returned > NoFunction /\ Returned = LastBase(granted)
           /\ DOMAIN entries' = DOMAIN Libraries
           /\ \A l \in DOMAIN Libraries : entries'[l] \in [Ordinals(l) -> VMM!Page \cup {Host}]
           /\ \A l \in DOMAIN Libraries : \A n \in Ordinals(l) :
                 entries'[l][n] = IF l = Library /\ n = Fixup.ord THEN Returned ELSE entries[l][n]
           /\ <<Library, Fixup.ord>> \notin ThunksOf(entries)
           /\ ThunksOf(entries') = ThunksOf(entries) \cup {<<Library, Fixup.ord>>}
<1>1. /\ pc = "thunk" /\ vmm = "idle"
      /\ entries' = [entries EXCEPT ![Library][Fixup.ord] = Returned]
    BY DEF ThunkMade
<1>2. Returned = LastBase(granted) /\ Returned \in VMM!Page
    BY <1>1, BlockCame
<1>3. Returned > NoFunction
    BY <1>1, <1>2 DEF LoaderInv, Request
<1>4. /\ Library \in DOMAIN Libraries /\ Fixup.ord \in Ordinals(Library)
      /\ entries[Library][Fixup.ord] = Host
    <2>1. Fixup = RecordsOf(exe, Len(mapped))[rec] /\ Library = LibraryOf(modules, Fixup.mod)
        BY DEF Fixup, Records, Object, Number, RecordsOf, Library, Module, LibraryOf
    <2>. QED BY <1>1, <2>1 DEF LoaderInv, Progress
<1>5. /\ DOMAIN entries = DOMAIN Libraries
      /\ \A l \in DOMAIN Libraries : entries[l] \in [Ordinals(l) -> VMM!Page \cup {Host}]
    BY DEF LoaderInv, Types
<1>. DEFINE L == Library
            N == Fixup.ord
            R == Returned
<1>6. /\ L \in DOMAIN Libraries /\ N \in Ordinals(L) /\ entries[L][N] = Host
      /\ R \in VMM!Page /\ R > NoFunction
      /\ entries' = [entries EXCEPT ![L] = [entries[L] EXCEPT ![N] = R]]
    BY <1>1, <1>2, <1>3, <1>4
<1>. HIDE DEF L, N, R
<1>7. DOMAIN entries' = DOMAIN Libraries
    BY <1>5, <1>6
<1>8. \A l \in DOMAIN Libraries : entries'[l] \in [Ordinals(l) -> VMM!Page \cup {Host}]
    BY <1>5, <1>6
<1>9. \A l \in DOMAIN Libraries : \A n \in Ordinals(l) :
          entries'[l][n] = IF l = L /\ n = N THEN R ELSE entries[l][n]
    BY <1>5, <1>6
<1>10. <<L, N>> \notin ThunksOf(entries)
    BY <1>6 DEF ThunksOf, NoFunction, Host
<1>11. ThunksOf(entries') = ThunksOf(entries) \cup {<<L, N>>}
    <2>. DEFINE F == UNION {{l} \X Ordinals(l) : l \in DOMAIN Libraries}
    <2>1. <<L, N>> \in F
        BY <1>6
    <2>2. ASSUME NEW f \in F
          PROVE  f \in ThunksOf(entries') <=> f \in ThunksOf(entries) \/ f = <<L, N>>
        <3>1. PICK l \in DOMAIN Libraries : \E n \in Ordinals(l) : f = <<l, n>>
            OBVIOUS
        <3>2. PICK n \in Ordinals(l) : f = <<l, n>>
            BY <3>1
        <3>3. f \in ThunksOf(entries') <=> entries'[l][n] > NoFunction
            BY <3>2 DEF ThunksOf
        <3>4. f \in ThunksOf(entries) <=> entries[l][n] > NoFunction
            BY <3>2 DEF ThunksOf
        <3>5. CASE l = L /\ n = N
            BY <1>6, <1>9, <3>2, <3>3, <3>5
        <3>6. CASE ~(l = L /\ n = N)
            BY <1>9, <3>2, <3>3, <3>4, <3>6
        <3>. QED BY <3>5, <3>6
    <2>3. ThunksOf(entries') \subseteq F /\ ThunksOf(entries) \subseteq F
        BY DEF ThunksOf
    <2>. HIDE DEF F
    <2>. QED BY <2>1, <2>2, <2>3
<1>. QED
    BY <1>2, <1>3, <1>4, <1>7, <1>8, <1>9, <1>10, <1>11 DEF L, N, R

\* The thunk is written, its place taken, and the fixup applied.
LEMMA ThunkMadeStep ==
    ASSUME LoaderInv, ThunkMade
    PROVE  LoaderInv'
<1>1. /\ pc = "thunk" /\ vmm = "idle" /\ pc' = "fixup"
      /\ mem' = [mem EXCEPT ![Returned] = Fresh(Thunk(Library, Fixup.ord))]
      /\ UNCHANGED <<vmmVars, exe, modules, mapped, page, rec, eip, esp>>
    BY DEF ThunkMade
<1>2. /\ Library \in DOMAIN Libraries /\ Fixup.ord \in Ordinals(Library)
      /\ Returned \in VMM!Page /\ Returned > NoFunction /\ Returned = LastBase(granted)
    BY NewThunk
<1>3. Types'
    <2>1. Fixup.ord \in Nat
        BY <1>2, LoaderAssumption DEF Ordinals
    <2>2. Fresh(Thunk(Library, Fixup.ord)) \in PageContent
        BY <1>2, <2>1, FreshPage DEF Content
    <2>3. mem \in [VMM!Page -> PageContent]
        BY DEF LoaderInv, Types
    <2>4. mem' \in [VMM!Page -> PageContent]
        BY <1>1, <2>2, <2>3
    <2>5. /\ DOMAIN entries' = DOMAIN Libraries
          /\ \A l \in DOMAIN Libraries : entries'[l] \in [Ordinals(l) -> VMM!Page \cup {Host}]
        BY NewThunk
    <2>. QED BY <1>1, <2>4, <2>5 DEF LoaderInv, Types
<1>4. Allocator' /\ vmm' = "idle"
    BY <1>1, AllocatorStays DEF LoaderInv, vmmVars
<1>5. Progress'
    BY <1>1, <1>4 DEF LoaderInv, Progress
<1>6. Request'
    BY <1>1 DEF Request
<1>7. Granted'
    <2>1. /\ IsFiniteSet(ThunksOf(entries))
          /\ Len(granted) = Len(mapped) + Cardinality(ThunksOf(entries)) + 1
        BY <1>1 DEF LoaderInv, Granted, Pending
    <2>2. /\ <<Library, Fixup.ord>> \notin ThunksOf(entries)
          /\ ThunksOf(entries') = ThunksOf(entries) \cup {<<Library, Fixup.ord>>}
        BY NewThunk
    <2>3. /\ IsFiniteSet(ThunksOf(entries'))
          /\ Cardinality(ThunksOf(entries')) = Cardinality(ThunksOf(entries)) + 1
        BY <2>1, <2>2, FS_AddElement
    <2>4. Pending(pc', vmm') = 0 /\ granted' = granted /\ mapped' = mapped
        BY <1>1 DEF Pending, vmmVars
    <2>5. Cardinality(ThunksOf(entries)) \in Nat /\ Len(mapped) \in Nat
        BY <2>1, FS_CardinalityType, Numbers
    <2>6. Len(granted) = Len(mapped) + Cardinality(ThunksOf(entries')) + 0
        BY <2>1, <2>3, <2>5
    <2>. QED BY <2>3, <2>4, <2>6 DEF Granted
<1>8. Marked'
    <2>1. used' = used /\ exe' = exe /\ mapped' = mapped
        BY <1>1 DEF vmmVars
    <2>2. Returned \in used /\ Returned >= ThunkBase
        BY <1>1, <1>2 DEF LoaderInv, Request
    <2>3. ASSUME NEW f \in ThunksOf(entries')
          PROVE  entries'[f[1]][f[2]] \in used /\ entries'[f[1]][f[2]] >= ThunkBase
        <3>1. CASE f = <<Library, Fixup.ord>>
            BY <1>2, <2>2, <3>1, NewThunk
        <3>2. CASE f # <<Library, Fixup.ord>>
            <4>1. f \in ThunksOf(entries)
                BY <3>2, NewThunk
            <4>2. entries'[f[1]][f[2]] = entries[f[1]][f[2]]
                <5>1. PICK l \in DOMAIN Libraries : \E n \in Ordinals(l) : f = <<l, n>>
                    BY <4>1 DEF ThunksOf
                <5>2. PICK n \in Ordinals(l) : f = <<l, n>>
                    BY <5>1
                <5>. QED BY <3>2, <5>2, NewThunk
            <4>. QED BY <4>1, <4>2 DEF LoaderInv, Marked
        <3>. QED BY <3>1, <3>2
    <2>4. \A i \in 1 .. Len(mapped) : mapped[i] .. mapped[i] + exe.objs[i].size - 1 \subseteq used
        BY DEF LoaderInv, Marked
    <2>. QED BY <2>1, <2>3, <2>4 DEF Marked
<1>. QED
    BY <1>3, <1>4, <1>5, <1>6, <1>7, <1>8 DEF LoaderInv

\* The allocator works on the request.
LEMMA AllocateStep ==
    ASSUME LoaderInv, Allocate
    PROVE  LoaderInv'
<1>1. /\ VMM!VmmScan
      /\ UNCHANGED <<pc, exe, modules, entries, mapped, page, rec, mem, eip, esp>>
    BY DEF Allocate, placeVars
<1>2. /\ Allocator' /\ vmm = "scan"
      /\ \/ vmm' # "idle" /\ UNCHANGED <<used, vbase, nPages, granted>>
         \/ \E f \in VMM!Page : GrantAt(f)
    BY <1>1, AllocatorScan DEF LoaderInv
<1>3. pc \in {"mapping", "thunk"}
    BY <1>2 DEF LoaderInv, Progress
<1>4. Types'
    BY <1>1 DEF LoaderInv, Types
<1>5. Progress'
    BY <1>1, <1>3 DEF LoaderInv, Progress
<1>6. CASE vmm' # "idle" /\ UNCHANGED <<used, vbase, nPages, granted>>
    <2>1. Request'
        BY <1>1, <1>2, <1>6 DEF LoaderInv, Request
    <2>2. Granted'
        BY <1>1, <1>2, <1>6 DEF LoaderInv, Granted, Pending
    <2>3. Marked'
        BY <1>1, <1>6 DEF LoaderInv, Marked
    <2>. QED BY <1>2, <1>4, <1>5, <2>1, <2>2, <2>3 DEF LoaderInv
<1>7. ASSUME NEW f \in VMM!Page, GrantAt(f)
      PROVE  LoaderInv'
    <2>1. /\ f \notin used /\ f >= vbase /\ vmm' = "idle"
          /\ used' = used \cup (f .. f + nPages - 1)
          /\ granted' = Append(granted, [wanted |-> vbase, base |-> f, pages |-> nPages])
        BY <1>7 DEF GrantAt
    <2>2. Len(granted') = Len(granted) + 1 /\ LastBase(granted') = f
        BY <2>1, Numbers DEF LastBase
    <2>3. f \in Nat /\ f > 0
        <3>1. 0 \in used
            <4>1. 0 .. Reserved - 1 \subseteq used
                BY DEF LoaderInv, Allocator, VP!Inv, VP!FirstPagesMarked
            <4>2. Reserved > 0
                BY LoaderAssumption DEF VMM!VmmAssumption
            <4>. QED BY <4>1, <4>2, Bitmap
        <3>. QED BY <2>1, <3>1, Bitmap
    <2>4. Request'
        <3>1. CASE pc = "mapping"
            <4>1. nPages = exe.objs[Len(mapped) + 1].size
                BY <1>2, <3>1 DEF LoaderInv, Request
            <4>. QED BY <1>1, <2>1, <2>2, <3>1, <4>1 DEF Request
        <3>2. CASE pc = "thunk"
            <4>1. vbase = ThunkBase /\ nPages = 1
                BY <1>2, <3>2 DEF LoaderInv, Request
            <4>2. f \in used' /\ f >= ThunkBase /\ f > NoFunction
                BY <2>1, <2>3, <4>1 DEF NoFunction
            <4>3. \A g \in ThunksOf(entries) : entries[g[1]][g[2]] # f
                BY <2>1 DEF LoaderInv, Marked
            <4>. QED BY <1>1, <2>1, <2>2, <3>2, <4>2, <4>3 DEF Request
        <3>. QED BY <1>3, <3>1, <3>2
    <2>5. Granted'
        <3>1. /\ IsFiniteSet(ThunksOf(entries))
              /\ Len(granted) = Len(mapped) + Cardinality(ThunksOf(entries)) + 0
            BY <1>2 DEF LoaderInv, Granted, Pending
        <3>2. Pending(pc', vmm') = 1
            BY <1>1, <1>3, <2>1 DEF Pending
        <3>3. Cardinality(ThunksOf(entries)) \in Nat /\ Len(mapped) \in Nat
            BY <3>1, FS_CardinalityType, Numbers
        <3>4. Len(granted') = Len(mapped) + Cardinality(ThunksOf(entries)) + 1
            BY <2>2, <3>1, <3>3
        <3>. QED BY <1>1, <3>1, <3>2, <3>4 DEF Granted
    <2>6. Marked'
        <3>1. used \subseteq used'
            BY <2>1
        <3>. QED BY <1>1, <3>1 DEF LoaderInv, Marked
    <2>. QED BY <1>2, <1>4, <1>5, <2>4, <2>5, <2>6 DEF LoaderInv
<1>. QED
    BY <1>2, <1>6, <1>7

\* Every step of the loader keeps the invariant.
LEMMA LoaderNext ==
    ASSUME LoaderInv, [Next]_vars
    PROVE  LoaderInv'
<1>1. CASE ResolveImport \/ ResolveEnd
    BY <1>1, ResolveStep
<1>2. CASE MapObject
    BY <1>2, MapObjectStep
<1>3. CASE ObjectMapped
    BY <1>3, ObjectMappedStep
<1>4. CASE LoadPage
    BY <1>4, LoadPageStep
<1>5. CASE LoadUnknown \/ FixupMissing \/ FixupUnsupported
    BY <1>5, StopStep
<1>6. CASE ClearRest
    BY <1>6, ClearRestStep
<1>7. CASE FixupInternal \/ FixupInvalid \/ FixupThunked
    BY <1>7, PatchStep
<1>8. CASE GenerateThunk
    BY <1>8, GenerateThunkStep
<1>9. CASE ThunkMade
    BY <1>9, ThunkMadeStep
<1>10. CASE FixupEnd
    BY <1>10, FixupEndStep
<1>11. CASE Launch
    BY <1>11, LaunchStep
<1>12. CASE Allocate
    BY <1>12, AllocateStep
<1>13. CASE UNCHANGED vars
    <2>1. UNCHANGED vmmVars /\ UNCHANGED <<exe, pc, modules, entries, mapped, page, rec, mem, eip, esp>>
        BY <1>13 DEF vars, placeVars
    <2>2. Allocator'
        BY <2>1, AllocatorStays DEF LoaderInv
    <2>3. Types' /\ Progress' /\ Request' /\ Granted' /\ Marked'
        BY <2>1 DEF LoaderInv, vmmVars, Types, Progress, Request, Granted, Marked, Pending
    <2>. QED BY <2>2, <2>3 DEF LoaderInv
<1>. QED
    BY <1>1, <1>2, <1>3, <1>4, <1>5, <1>6, <1>7, <1>8, <1>9, <1>10, <1>11, <1>12, <1>13
    DEF Next, LoadLX

\* The allocator is only used for one request at a time, and what it grants is
\* one block for each object and each thunk (enterprs.c:40, os2thunk.c:70), for
\* every executable whose tables are consistent.
THEOREM LoaderInvariance ==
    Spec => []LoaderInv
<1>1. Init => LoaderInv
    BY LoaderInit
<1>2. LoaderInv /\ [Next]_vars => LoaderInv'
    BY LoaderNext
<1>. QED
    BY <1>1, <1>2, PTL DEF Spec

----------------------------------------------------------------------------
(***************************************************************************)
(* Executables as they are linked.                                         *)
(***************************************************************************)
\* The pages of their objects are pages of memory below the thunks, each of
\* one object only.
LEMMA ObjectPages ==
    ASSUME NEW e \in Exes, Linked(e), NEW i \in 1 .. Len(e.objs), NEW n \in 0 .. e.objs[i].size - 1
    PROVE  /\ e.objs[i].base + n \in VMM!Page /\ e.objs[i].base + n < ThunkBase
           /\ e.objs[i].base + n >= Reserved
           /\ e.objs[i].base + n \in Span(e, i)
           /\ \A j \in 1 .. Len(e.objs) : \A m \in 0 .. e.objs[j].size - 1 :
                 e.objs[i].base + n = e.objs[j].base + m => i = j /\ n = m
<1>1. DOMAIN e.objs = 1 .. Len(e.objs)
      /\ \A j \in 1 .. Len(e.objs) : e.objs[j].base \in Nat /\ e.objs[j].size \in Nat
    BY Tables
<1>2. /\ Reserved <= e.objs[i].base /\ e.objs[i].base + e.objs[i].size <= ThunkBase
      /\ \A j \in 1 .. Len(e.objs) : i # j => Span(e, i) \cap Span(e, j) = {}
    BY <1>1 DEF Linked
<1>3. \A j \in 1 .. Len(e.objs) : \A m \in 0 .. e.objs[j].size - 1 : e.objs[j].base + m \in Span(e, j)
    BY <1>1, SMTT(30) DEF Span
<1>4. e.objs[i].base + n < ThunkBase /\ e.objs[i].base + n \in Nat /\ e.objs[i].base + n >= Reserved
    <2>. DEFINE b == e.objs[i].base
                z == e.objs[i].size
    <2>1. b \in Nat /\ z \in Nat /\ Reserved <= b /\ b + z <= ThunkBase /\ n \in 0 .. z - 1
        BY <1>1, <1>2
    <2>2. ThunkBase \in Nat /\ Reserved \in Nat
        BY Bitmap
    <2>. HIDE DEF b, z
    <2>3. b + n < ThunkBase /\ b + n \in Nat /\ b + n >= Reserved
        BY <2>1, <2>2
    <2>. QED BY <2>3 DEF b
<1>5. e.objs[i].base + n \in VMM!Page
    BY <1>4, Bitmap
<1>6. ASSUME NEW j \in 1 .. Len(e.objs), NEW m \in 0 .. e.objs[j].size - 1,
             e.objs[i].base + n = e.objs[j].base + m
      PROVE  i = j /\ n = m
    <2>1. i = j
        BY <1>2, <1>3, <1>6
    <2>. QED BY <1>1, <1>6, <2>1
<1>. QED
    BY <1>3, <1>4, <1>5, <1>6

\* The first fit for an object is where it was linked: no object before it and
\* no thunk is in the way.
LEMMA FitsAsLinked ==
    ASSUME LoaderInv, Linked(exe), BelowThunks, pc = "mapping", vmm = "scan",
           NEW f \in VMM!Page, GrantAt(f)
    PROVE  f = exe.objs[Len(mapped) + 1].base
<1>. DEFINE k == Len(mapped) + 1
            b == exe.objs[k].base
            n == exe.objs[k].size
<1>1. /\ exe \in Exes /\ k \in 1 .. Len(exe.objs) /\ Len(mapped) \in Nat
      /\ DOMAIN exe.objs = 1 .. Len(exe.objs)
    BY Numbers, Tables DEF LoaderInv, Progress
<1>2. vbase = b /\ nPages = n
    BY DEF LoaderInv, Request
<1>3. b \in Nat /\ n \in Nat /\ n > 0
    BY <1>1, Tables DEF Linked
<1>4. f >= b /\ f \in Nat
    BY <1>2, Bitmap DEF GrantAt
<1>5. ASSUME f > b
      PROVE  FALSE
    <2>1. PICK q \in b .. b + n - 1 : q \notin VMM!Page \/ q \in used
        <3>1. b \in vbase .. f - 1
            BY <1>2, <1>3, <1>4, <1>5
        <3>2. \E q \in b .. b + (IF nPages = 0 THEN 1 ELSE nPages) - 1 : q \notin VMM!Page \/ q \in used
            BY <3>1 DEF GrantAt
        <3>. QED BY <1>2, <1>3, <3>2
    <2>2. q - b \in 0 .. n - 1 /\ b + (q - b) = q
        BY <1>3, SMTT(30)
    <2>. HIDE DEF b, n
    <2>3. q \in VMM!Page /\ q < ThunkBase /\ q >= Reserved /\ q \in Span(exe, k)
        <3>1. b + (q - b) \in VMM!Page /\ b + (q - b) < ThunkBase /\ b + (q - b) >= Reserved
              /\ b + (q - b) \in Span(exe, k)
            BY <1>1, <2>2, ObjectPages DEF b, n
        <3>. QED BY <2>2, <3>1
    <2>4. PICK i \in 1 .. Len(mapped) : q \in Span(exe, i)
        <3>1. q \in used /\ ~(q < Reserved)
            BY <2>1, <2>3, Bitmap
        <3>2. \E i \in 1 .. Len(mapped) + Taken(pc, vmm) : q \in Span(exe, i)
            BY <2>3, <3>1 DEF BelowThunks
        <3>3. Taken(pc, vmm) = 0
            BY DEF Taken
        <3>. QED BY <1>1, <3>2, <3>3
    <2>5. i # k /\ i \in DOMAIN exe.objs /\ k \in DOMAIN exe.objs
        BY <1>1
    <2>. QED BY <2>3, <2>4, <2>5 DEF Linked
<1>. QED
    BY <1>3, <1>4, <1>5

\* Nothing is mapped at the start.
LEMMA KeptInit ==
    ASSUME Init
    PROVE  Kept
<1>1. LoaderInv
    BY LoaderInit
<1>2. /\ mapped = <<>> /\ pc = "resolve" /\ \A p \in used : p \in 0 .. Reserved - 1 \/ p >= Pages
    BY AllocatorInit DEF Init
<1>3. Len(mapped) = 0
    BY <1>2
<1>4. AsLinked
    BY <1>2, <1>3 DEF AsLinked
<1>5. BelowThunks
    <2>. SUFFICES ASSUME NEW p \in used, p < ThunkBase
                  PROVE  p < Reserved
        BY DEF BelowThunks
    <2>1. p \in Nat
        BY <1>1, Numbers, Bitmap
    <2>. QED BY <1>2, <2>1, Bitmap
<1>6. ThunksKept
    <2>1. ThunksOf(entries) = {}
        BY DEF Init, TableWith, ThunksOf, NoFunction, Host
    <2>. QED BY <2>1 DEF ThunksKept
<1>7. Loaded
    BY <1>3 DEF Loaded
<1>. QED
    BY <1>4, <1>5, <1>6, <1>7 DEF Kept

\* The steps that the allocator has no part in.
QuietSteps ==
    \/ ResolveImport \/ ResolveEnd \/ LoadPage \/ LoadUnknown \/ ClearRest \/ FixupInternal
    \/ FixupInvalid \/ FixupMissing \/ FixupThunked \/ FixupUnsupported \/ FixupEnd \/ Launch

\* Steps that neither map, write, nor make a thunk leave what is kept.
LEMMA QuietFrame ==
    ASSUME QuietSteps
    PROVE  /\ UNCHANGED <<vmmVars, exe, entries, mapped>>
           /\ pc \notin {"mapping", "thunk"} /\ pc' \notin {"mapping", "thunk"}
<1>1. CASE ResolveImport \/ ResolveEnd \/ LoadPage \/ LoadUnknown \/ ClearRest
    BY <1>1 DEF ResolveImport, ResolveEnd, LoadPage, LoadUnknown, ClearRest, placeVars
<1>2. CASE FixupMissing \/ FixupUnsupported \/ FixupEnd \/ Launch
    BY <1>2 DEF FixupMissing, FixupUnsupported, FixupEnd, Launch, AtFixup
<1>3. CASE FixupInternal \/ FixupInvalid \/ FixupThunked
    <2>1. pc = "fixup" /\ \E value : doFixup(value)
        BY <1>3 DEF FixupInternal, FixupInvalid, FixupThunked, HasEntry, AtFixup
    <2>. QED BY <2>1 DEF doFixup
<1>. QED
    BY <1>1, <1>2, <1>3 DEF QuietSteps

\* The steps of the loader, by what they change.
LEMMA StepKinds ==
    ASSUME [Next]_vars
    PROVE  \/ QuietSteps \/ MapObject \/ ObjectMapped \/ GenerateThunk \/ ThunkMade \/ Allocate
           \/ UNCHANGED vars
BY DEF Next, LoadLX, QuietSteps

\* Calls and returns of the allocator.
LEMMA CallFrame ==
    ASSUME LoaderInv, MapObject \/ GenerateThunk
    PROVE  /\ UNCHANGED <<used, granted, exe, modules, entries, mapped, page, rec, mem>>
           /\ vmm' = "scan"
           /\ pc \in {"map", "fixup"} /\ pc' \in {"mapping", "thunk"}
           /\ pc = "map" => pc' = "mapping"
           /\ pc = "fixup" => pc' = "thunk"
BY DEF MapObject, GenerateThunk, HasEntry, AtFixup, VMM!VMMAllocPages

\* Objects are mapped where they were linked, since the first fit is there.
LEMMA PlacesStep ==
    ASSUME LoaderInv, LoaderInv', Linked(exe), AsLinked, BelowThunks, [Next]_vars
    PROVE  AsLinked' /\ BelowThunks'
<1>1. CASE QuietSteps
    <2>1. /\ UNCHANGED <<vmmVars, exe, mapped>>
          /\ pc \notin {"mapping", "thunk"} /\ pc' \notin {"mapping", "thunk"}
        BY <1>1, QuietFrame
    <2>. QED BY <2>1 DEF AsLinked, BelowThunks, Taken, vmmVars
<1>2. CASE MapObject \/ GenerateThunk
    <2>1. UNCHANGED <<used, exe, mapped>> /\ vmm' = "scan" /\ pc \in {"map", "fixup"}
        BY <1>2, CallFrame
    <2>. QED BY <2>1 DEF AsLinked, BelowThunks, Taken
<1>3. CASE ThunkMade
    <2>1. UNCHANGED <<vmmVars, exe, mapped>> /\ pc = "thunk" /\ pc' = "fixup"
        BY <1>3 DEF ThunkMade
    <2>. QED BY <2>1 DEF AsLinked, BelowThunks, Taken, vmmVars
<1>4. CASE ObjectMapped
    <2>1. /\ pc = "mapping" /\ vmm = "idle" /\ pc' = "page" /\ UNCHANGED <<vmmVars, exe>>
          /\ mapped' = Append(mapped, Returned) /\ Returned = LastBase(granted)
        BY <1>4, BlockCame DEF ObjectMapped
    <2>2. mapped \in Seq(VMM!Page) /\ Returned \in VMM!Page
        BY <2>1, BlockCame DEF LoaderInv, Types
    <2>3. /\ Len(mapped') = Len(mapped) + 1 /\ mapped'[Len(mapped) + 1] = Returned
          /\ Len(mapped) \in Nat
          /\ \A i \in 1 .. Len(mapped) : mapped'[i] = mapped[i]
        BY <2>1, <2>2
    <2>4. Returned = exe.objs[Len(mapped) + 1].base
        BY <2>1 DEF AsLinked
    <2>5. AsLinked'
        <3>1. ASSUME NEW i \in 1 .. Len(mapped')
              PROVE  mapped'[i] = exe.objs[i].base
            <4>1. i \in 1 .. Len(mapped) \/ i = Len(mapped) + 1
                BY <2>3
            <4>. QED BY <2>3, <2>4, <4>1 DEF AsLinked
        <3>. QED BY <2>1, <3>1 DEF AsLinked
    <2>6. BelowThunks'
        <3>1. Taken(pc, vmm) = 1 /\ Taken(pc', vmm') = 0
            BY <2>1 DEF Taken
        <3>2. Len(mapped) + 1 = Len(mapped') + 0
            BY <2>3
        <3>. QED BY <2>1, <3>1, <3>2 DEF BelowThunks, vmmVars
    <2>. QED BY <2>5, <2>6
<1>5. CASE Allocate
    <2>1. /\ VMM!VmmScan /\ UNCHANGED <<pc, exe, mapped>>
        BY <1>5 DEF Allocate, placeVars
    <2>2. /\ vmm = "scan"
          /\ \/ vmm' # "idle" /\ UNCHANGED <<used, vbase, nPages, granted>>
             \/ \E f \in VMM!Page : GrantAt(f)
        BY <2>1, AllocatorScan DEF LoaderInv
    <2>3. CASE vmm' # "idle" /\ UNCHANGED <<used, vbase, nPages, granted>>
        BY <2>1, <2>2, <2>3 DEF AsLinked, BelowThunks, Taken
    <2>4. ASSUME NEW f \in VMM!Page, GrantAt(f)
          PROVE  AsLinked' /\ BelowThunks'
        <3>1. /\ f >= vbase /\ vmm' = "idle" /\ used' = used \cup (f .. f + nPages - 1)
              /\ granted' = Append(granted, [wanted |-> vbase, base |-> f, pages |-> nPages])
            BY <2>4 DEF GrantAt
        <3>2. LastBase(granted') = f
            BY <3>1, Numbers DEF LastBase
        <3>3. pc = "mapping" \/ pc = "thunk"
            BY <2>2 DEF LoaderInv, Progress
        <3>4. CASE pc = "mapping"
            <4>1. f = exe.objs[Len(mapped) + 1].base /\ nPages = exe.objs[Len(mapped) + 1].size
                BY <2>2, <2>4, <3>4, FitsAsLinked DEF LoaderInv, Request
            <4>2. AsLinked'
                BY <2>1, <3>2, <4>1 DEF AsLinked
            <4>3. Taken(pc, vmm) = 0 /\ Taken(pc', vmm') = 1 /\ Len(mapped) \in Nat
                BY <2>1, <2>2, <3>1, <3>4, Numbers DEF Taken
            <4>4. ASSUME NEW p \in used', p < ThunkBase
                  PROVE  p < Reserved \/ \E i \in 1 .. Len(mapped) + 1 : p \in Span(exe, i)
                <5>1. CASE p \in used
                    BY <4>3, <4>4, <5>1 DEF BelowThunks
                <5>2. CASE p \notin used
                    <6>1. p \in Span(exe, Len(mapped) + 1)
                        BY <3>1, <4>1, <5>2 DEF Span
                    <6>. QED BY <4>3, <6>1
                <5>. QED BY <5>1, <5>2
            <4>5. BelowThunks'
                BY <2>1, <4>3, <4>4 DEF BelowThunks
            <4>. QED BY <4>2, <4>5
        <3>5. CASE pc = "thunk"
            <4>1. vbase = ThunkBase /\ nPages = 1
                BY <2>2, <3>5 DEF LoaderInv, Request
            <4>2. used' = used \cup {f}
                <5>1. f \in Nat
                    BY Bitmap
                <5>. QED BY <3>1, <4>1, <5>1
            <4>3. ~(f < ThunkBase)
                BY <3>1, <4>1, Bitmap
            <4>4. Taken(pc, vmm) = 0 /\ Taken(pc', vmm') = 0
                BY <2>1, <3>5 DEF Taken
            <4>. QED BY <2>1, <3>5, <4>2, <4>3, <4>4 DEF AsLinked, BelowThunks
        <3>. QED BY <3>3, <3>4, <3>5
    <2>. QED BY <2>2, <2>3, <2>4
<1>6. CASE UNCHANGED vars
    BY <1>6 DEF vars, vmmVars, placeVars, AsLinked, BelowThunks, Taken
<1>. QED
    BY <1>1, <1>2, <1>3, <1>4, <1>5, <1>6, StepKinds

\* The page that is loaded and fixed is one of the object.
LEMMA DstInside ==
    ASSUME LoaderInv, Linked(exe), AsLinked, pc \in {"page", "fixup", "thunk"}, page < Object.pages
    PROVE  /\ Number = Len(mapped) /\ Number \in 1 .. Len(exe.objs) /\ Number \in 1 .. Len(mapped)
           /\ page \in 0 .. exe.objs[Number].size - 1
           /\ Dst = exe.objs[Number].base + page
           /\ Dst \in VMM!Page /\ Dst < ThunkBase /\ Dst \in Nat
<1>1. Number = Len(mapped) /\ Len(mapped) > 0
    BY DEF Number, LoaderInv, Progress
<1>2. Number \in 1 .. Len(exe.objs) /\ Number \in 1 .. Len(mapped) /\ exe \in Exes /\ page \in Nat
    BY <1>1, Numbers, Tables
<1>3. page \in 0 .. exe.objs[Number].size - 1
    <2>1. /\ exe.objs[Number].pages \in Nat /\ exe.objs[Number].size \in Nat
          /\ exe.objs[Number].pages <= exe.objs[Number].size
        BY <1>2, Tables
    <2>2. page < exe.objs[Number].pages
        BY DEF Object
    <2>. QED BY <1>2, <2>1, <2>2
<1>4. Dst = exe.objs[Number].base + page
    BY <1>2, <1>1 DEF Dst, AsLinked
<1>5. Dst \in VMM!Page /\ Dst < ThunkBase
    BY <1>2, <1>3, <1>4, ObjectPages
<1>. QED
    BY <1>1, <1>2, <1>3, <1>4, <1>5, Bitmap

\* What stands in memory is changed by what is written to a page.
LEMMA WrittenPage ==
    ASSUME mem \in [VMM!Page -> PageContent], NEW q, NEW c,
           mem' = [mem EXCEPT ![q] = Fresh(c)]
    PROVE  \A p \in VMM!Page : mem'[p].what = IF p = q THEN c ELSE mem[p].what
BY DEF Fresh

\* Fixups leave what a page holds.
LEMMA PatchedPage ==
    ASSUME LoaderInv, FixupInternal \/ FixupInvalid \/ FixupThunked
    PROVE  /\ \A p \in VMM!Page : mem'[p].what = mem[p].what
           /\ UNCHANGED <<pc, page, mapped, exe, entries>>
<1>1. PICK value \in VMM!Page : doFixup(value)
    BY Patches
<1>2. mem \in [VMM!Page -> PageContent]
    BY DEF LoaderInv, Types
<1>. DEFINE fix == [o \in Offsets |-> IF o \in Fixup.at /\ (value # 0 \/ Fixup.self)
                                      THEN value ELSE mem[Dst].fix[o]]
<1>3. mem' = [mem EXCEPT ![Dst] = [mem[Dst] EXCEPT !.fix = fix]]
    BY <1>1 DEF doFixup
<1>. HIDE DEF fix
<1>4. ASSUME NEW p \in VMM!Page
      PROVE  mem'[p].what = mem[p].what
    <2>1. mem[p] \in PageContent
        BY <1>2
    <2>. QED BY <1>2, <1>3, <2>1 DEF PageContent
<1>. QED
    BY <1>1, <1>4 DEF doFixup

\* The thunks are on pages of memory.
LEMMA ThunkPages ==
    ASSUME LoaderInv, NEW f \in ThunksOf(entries)
    PROVE  entries[f[1]][f[2]] \in VMM!Page /\ entries[f[1]][f[2]] >= ThunkBase
           /\ entries[f[1]][f[2]] \in Nat
BY Numbers, Bitmap DEF LoaderInv, Marked

\* No step writes over a thunk.
LEMMA ThunksStep ==
    ASSUME LoaderInv, Linked(exe), AsLinked, ThunksKept, [Next]_vars
    PROVE  ThunksKept'
<1>1. mem \in [VMM!Page -> PageContent]
    BY DEF LoaderInv, Types
<1>2. ASSUME entries' = entries, \A p \in VMM!Page : p >= ThunkBase => mem'[p].what = mem[p].what
      PROVE  ThunksKept'
    BY <1>2, ThunkPages DEF ThunksKept
<1>3. CASE ResolveImport \/ ResolveEnd \/ LoadUnknown \/ FixupMissing \/ FixupUnsupported \/ FixupEnd
           \/ Launch \/ MapObject \/ ObjectMapped \/ GenerateThunk \/ Allocate \/ UNCHANGED vars
    <2>1. UNCHANGED <<entries, mem>>
        BY <1>3 DEF ResolveImport, ResolveEnd, LoadUnknown, FixupMissing, FixupUnsupported, FixupEnd,
                    Launch, MapObject, ObjectMapped, GenerateThunk, Allocate, vars
    <2>. QED BY <1>2, <2>1
<1>4. CASE LoadPage
    <2>1. /\ pc = "page" /\ page < Object.pages /\ entries' = entries
          /\ mem' = [mem EXCEPT ![Dst] = Fresh(ObjectPage(Number, page))]
        BY <1>4 DEF LoadPage
    <2>2. Dst < ThunkBase /\ Dst \in Nat
        BY <2>1, DstInside
    <2>3. \A p \in VMM!Page : p >= ThunkBase => p # Dst
        BY <2>2, Bitmap
    <2>4. \A p \in VMM!Page : mem'[p].what = IF p = Dst THEN ObjectPage(Number, page) ELSE mem[p].what
        BY <1>1, <2>1, WrittenPage
    <2>. QED BY <1>2, <2>1, <2>3, <2>4
<1>5. CASE ClearRest
    <2>1. Len(mapped) > 0
        BY <1>5 DEF ClearRest, LoaderInv, Progress
    <2>2. /\ Number \in 1 .. Len(exe.objs) /\ Number \in 1 .. Len(mapped) /\ exe \in Exes
          /\ DOMAIN exe.objs = 1 .. Len(exe.objs)
        BY <2>1, Numbers, Tables DEF Number
    <2>3. /\ mapped[Number] = exe.objs[Number].base
          /\ exe.objs[Number].base \in Nat /\ exe.objs[Number].size \in Nat
          /\ exe.objs[Number].base + exe.objs[Number].size <= ThunkBase
        BY <2>2, Tables DEF AsLinked, Linked
    <2>4. ASSUME NEW p \in VMM!Page, p >= ThunkBase
          PROVE  mem'[p].what = mem[p].what
        <3>1. p \notin Dst .. mapped[Number] + Object.size - 1
            BY <2>3, <2>4, Bitmap DEF Object
        <3>. QED BY <1>5, <3>1 DEF ClearRest
    <2>. QED BY <1>2, <1>5, <2>4 DEF ClearRest
<1>6. CASE FixupInternal \/ FixupInvalid \/ FixupThunked
    BY <1>2, <1>6, PatchedPage
<1>7. CASE ThunkMade
    <2>1. /\ pc = "thunk" /\ vmm = "idle"
          /\ mem' = [mem EXCEPT ![Returned] = Fresh(Thunk(Library, Fixup.ord))]
        BY <1>7 DEF ThunkMade
    <2>2. Returned \in VMM!Page /\ Returned = LastBase(granted)
        BY <1>7, NewThunk
    <2>3. \A p \in VMM!Page :
              mem'[p].what = IF p = Returned THEN Thunk(Library, Fixup.ord) ELSE mem[p].what
        BY <1>1, <2>1, WrittenPage
    <2>4. ASSUME NEW f \in ThunksOf(entries')
          PROVE  mem'[entries'[f[1]][f[2]]].what = Thunk(f[1], f[2])
        <3>1. CASE f = <<Library, Fixup.ord>>
            <4>1. entries'[f[1]][f[2]] = Returned
                BY <1>7, <3>1, NewThunk
            <4>. QED BY <2>2, <2>3, <3>1, <4>1
        <3>2. CASE f # <<Library, Fixup.ord>>
            <4>1. f \in ThunksOf(entries)
                BY <1>7, <3>2, NewThunk
            <4>2. entries'[f[1]][f[2]] = entries[f[1]][f[2]]
                <5>1. PICK l \in DOMAIN Libraries : \E n \in Ordinals(l) : f = <<l, n>>
                    BY <4>1 DEF ThunksOf
                <5>2. PICK n \in Ordinals(l) : f = <<l, n>>
                    BY <5>1
                <5>. QED BY <1>7, <3>2, <5>2, NewThunk
            <4>3. entries[f[1]][f[2]] # Returned
                BY <2>1, <2>2, <4>1 DEF LoaderInv, Request
            <4>4. entries[f[1]][f[2]] \in VMM!Page
                BY <4>1, ThunkPages
            <4>. QED BY <2>3, <4>1, <4>2, <4>3, <4>4 DEF ThunksKept
        <3>. QED BY <3>1, <3>2
    <2>. QED BY <2>4 DEF ThunksKept
<1>. QED
    BY <1>3, <1>4, <1>5, <1>6, <1>7 DEF Next, LoadLX

\* No step writes over a page of an object that is loaded.
LEMMA LoadedStep ==
    ASSUME LoaderInv, Linked(exe), AsLinked, Loaded, [Next]_vars
    PROVE  Loaded'
<1>1. mem \in [VMM!Page -> PageContent]
    BY DEF LoaderInv, Types
<1>2. /\ exe \in Exes /\ Len(mapped) \in Nat /\ Len(mapped) <= Len(exe.objs) /\ page \in Nat
      /\ DOMAIN exe.objs = 1 .. Len(exe.objs) /\ Len(exe.objs) \in Nat
    BY Numbers, Tables
<1>. DEFINE At_(i, n) == exe.objs[i].base + n
<1>3. ASSUME exe' = exe, Len(mapped') = Len(mapped),
             \A i \in 1 .. Len(mapped) : \A n \in 0 .. exe.objs[i].size - 1 :
                Written(i, n)' => mem'[At_(i, n)].what = ObjectPage(i, n)
      PROVE  Loaded'
    BY <1>3 DEF Loaded
<1>4. ASSUME NEW i \in 1 .. Len(mapped), NEW n \in 0 .. exe.objs[i].size - 1
      PROVE  /\ At_(i, n) \in VMM!Page /\ At_(i, n) < ThunkBase /\ At_(i, n) \in Nat
             /\ \A j \in 1 .. Len(mapped) : \A m \in 0 .. exe.objs[j].size - 1 :
                   At_(i, n) = At_(j, m) => i = j /\ n = m
             /\ n \in Nat /\ exe.objs[i].size \in Nat
    <2>1. i \in 1 .. Len(exe.objs) /\ 1 .. Len(mapped) \subseteq 1 .. Len(exe.objs)
        BY <1>2
    <2>2. exe.objs[i].size \in Nat
        BY <1>2, <2>1, Tables
    <2>3. n \in Nat
        BY <2>2
    <2>4. /\ At_(i, n) \in VMM!Page /\ At_(i, n) < ThunkBase
          /\ \A j \in 1 .. Len(exe.objs) : \A m \in 0 .. exe.objs[j].size - 1 :
                At_(i, n) = At_(j, m) => i = j /\ n = m
        BY <1>2, <2>1, ObjectPages
    <2>5. \A j \in 1 .. Len(mapped) : \A m \in 0 .. exe.objs[j].size - 1 :
              At_(i, n) = At_(j, m) => i = j /\ n = m
        BY <2>1, <2>4
    <2>. QED BY <2>2, <2>3, <2>4, <2>5, Bitmap
<1>. HIDE DEF At_
<1>5. \A i \in 1 .. Len(mapped) : \A n \in 0 .. exe.objs[i].size - 1 :
          Written(i, n) => mem[At_(i, n)].what = ObjectPage(i, n)
    BY DEF Loaded, At_
<1>6. CASE ResolveImport \/ ResolveEnd \/ LoadUnknown \/ FixupMissing \/ FixupUnsupported
           \/ Launch \/ MapObject \/ GenerateThunk \/ Allocate \/ UNCHANGED vars
    <2>1. UNCHANGED <<exe, mapped, page, mem>>
        BY <1>6 DEF ResolveImport, ResolveEnd, LoadUnknown, FixupMissing, FixupUnsupported,
                    Launch, MapObject, GenerateThunk, Allocate, vars, placeVars
    <2>2. \/ pc' = pc
          \/ pc' \in {"exit", "crash"}
          \/ pc \in {"resolve", "map"} /\ pc' \in {"map", "mapping", "run"}
          \/ pc = "fixup" /\ pc' = "thunk"
        BY <1>6 DEF ResolveImport, ResolveEnd, LoadUnknown, FixupMissing, FixupUnsupported,
                    Launch, MapObject, GenerateThunk, HasEntry, AtFixup, Allocate, vars, placeVars
    <2>3. ASSUME NEW i \in 1 .. Len(mapped), NEW n \in 0 .. exe.objs[i].size - 1, Written(i, n)'
          PROVE  Written(i, n)
        BY <2>1, <2>2, <2>3 DEF Written
    <2>. QED BY <1>3, <1>5, <2>1, <2>3
<1>7. CASE FixupEnd
    <2>1. /\ pc = "fixup" /\ pc' = "page" /\ page' = page + 1 /\ UNCHANGED <<exe, mapped, mem>>
        BY <1>7 DEF FixupEnd
    <2>2. ASSUME NEW i \in 1 .. Len(mapped), NEW n \in 0 .. exe.objs[i].size - 1, Written(i, n)'
          PROVE  Written(i, n)
        BY <1>2, <1>4, <2>1, <2>2 DEF Written
    <2>. QED BY <1>3, <1>5, <2>1, <2>2
<1>8. CASE FixupInternal \/ FixupInvalid \/ FixupThunked
    <2>1. /\ \A p \in VMM!Page : mem'[p].what = mem[p].what
          /\ UNCHANGED <<pc, page, mapped, exe>>
        BY <1>8, PatchedPage
    <2>2. ASSUME NEW i \in 1 .. Len(mapped), NEW n \in 0 .. exe.objs[i].size - 1, Written(i, n)'
          PROVE  Written(i, n)
        BY <2>1, <2>2 DEF Written
    <2>. QED BY <1>3, <1>4, <1>5, <2>1, <2>2
<1>9. CASE ThunkMade
    <2>1. /\ pc = "thunk" /\ vmm = "idle" /\ pc' = "fixup" /\ UNCHANGED <<exe, mapped, page>>
          /\ mem' = [mem EXCEPT ![Returned] = Fresh(Thunk(Library, Fixup.ord))]
        BY <1>9 DEF ThunkMade
    <2>2. Returned >= ThunkBase /\ Returned \in Nat
        BY <2>1, BlockCame DEF LoaderInv, Request
    <2>3. \A p \in VMM!Page :
              mem'[p].what = IF p = Returned THEN Thunk(Library, Fixup.ord) ELSE mem[p].what
        BY <1>1, <2>1, WrittenPage
    <2>4. ASSUME NEW i \in 1 .. Len(mapped), NEW n \in 0 .. exe.objs[i].size - 1, Written(i, n)'
          PROVE  mem'[At_(i, n)].what = ObjectPage(i, n)
        <3>1. Written(i, n)
            BY <2>1, <2>4 DEF Written
        <3>2. At_(i, n) \in VMM!Page /\ At_(i, n) < ThunkBase /\ At_(i, n) \in Nat
            BY <1>4
        <3>3. At_(i, n) # Returned
            BY <2>2, <3>2, Bitmap
        <3>. QED BY <1>5, <2>3, <3>1, <3>2, <3>3
    <2>. QED BY <1>3, <2>1, <2>4
<1>10. CASE LoadPage
    <2>1. /\ pc = "page" /\ page < Object.pages /\ pc' = "fixup" /\ UNCHANGED <<exe, mapped, page>>
          /\ mem' = [mem EXCEPT ![Dst] = Fresh(ObjectPage(Number, page))]
        BY <1>10 DEF LoadPage
    <2>2. /\ Number = Len(mapped) /\ Number \in 1 .. Len(mapped)
          /\ page \in 0 .. exe.objs[Number].size - 1 /\ Dst = At_(Number, page)
        BY <2>1, DstInside DEF At_
    <2>3. \A p \in VMM!Page :
              mem'[p].what = IF p = Dst THEN ObjectPage(Number, page) ELSE mem[p].what
        BY <1>1, <2>1, WrittenPage
    <2>4. ASSUME NEW i \in 1 .. Len(mapped), NEW n \in 0 .. exe.objs[i].size - 1, Written(i, n)'
          PROVE  mem'[At_(i, n)].what = ObjectPage(i, n)
        <3>1. At_(i, n) \in VMM!Page
            BY <1>4
        <3>2. CASE i = Number /\ n = page
            BY <2>2, <2>3, <3>1, <3>2
        <3>3. CASE ~(i = Number /\ n = page)
            <4>1. At_(i, n) # Dst
                BY <1>4, <2>2, <3>3
            <4>2. Written(i, n)
                BY <1>2, <2>1, <2>2, <2>4, <3>3 DEF Written
            <4>. QED BY <1>5, <2>3, <3>1, <4>1, <4>2
        <3>. QED BY <3>2, <3>3
    <2>. QED BY <1>3, <2>1, <2>4
<1>11. CASE ClearRest
    <2>1. /\ pc = "page" /\ page = Object.pages /\ pc' = "map" /\ UNCHANGED <<exe, mapped>>
          /\ mem' = [p \in VMM!Page |->
                       IF p \in Dst .. mapped[Number] + Object.size - 1
                       THEN Fresh(ObjectPage(Number, p - mapped[Number])) ELSE mem[p]]
        BY <1>11 DEF ClearRest
    <2>2. Number = Len(mapped) /\ Number \in 1 .. Len(mapped) /\ Number \in 1 .. Len(exe.objs)
        <3>1. Len(mapped) > 0
            BY <2>1 DEF LoaderInv, Progress
        <3>. QED BY <1>2, <3>1 DEF Number
    <2>. DEFINE b == exe.objs[Number].base
                z == exe.objs[Number].size
    <2>3. b \in Nat /\ z \in Nat /\ mapped[Number] = b /\ Object.size = z
        BY <1>2, <2>2, Tables DEF AsLinked, Object
    <2>4. Dst = b + page
        BY <2>3 DEF Dst
    <2>5. ASSUME NEW i \in 1 .. Len(mapped), NEW n \in 0 .. exe.objs[i].size - 1
          PROVE  mem'[At_(i, n)].what = ObjectPage(i, n)
        <3>1. At_(i, n) \in VMM!Page /\ At_(i, n) \in Nat /\ n \in Nat
            BY <1>4
        <3>2. CASE i = Number /\ n >= page
            <4>1. At_(i, n) = b + n /\ n \in 0 .. z - 1
                BY <3>2 DEF At_
            <4>. HIDE DEF b, z
            <4>2. At_(i, n) \in b + page .. b + z - 1 /\ At_(i, n) - b = n
                BY <1>2, <2>3, <3>1, <3>2, <4>1
            <4>3. mem'[At_(i, n)] = Fresh(ObjectPage(Number, At_(i, n) - mapped[Number]))
                BY <2>1, <2>3, <2>4, <3>1, <4>2
            <4>. QED BY <2>3, <3>2, <4>2, <4>3 DEF Fresh
        <3>3. CASE ~(i = Number /\ n >= page)
            <4>1. Written(i, n)
                BY <1>2, <2>1, <2>2, <3>1, <3>3 DEF Written
            <4>2. At_(i, n) \notin b + page .. b + z - 1
                <5>1. SUFFICES ASSUME At_(i, n) \in b + page .. b + z - 1 PROVE FALSE
                    OBVIOUS
                <5>. DEFINE m == At_(i, n) - b
                <5>2. m \in 0 .. z - 1 /\ m >= page /\ b + m = At_(i, n)
                    <6>. HIDE DEF b, z
                    <6>. QED BY <1>2, <2>3, <3>1, <5>1
                <5>. HIDE DEF m
                <5>3. At_(i, n) = At_(Number, m)
                    BY <5>2 DEF At_
                <5>4. i = Number /\ n = m
                    BY <1>4, <2>2, <5>2, <5>3
                <5>. QED BY <3>3, <5>2, <5>4
            <4>3. mem'[At_(i, n)] = mem[At_(i, n)]
                BY <2>1, <2>3, <2>4, <3>1, <4>2
            <4>. QED BY <1>5, <4>1, <4>3
        <3>. QED BY <3>2, <3>3
    <2>. QED BY <1>3, <2>1, <2>5
<1>12. CASE ObjectMapped
    <2>1. /\ pc = "mapping" /\ pc' = "page" /\ page' = 0 /\ UNCHANGED <<exe, mem>>
          /\ mapped' = Append(mapped, Returned)
        BY <1>12 DEF ObjectMapped
    <2>2. Len(mapped') = Len(mapped) + 1
        BY <2>1 DEF LoaderInv, Types
    <2>3. ASSUME NEW i \in 1 .. Len(mapped) + 1, NEW n \in 0 .. exe.objs[i].size - 1, Written(i, n)'
          PROVE  mem[At_(i, n)].what = ObjectPage(i, n)
        <3>1. exe.objs[i].size \in Nat
            <4>1. i \in 1 .. Len(exe.objs)
                BY <1>2, <2>1 DEF LoaderInv, Progress
            <4>. QED BY <1>2, <4>1, Tables
        <3>2. i \in 1 .. Len(mapped)
            BY <1>2, <2>1, <2>2, <2>3, <3>1 DEF Written
        <3>3. Written(i, n)
            BY <2>1 DEF Written
        <3>. QED BY <1>5, <3>2, <3>3
    <2>. QED BY <2>1, <2>2, <2>3 DEF Loaded, At_
<1>. QED
    BY <1>6, <1>7, <1>8, <1>9, <1>10, <1>11, <1>12 DEF Next, LoadLX

\* The file is read once.
LEMMA ExeStays ==
    ASSUME [Next]_vars
    PROVE  exe' = exe
<1>1. CASE QuietSteps
    BY <1>1, QuietFrame
<1>2. CASE MapObject \/ ObjectMapped \/ GenerateThunk \/ ThunkMade \/ Allocate \/ UNCHANGED vars
    BY <1>2 DEF MapObject, ObjectMapped, GenerateThunk, ThunkMade, Allocate, vars
<1>. QED
    BY <1>1, <1>2, StepKinds

\* Every step keeps the second part of the invariant.
LEMMA KeptNext ==
    ASSUME LoaderInv, Kept, [Next]_vars
    PROVE  Kept'
<1>1. exe' = exe
    BY ExeStays
<1>. SUFFICES ASSUME Linked(exe)
              PROVE  AsLinked' /\ BelowThunks' /\ ThunksKept' /\ Loaded'
    BY <1>1 DEF Kept
<1>2. AsLinked /\ BelowThunks /\ ThunksKept /\ Loaded
    BY DEF Kept
<1>. QED
    BY <1>2, LoaderNext, PlacesStep, ThunksStep, LoadedStep

\* Objects of a linked executable are mapped where they were linked, and nothing
\* that was loaded or made is written over (enterprs.c:403-451, os2thunk.c:70-84).
THEOREM KeptInvariance ==
    Spec => []Kept
<1>1. Init => Kept
    BY KeptInit
<1>2. LoaderInv /\ Kept /\ [Next]_vars => Kept'
    BY KeptNext
<1>. QED
    BY <1>1, <1>2, LoaderInvariance, PTL DEF Spec

----------------------------------------------------------------------------
(***************************************************************************)
(* The program that is launched.                                           *)
(***************************************************************************)
AddressOf(e, a) == IF a.obj = 0 THEN a.page ELSE e.objs[a.obj].base + a.page

Started ==
    pc = "run" =>
        /\ Len(mapped) = Len(exe.objs) /\ exe.stack.page # NoStack
        /\ eip = AddressOf(exe, exe.start) /\ esp = AddressOf(exe, exe.stack)

\* Launching is the only way to run.
LEMMA StartedNext ==
    ASSUME LoaderInv, Started, [Next]_vars
    PROVE  Started'
<1>1. CASE Launch
    BY <1>1 DEF Launch, Started, Address, AddressOf
<1>2. CASE pc' # "run"
    BY <1>2 DEF Started
<1>3. CASE UNCHANGED vars
    BY <1>3 DEF vars, placeVars, Started
<1>4. CASE Next /\ ~Launch /\ pc' = "run"
    <2>1. CASE Allocate
        <3>1. pc = "run" /\ vmm = "scan"
            <4>1. UNCHANGED pc /\ VMM!VmmScan
                BY <2>1 DEF Allocate, placeVars
            <4>. QED BY <1>4, <4>1, AllocatorScan DEF LoaderInv
        <3>. QED BY <3>1 DEF LoaderInv, Progress
    <2>2. CASE ResolveImport \/ ResolveEnd \/ MapObject \/ ObjectMapped \/ LoadPage \/ LoadUnknown
               \/ ClearRest \/ FixupMissing \/ GenerateThunk \/ ThunkMade \/ FixupUnsupported \/ FixupEnd
        BY <1>4, <2>2 DEF ResolveImport, ResolveEnd, MapObject, ObjectMapped, LoadPage, LoadUnknown,
               ClearRest, FixupMissing, GenerateThunk, ThunkMade, FixupUnsupported, FixupEnd, placeVars
    <2>3. CASE FixupInternal \/ FixupInvalid \/ FixupThunked
        <3>1. pc = "fixup" /\ pc' = pc
            BY <2>3, Patches, PatchedPage
        <3>. QED BY <1>4, <3>1
    <2>. QED BY <1>4, <2>1, <2>2, <2>3 DEF Next, LoadLX
<1>. QED
    BY <1>1, <1>2, <1>3, <1>4

\* A program that runs has all its objects, and starts with the addresses of its
\* header (enterprs.c:459-474).
LEMMA StartedInvariance ==
    Spec => []Started
<1>1. Init => Started
    BY DEF Init, Started
<1>2. LoaderInv /\ Started /\ [Next]_vars => Started'
    BY StartedNext
<1>. QED
    BY <1>1, <1>2, LoaderInvariance, PTL DEF Spec

\* The loader's variables keep their types (enterprs.c:365, os2thunk.c:85):
\* whatever a consistent executable asks for, modules and entries are those of
\* libraries, what they hold are pages, and only pages are written.
THEOREM TypesKept ==
    Spec => []TypeOK
<1>1. LoaderInv => TypeOK
    <2>. SUFFICES ASSUME LoaderInv PROVE TypeOK
        OBVIOUS
    <2>1. Types
        BY DEF LoaderInv
    <2>2. Range(modules) \subseteq DOMAIN Libraries \cup {Missing} /\ Range(mapped) \subseteq VMM!Page
        BY <2>1 DEF Types, Range
    <2>3. DOMAIN mem = VMM!Page
        BY <2>1 DEF Types
    <2>4. \A p \in VMM!Page : mem[p].fix \in [Offsets -> VMM!Page \cup {Unpatched}]
        <3>1. \A p \in VMM!Page : mem[p] \in PageContent
            BY <2>1 DEF Types
        <3>. QED BY <3>1 DEF PageContent
    <2>. QED BY <2>1, <2>2, <2>3, <2>4 DEF Types, TypeOK
<1>. QED
    BY <1>1, LoaderInvariance, PTL

\* Of an executable as linkers make them, every page of every object is there
\* when it is launched (enterprs.c:403): no object and no thunk is loaded over
\* one, although the allocator counts a page too many for each block.
THEOREM LinkedImagesKept ==
    Spec => [](Linked(exe) => ImagesKept)
<1>1. LoaderInv /\ Kept => (Linked(exe) => ImagesKept)
    <2>. SUFFICES ASSUME LoaderInv, Kept, Linked(exe), pc = "run",
                         NEW i \in DOMAIN mapped, NEW n \in 0 .. exe.objs[i].size - 1
                  PROVE  At(i, n).what = ObjectPage(i, n)
        BY DEF ImagesKept
    <2>1. i \in 1 .. Len(mapped)
        BY DEF LoaderInv, Types
    <2>. QED BY <2>1 DEF Kept, AsLinked, Loaded, Written, At
<1>. QED
    BY <1>1, LoaderInvariance, KeptInvariance, PTL

\* A function has one thunk, which is still there when the program is launched,
\* and no page is granted but for objects and thunks (os2thunk.c:94).
THEOREM LinkedOneThunkEach ==
    Spec => [](Linked(exe) => OneThunkEach)
<1>1. LoaderInv /\ Kept => (Linked(exe) => OneThunkEach)
    <2>. SUFFICES ASSUME LoaderInv, Kept, Linked(exe), pc = "run"
                  PROVE  /\ \A f \in Thunks : mem[entries[f[1]][f[2]]].what = Thunk(f[1], f[2])
                         /\ Len(granted) = Len(mapped) + Cardinality(Thunks)
        BY DEF OneThunkEach
    <2>1. Thunks = ThunksOf(entries)
        BY DEF Thunks, ThunksOf
    <2>2. \A f \in ThunksOf(entries) : mem[entries[f[1]][f[2]]].what = Thunk(f[1], f[2])
        BY DEF Kept, ThunksKept
    <2>3. Len(granted) = Len(mapped) + Cardinality(ThunksOf(entries))
        <3>1. Pending(pc, vmm) = 0 /\ Len(mapped) \in Nat
            BY Numbers DEF Pending
        <3>2. /\ IsFiniteSet(ThunksOf(entries))
              /\ Len(granted) = Len(mapped) + Cardinality(ThunksOf(entries)) + 0
            BY <3>1 DEF LoaderInv, Granted
        <3>3. Cardinality(ThunksOf(entries)) \in Nat
            BY <3>2, FS_CardinalityType
        <3>. QED BY <3>1, <3>2, <3>3
    <2>. QED BY <2>1, <2>2, <2>3
<1>. QED
    BY <1>1, LoaderInvariance, KeptInvariance, PTL

\* The header names a page of an object for the entry point and one for the
\* top of the stack.
Entered(e) ==
    /\ e.start.obj \in DOMAIN e.objs /\ e.start.page < e.objs[e.start.obj].size
    /\ e.stack.obj \in DOMAIN e.objs
    /\ e.stack.page = NoStack \/ e.stack.page < e.objs[e.stack.obj].size

\* Execution starts where the file says, although the addresses are taken from
\* the file and not from where the objects were mapped (enterprs.c:459).
THEOREM LinkedStartsInside ==
    Spec => [](Linked(exe) /\ Entered(exe) => StartsInside)
<1>1. LoaderInv /\ Kept /\ Started => (Linked(exe) /\ Entered(exe) => StartsInside)
    <2>. SUFFICES ASSUME LoaderInv, Kept, Started, Linked(exe), Entered(exe), pc = "run"
                  PROVE  /\ mem[eip].what = ObjectPage(exe.start.obj, exe.start.page)
                         /\ mem[esp].what = ObjectPage(exe.stack.obj, exe.stack.page)
        BY DEF StartsInside
    <2>1. /\ Len(mapped) = Len(exe.objs) /\ exe \in Exes /\ DOMAIN exe.objs = 1 .. Len(exe.objs)
          /\ eip = AddressOf(exe, exe.start) /\ esp = AddressOf(exe, exe.stack)
        BY Numbers, Tables DEF Started
    <2>2. ASSUME NEW i \in 1 .. Len(mapped), NEW n \in 0 .. exe.objs[i].size - 1
          PROVE  mem[exe.objs[i].base + n].what = ObjectPage(i, n)
        BY DEF Kept, Loaded, Written
    <2>3. ASSUME NEW a, a.obj \in DOMAIN exe.objs, a.page \in Nat, a.page < exe.objs[a.obj].size
          PROVE  mem[AddressOf(exe, a)].what = ObjectPage(a.obj, a.page)
        <3>1. a.obj \in 1 .. Len(mapped) /\ a.obj # 0
            BY <2>1, <2>3
        <3>2. a.page \in 0 .. exe.objs[a.obj].size - 1
            BY <2>1, <2>3, Tables
        <3>. QED BY <2>2, <3>1, <3>2 DEF AddressOf
    <2>4. mem[eip].what = ObjectPage(exe.start.obj, exe.start.page)
        <3>1. exe.start.page \in Nat
            BY <2>1, Tables
        <3>. QED BY <2>1, <2>3, <3>1 DEF Entered
    <2>5. mem[esp].what = ObjectPage(exe.stack.obj, exe.stack.page)
        <3>1. exe.stack.page \in Nat /\ exe.stack.page # NoStack
            BY <2>1, Tables DEF Started
        <3>. QED BY <2>1, <2>3, <3>1 DEF Entered
    <2>. QED BY <2>4, <2>5
<1>. QED
    BY <1>1, LoaderInvariance, KeptInvariance, StartedInvariance, PTL

----------------------------------------------------------------------------
(***************************************************************************)
(* The fixups.  FixupPage takes the records of the first page for every    *)
(* page of an object, so only of executables whose pages have the records  *)
(* of the first one can the fixups be those of the file.  The others here  *)
(* are about what no linker makes: two records for one place, and an       *)
(* import of what lies behind a table.                                     *)
(***************************************************************************)
Fixable(e) ==
    \A i \in DOMAIN e.objs : LET records == RecordsOf(e, i) IN
        e.objs[i].pages > 0 =>
            /\ \A n \in 0 .. e.objs[i].pages - 1 : e.table[e.objs[i].first + n].fixups = records
            /\ \A q, r \in DOMAIN records : q # r => records[q].at \cap records[r].at = {}
            /\ \A q \in DOMAIN records :
                  records[q].mod \in DOMAIN e.libs /\ e.libs[records[q].mod] \in DOMAIN Libraries
                      => records[q].ord # Libraries[e.libs[records[q].mod]]

\* The modules are the libraries of the file, in its order.
ModulesRight ==
    /\ pc # "resolve" => Len(modules) = Len(exe.libs)
    /\ \A m \in 1 .. Len(modules) :
          modules[m] = IF exe.libs[m] \in DOMAIN Libraries THEN exe.libs[m] ELSE Missing

\* The tables tell which functions there are, thunks or not.
TablesRight ==
    \A l \in DOMAIN Libraries : \A n \in Ordinals(l) :
        n # Libraries[l] => (entries[l][n] # NoFunction <=> n \in Implemented[l])

\* The records that have been applied to a page that is written.
Applied(i, n) ==
    {q \in DOMAIN RecordsOf(exe, i) :
        /\ n < exe.objs[i].pages
        /\ i = Len(mapped) /\ n = page /\ pc \in {"fixup", "thunk"} => q < rec}

\* What a record leaves at the places it patches.
Exported(e, r) ==
    /\ r.kind = "import" /\ r.mod \in DOMAIN e.libs /\ e.libs[r.mod] \in DOMAIN Libraries
    /\ r.ord \in Implemented[e.libs[r.mod]]
Right(e, es, r, v) ==
    IF Exported(e, r) THEN v = es[e.libs[r.mod]][r.ord] /\ v > NoFunction
    ELSE v = IF r.self THEN 0 ELSE Unpatched

\* The places of a page of object i to which the records A have been applied.
PageFixed(e, es, fix, i, A) ==
    \A o \in Offsets :
        /\ (\A q \in A : o \notin RecordsOf(e, i)[q].at) => fix[o] = Unpatched
        /\ \A q \in A : o \in RecordsOf(e, i)[q].at => Right(e, es, RecordsOf(e, i)[q], fix[o])

Patched ==
    \A i \in 1 .. Len(mapped) : \A n \in 0 .. exe.objs[i].size - 1 :
        Written(i, n) =>
            PageFixed(exe, entries, mem[exe.objs[i].base + n].fix, i, Applied(i, n))

FixedInv == ModulesRight /\ TablesRight /\ (Linked(exe) /\ Fixable(exe) => Patched)

\* The tables as they are linked.
LEMMA FixedInit ==
    ASSUME Init
    PROVE  FixedInv
<1>1. mapped = <<>> /\ modules = <<>> /\ pc = "resolve"
    BY DEF Init
<1>2. Len(mapped) = 0 /\ Len(modules) = 0
    BY <1>1
<1>3. ModulesRight /\ Patched
    BY <1>1, <1>2 DEF ModulesRight, Patched
<1>4. TablesRight
    BY LoaderAssumption DEF Init, TableWith, TablesRight, NoFunction, Host, Ordinals
<1>. QED
    BY <1>3, <1>4 DEF FixedInv

\* A library takes the next number, found or not.
LEMMA ModulesStep ==
    ASSUME LoaderInv, ModulesRight, [Next]_vars
    PROVE  ModulesRight'
<1>1. /\ modules \in Seq(DOMAIN Libraries \cup {Missing}) /\ Len(modules) <= Len(exe.libs)
      /\ Len(modules) \in Nat /\ Len(exe.libs) \in Nat
    BY Tables DEF LoaderInv, Types
<1>2. CASE ResolveImport
    <2>. DEFINE library == exe.libs[Len(modules) + 1]
                found == IF library \in DOMAIN Libraries THEN library ELSE Missing
    <2>1. pc' = "resolve" /\ exe' = exe /\ modules' = Append(modules, found)
        BY <1>2 DEF ResolveImport, placeVars
    <2>2. found \in DOMAIN Libraries \cup {Missing}
        OBVIOUS
    <2>. HIDE DEF found
    <2>3. /\ Len(modules') = Len(modules) + 1 /\ modules'[Len(modules) + 1] = found
          /\ \A m \in 1 .. Len(modules) : modules'[m] = modules[m]
        BY <1>1, <2>1, <2>2
    <2>4. ASSUME NEW m \in 1 .. Len(modules')
          PROVE  modules'[m] = IF exe.libs[m] \in DOMAIN Libraries THEN exe.libs[m] ELSE Missing
        <3>1. m \in 1 .. Len(modules) \/ m = Len(modules) + 1
            BY <1>1, <2>3
        <3>. QED BY <2>3, <3>1 DEF ModulesRight, found
    <2>. QED BY <2>1, <2>4 DEF ModulesRight
<1>3. CASE ResolveEnd
    BY <1>3 DEF ResolveEnd, ModulesRight
<1>4. CASE /\ UNCHANGED <<exe, modules>>
           /\ pc = "resolve" => pc' = "resolve"
    BY <1>4 DEF ModulesRight
<1>5. CASE MapObject \/ ObjectMapped \/ LoadPage \/ LoadUnknown \/ ClearRest \/ FixupMissing
           \/ GenerateThunk \/ ThunkMade \/ FixupUnsupported \/ FixupEnd \/ Launch
    <2>1. UNCHANGED <<exe, modules>> /\ pc # "resolve"
        BY <1>5 DEF MapObject, ObjectMapped, LoadPage, LoadUnknown, ClearRest, FixupMissing,
           GenerateThunk, ThunkMade, FixupUnsupported, FixupEnd, Launch, HasEntry, AtFixup
    <2>. QED BY <1>4, <2>1
<1>6. CASE FixupInternal \/ FixupInvalid \/ FixupThunked
    <2>1. pc = "fixup" /\ \E value : doFixup(value)
        BY <1>6, Patches
    <2>2. UNCHANGED <<exe, modules>>
        BY <2>1 DEF doFixup
    <2>. QED BY <1>4, <2>1, <2>2
<1>7. CASE Allocate \/ UNCHANGED vars
    <2>1. UNCHANGED <<exe, modules, pc>>
        BY <1>7 DEF Allocate, placeVars, vars
    <2>. QED BY <1>4, <2>1
<1>. QED
    BY <1>2, <1>3, <1>5, <1>6, <1>7 DEF Next, LoadLX

\* The tables change where a thunk is made, and where there was none.
LEMMA TablesChange ==
    ASSUME LoaderInv, [Next]_vars
    PROVE  entries' = entries \/ ThunkMade
<1>1. CASE QuietSteps
    BY <1>1, QuietFrame
<1>2. CASE MapObject \/ ObjectMapped \/ GenerateThunk \/ Allocate \/ UNCHANGED vars
    BY <1>2 DEF MapObject, ObjectMapped, GenerateThunk, Allocate, vars
<1>. QED
    BY <1>1, <1>2, StepKinds

\* A thunk replaces a function, and never what is none.
LEMMA TablesStep ==
    ASSUME LoaderInv, TablesRight, [Next]_vars
    PROVE  TablesRight'
<1>1. CASE entries' = entries
    BY <1>1 DEF TablesRight
<1>2. CASE ThunkMade
    <2>1. entries[Library][Fixup.ord] = Host
        <3>1. pc = "thunk"
            BY <1>2 DEF ThunkMade
        <3>2. Fixup = RecordsOf(exe, Len(mapped))[rec] /\ Library = LibraryOf(modules, Fixup.mod)
            BY DEF Fixup, Records, Object, Number, RecordsOf, Library, Module, LibraryOf
        <3>. QED BY <3>1, <3>2 DEF LoaderInv, Progress
    <2>2. ASSUME NEW l \in DOMAIN Libraries, NEW n \in Ordinals(l)
          PROVE  entries'[l][n] # NoFunction <=> entries[l][n] # NoFunction
        <3>1. CASE l = Library /\ n = Fixup.ord
            <4>1. entries'[l][n] = Returned /\ Returned > NoFunction /\ Returned \in VMM!Page
                BY <1>2, <3>1, NewThunk
            <4>2. entries'[l][n] # NoFunction
                BY <4>1, Bitmap DEF NoFunction
            <4>. QED BY <2>1, <3>1, <4>2 DEF NoFunction, Host
        <3>2. CASE ~(l = Library /\ n = Fixup.ord)
            BY <1>2, <3>2, NewThunk
        <3>. QED BY <3>1, <3>2
    <2>. QED BY <2>2 DEF TablesRight
<1>. QED
    BY <1>1, <1>2, TablesChange

\* A fixup has the page of the thunk of what is exported, and 0 for the rest.
LEMMA FixupValue ==
    ASSUME LoaderInv, ModulesRight, TablesRight, Fixable(exe),
           FixupInternal \/ FixupInvalid \/ FixupThunked
    PROVE  \E value \in VMM!Page :
              /\ doFixup(value)
              /\ IF Exported(exe, Fixup)
                 THEN value = entries[exe.libs[Fixup.mod]][Fixup.ord] /\ value > NoFunction
                 ELSE value = 0
<1>1. pc = "fixup" /\ rec <= Len(Records)
    BY DEF FixupInternal, FixupInvalid, FixupThunked, HasEntry, AtFixup
<1>2. /\ Fixup \in FixupRecord /\ Library \in DOMAIN Libraries \cup {Missing}
      /\ Records = RecordsOf(exe, Len(mapped)) /\ rec \in DOMAIN Records /\ Fixup = Records[rec]
      /\ Len(mapped) > 0 /\ page < exe.objs[Len(mapped)].pages
    BY <1>1, AtRecord DEF Fixup
<1>3. Fixup.mod \in Nat /\ Fixup.ord \in Nat
    BY <1>2 DEF FixupRecord
<1>4. /\ modules \in Seq(DOMAIN Libraries \cup {Missing}) /\ exe \in Exes
      /\ Len(modules) = Len(exe.libs) /\ DOMAIN modules = DOMAIN exe.libs
    <2>1. modules \in Seq(DOMAIN Libraries \cup {Missing}) /\ exe \in Exes /\ exe.libs \in Seq(STRING)
        BY Tables DEF LoaderInv, Types
    <2>2. Len(modules) = Len(exe.libs)
        BY <1>1 DEF ModulesRight
    <2>3. DOMAIN modules = 1 .. Len(modules) /\ DOMAIN exe.libs = 1 .. Len(exe.libs)
        BY <2>1
    <2>. QED BY <2>1, <2>2, <2>3
<1>5. Fixup.mod \in DOMAIN exe.libs =>
          Library = IF exe.libs[Fixup.mod] \in DOMAIN Libraries THEN exe.libs[Fixup.mod] ELSE Missing
    <2>1. DOMAIN modules = 1 .. Len(modules)
        BY <1>4
    <2>. QED BY <1>4, <2>1 DEF ModulesRight, Library, Module
<1>6. Fixup.mod \notin DOMAIN exe.libs => Library = Missing
    BY <1>4 DEF Library, Module
<1>7. ASSUME Exported(exe, Fixup)
      PROVE  /\ Library = exe.libs[Fixup.mod] /\ Library \in DOMAIN Libraries /\ Library # Missing
             /\ Fixup.ord \in Ordinals(Library) /\ ~BadModule
             /\ Entry = entries[Library][Fixup.ord] /\ Entry # NoFunction
    <2>1. /\ Fixup.mod \in DOMAIN exe.libs /\ exe.libs[Fixup.mod] \in DOMAIN Libraries
          /\ Fixup.ord \in Implemented[exe.libs[Fixup.mod]]
        BY <1>7 DEF Exported
    <2>2. Library = exe.libs[Fixup.mod] /\ Library \in DOMAIN Libraries /\ Library # Missing
        BY <1>5, <2>1, LoaderAssumption
    <2>3. Fixup.ord \in 0 .. Libraries[Library] - 1 /\ Libraries[Library] \in Nat
        BY <2>1, <2>2, LoaderAssumption
    <2>4. Fixup.ord \in Ordinals(Library) /\ Fixup.ord # Libraries[Library]
        BY <2>3 DEF Ordinals
    <2>5. Entry = entries[Library][Fixup.ord]
        BY <2>3 DEF Entry
    <2>6. Entry # NoFunction
        BY <2>1, <2>2, <2>4, <2>5 DEF TablesRight
    <2>7. ~BadModule
        <3>1. Fixup.mod \in 1 .. Len(modules)
            BY <1>4, <2>1
        <3>. QED BY <3>1 DEF BadModule
    <2>. QED BY <2>2, <2>4, <2>5, <2>6, <2>7
<1>8. CASE FixupInternal \/ FixupInvalid
    <2>1. doFixup(0)
        BY <1>8 DEF FixupInternal, FixupInvalid
    <2>2. CASE FixupInternal
        <3>1. Fixup.kind = "internal"
            BY <2>2 DEF FixupInternal, AtFixup
        <3>. QED BY <2>1, <3>1, Bitmap DEF Exported
    <2>3. CASE FixupInvalid
        <3>1. BadModule \/ (Library # Missing /\ Entry = NoFunction)
            BY <2>3 DEF FixupInvalid
        <3>2. ~Exported(exe, Fixup)
            BY <1>7, <3>1
        <3>. QED BY <2>1, <3>2, Bitmap
    <2>. QED BY <1>8, <2>2, <2>3
<1>9. CASE FixupThunked
    <2>1. HasEntry /\ Entry # NoFunction /\ Entry # Host /\ doFixup(Entry)
        BY <1>9 DEF FixupThunked
    <2>2. /\ Library \in DOMAIN Libraries /\ Fixup.ord \in Ordinals(Library)
          /\ Entry = entries[Library][Fixup.ord] /\ Entry \in VMM!Page \cup {Host}
        BY <1>1, <2>1, EntryRead
    <2>3. Entry \in VMM!Page /\ Entry > NoFunction
        <3>1. Entry \in Nat
            BY <2>1, <2>2, Bitmap
        <3>. QED BY <2>1, <2>2, <3>1 DEF NoFunction
    <2>4. Library # Missing /\ Fixup.kind = "import"
        BY <2>1 DEF HasEntry, AtFixup
    <2>5. Fixup.mod \in DOMAIN exe.libs /\ Library = exe.libs[Fixup.mod]
        BY <1>5, <1>6, <2>4
    <2>6. Fixup.ord # Libraries[Library]
        <3>1. Len(mapped) \in DOMAIN exe.objs
            BY <1>2, <1>4, Numbers, Tables
        <3>2. exe.objs[Len(mapped)].pages > 0
            <4>1. exe.objs[Len(mapped)].pages \in Nat /\ page \in Nat
                BY <1>4, <3>1, Numbers, Tables
            <4>. QED BY <1>2, <4>1
        <3>. QED BY <1>2, <2>2, <2>5, <3>1, <3>2 DEF Fixable
    <2>7. Exported(exe, Fixup)
        <3>1. Fixup.ord \in Implemented[Library]
            BY <2>1, <2>2, <2>6 DEF TablesRight
        <3>. QED BY <2>2, <2>4, <2>5, <3>1 DEF Exported
    <2>. QED BY <2>1, <2>2, <2>3, <2>5, <2>7
<1>. QED
    BY <1>8, <1>9

\* One record more applied to a page: no other patches the same places.
LEMMA RecordApplied ==
    ASSUME NEW e, NEW es, NEW fix, NEW i, NEW r, NEW value, NEW new,
           NEW A, r \in DOMAIN RecordsOf(e, i), A \subseteq DOMAIN RecordsOf(e, i), r \notin A,
           \A q \in A : RecordsOf(e, i)[q].at \cap RecordsOf(e, i)[r].at = {},
           PageFixed(e, es, fix, i, A),
           IF Exported(e, RecordsOf(e, i)[r])
           THEN value = es[e.libs[RecordsOf(e, i)[r].mod]][RecordsOf(e, i)[r].ord] /\ value > NoFunction
           ELSE value = 0,
           value \in Nat,
           new = [o \in Offsets |-> IF o \in RecordsOf(e, i)[r].at /\ (value # 0 \/ RecordsOf(e, i)[r].self)
                                    THEN value ELSE fix[o]]
    PROVE  PageFixed(e, es, new, i, A \cup {r})
<1>. DEFINE R == RecordsOf(e, i)
<1>1. ASSUME NEW o \in Offsets, \A q \in A \cup {r} : o \notin R[q].at
      PROVE  new[o] = Unpatched
    BY <1>1 DEF PageFixed
<1>2. ASSUME NEW o \in Offsets, NEW q \in A \cup {r}, o \in R[q].at
      PROVE  Right(e, es, R[q], new[o])
    <2>1. CASE q \in A
        BY <1>2, <2>1 DEF PageFixed
    <2>2. CASE q = r
        <3>1. fix[o] = Unpatched
            BY <1>2, <2>2 DEF PageFixed
        <3>2. CASE Exported(e, R[r])
            <4>1. value # 0
                BY <3>2 DEF NoFunction
            <4>. QED BY <1>2, <2>2, <3>2, <4>1 DEF Right
        <3>3. CASE ~Exported(e, R[r])
            BY <1>2, <2>2, <3>1, <3>3 DEF Right
        <3>. QED BY <3>2, <3>3
    <2>. QED BY <2>1, <2>2
<1>. QED
    BY <1>1, <1>2 DEF PageFixed

\* A thunk made for a function leaves the fixups of others right.
LEMMA FixedStays ==
    ASSUME LoaderInv, ThunkMade, NEW e \in Exes, NEW fix, NEW i, NEW A,
           PageFixed(e, entries, fix, i, A)
    PROVE  PageFixed(e, entries', fix, i, A)
<1>1. entries[Library][Fixup.ord] = Host
    <2>1. pc = "thunk"
        BY DEF ThunkMade
    <2>2. Fixup = RecordsOf(exe, Len(mapped))[rec] /\ Library = LibraryOf(modules, Fixup.mod)
        BY DEF Fixup, Records, Object, Number, RecordsOf, Library, Module, LibraryOf
    <2>. QED BY <2>1, <2>2 DEF LoaderInv, Progress
<1>2. ASSUME NEW r, NEW v, Right(e, entries, r, v)
      PROVE  Right(e, entries', r, v)
    <2>1. CASE Exported(e, r)
        <3>. DEFINE l == e.libs[r.mod]
        <3>1. l \in DOMAIN Libraries /\ r.ord \in Implemented[l]
            BY <2>1 DEF Exported
        <3>2. r.ord \in Ordinals(l)
            <4>1. Implemented[l] \subseteq 0 .. Libraries[l] - 1 /\ Libraries[l] \in Nat
                BY <3>1, LoaderAssumption
            <4>. QED BY <3>1, <4>1 DEF Ordinals
        <3>3. v = entries[l][r.ord] /\ v > NoFunction
            BY <1>2, <2>1 DEF Right
        <3>4. ~(l = Library /\ r.ord = Fixup.ord)
            BY <1>1, <3>3 DEF NoFunction, Host
        <3>5. entries'[l][r.ord] = entries[l][r.ord]
            BY <3>1, <3>2, <3>4, NewThunk
        <3>. QED BY <2>1, <3>3, <3>5 DEF Right
    <2>2. CASE ~Exported(e, r)
        BY <1>2, <2>2 DEF Right
    <2>. QED BY <2>1, <2>2
<1>. QED
    BY <1>2 DEF PageFixed

Untouched == [o \in Offsets |-> Unpatched]

\* A page just written has no fixups.
LEMMA FreshFixed ==
    ASSUME NEW e, NEW es, NEW i
    PROVE  PageFixed(e, es, Untouched, i, {})
BY DEF PageFixed, Untouched

\* Nor has any other page of it changed.
LEMMA WrittenFix ==
    ASSUME mem \in [VMM!Page -> PageContent], NEW q, NEW c,
           mem' = [mem EXCEPT ![q] = Fresh(c)]
    PROVE  \A p \in VMM!Page : mem'[p].fix = IF p = q THEN Untouched ELSE mem[p].fix
BY DEF Fresh, Untouched

\* Every step leaves the fixups of the pages written so far right.
LEMMA PatchedStep ==
    ASSUME LoaderInv, Linked(exe), Fixable(exe), AsLinked, ModulesRight, TablesRight, Patched,
           [Next]_vars
    PROVE  Patched'
<1>1. mem \in [VMM!Page -> PageContent]
    BY DEF LoaderInv, Types
<1>2. /\ exe \in Exes /\ Len(mapped) \in Nat /\ Len(mapped) <= Len(exe.objs) /\ page \in Nat
      /\ DOMAIN exe.objs = 1 .. Len(exe.objs) /\ Len(exe.objs) \in Nat /\ rec \in Nat
    BY Numbers, Tables
<1>. DEFINE At_(i, n) == exe.objs[i].base + n
<1>3. ASSUME exe' = exe, Len(mapped') = Len(mapped),
             \A i \in 1 .. Len(mapped) : \A n \in 0 .. exe.objs[i].size - 1 :
                Written(i, n)' => PageFixed(exe, entries', mem'[At_(i, n)].fix, i, Applied(i, n)')
      PROVE  Patched'
    BY <1>3 DEF Patched
<1>4. ASSUME NEW i \in 1 .. Len(mapped), NEW n \in 0 .. exe.objs[i].size - 1
      PROVE  /\ At_(i, n) \in VMM!Page /\ At_(i, n) < ThunkBase /\ At_(i, n) \in Nat
             /\ \A j \in 1 .. Len(mapped) : \A m \in 0 .. exe.objs[j].size - 1 :
                   At_(i, n) = At_(j, m) => i = j /\ n = m
             /\ n \in Nat /\ exe.objs[i].size \in Nat /\ exe.objs[i].pages \in Nat
    <2>1. i \in 1 .. Len(exe.objs) /\ 1 .. Len(mapped) \subseteq 1 .. Len(exe.objs)
        BY <1>2
    <2>2. exe.objs[i].size \in Nat /\ exe.objs[i].pages \in Nat
        BY <1>2, <2>1, Tables
    <2>3. n \in Nat
        BY <2>2
    <2>4. /\ At_(i, n) \in VMM!Page /\ At_(i, n) < ThunkBase
          /\ \A j \in 1 .. Len(exe.objs) : \A m \in 0 .. exe.objs[j].size - 1 :
                At_(i, n) = At_(j, m) => i = j /\ n = m
        BY <1>2, <2>1, ObjectPages
    <2>5. \A j \in 1 .. Len(mapped) : \A m \in 0 .. exe.objs[j].size - 1 :
              At_(i, n) = At_(j, m) => i = j /\ n = m
        BY <2>1, <2>4
    <2>. QED BY <2>2, <2>3, <2>4, <2>5, Bitmap
<1>. HIDE DEF At_
<1>5. \A i \in 1 .. Len(mapped) : \A n \in 0 .. exe.objs[i].size - 1 :
          Written(i, n) => PageFixed(exe, entries, mem[At_(i, n)].fix, i, Applied(i, n))
    BY DEF Patched, At_
<1>6. CASE ResolveImport \/ ResolveEnd \/ LoadUnknown \/ FixupMissing \/ FixupUnsupported
           \/ Launch \/ MapObject \/ GenerateThunk \/ Allocate \/ UNCHANGED vars
    <2>1. UNCHANGED <<exe, mapped, page, rec, mem, entries>>
        BY <1>6 DEF ResolveImport, ResolveEnd, LoadUnknown, FixupMissing, FixupUnsupported,
                    Launch, MapObject, GenerateThunk, Allocate, vars, placeVars
    <2>2. \/ pc' = pc
          \/ pc' \in {"exit", "crash"}
          \/ pc \in {"resolve", "map"} /\ pc' \in {"map", "mapping", "run"}
          \/ pc = "fixup" /\ pc' = "thunk"
        BY <1>6 DEF ResolveImport, ResolveEnd, LoadUnknown, FixupMissing, FixupUnsupported,
                    Launch, MapObject, GenerateThunk, HasEntry, AtFixup, Allocate, vars, placeVars
    <2>3. ASSUME NEW i \in 1 .. Len(mapped), NEW n \in 0 .. exe.objs[i].size - 1, Written(i, n)'
          PROVE  Written(i, n) /\ Applied(i, n)' = Applied(i, n)
        <3>1. Written(i, n)
            BY <2>1, <2>2, <2>3 DEF Written
        <3>2. (i = Len(mapped) /\ pc \in {"fixup", "thunk"}) <=> (i = Len(mapped) /\ pc' \in {"fixup", "thunk"})
            BY <1>2, <2>1, <2>2, <2>3 DEF Written
        <3>3. Applied(i, n)' = Applied(i, n)
            BY <2>1, <3>2 DEF Applied
        <3>. QED BY <3>1, <3>3
    <2>. QED BY <1>3, <1>5, <2>1, <2>3
<1>7. CASE FixupEnd
    <2>1. /\ pc = "fixup" /\ pc' = "page" /\ page' = page + 1
          /\ rec > Len(Records) /\ UNCHANGED <<exe, mapped, mem, entries>>
        BY <1>7 DEF FixupEnd
    <2>2. Records = RecordsOf(exe, Len(mapped)) /\ Records \in Seq(FixupRecord)
        <3>1. Len(mapped) > 0 /\ page < exe.objs[Len(mapped)].pages
            BY <2>1 DEF LoaderInv, Progress
        <3>2. Len(mapped) \in 1 .. Len(exe.objs)
            BY <1>2, <3>1
        <3>3. exe.objs[Len(mapped)].pages > 0
            <4>1. exe.objs[Len(mapped)].pages \in Nat
                BY <1>2, <3>2, Tables
            <4>. QED BY <1>2, <3>1, <4>1
        <3>. QED BY <1>2, <3>2, <3>3, Tables DEF Records, Object, Number, RecordsOf
    <2>3. ASSUME NEW i \in 1 .. Len(mapped), NEW n \in 0 .. exe.objs[i].size - 1, Written(i, n)'
          PROVE  Written(i, n) /\ Applied(i, n)' = Applied(i, n)
        <3>1. Written(i, n)
            BY <1>2, <1>4, <2>1, <2>3 DEF Written
        <3>2. i = Len(mapped) => \A q \in DOMAIN RecordsOf(exe, i) : q < rec
            BY <1>2, <2>1, <2>2
        <3>3. Applied(i, n)' = {q \in DOMAIN RecordsOf(exe, i) : n < exe.objs[i].pages}
            BY <2>1 DEF Applied
        <3>4. Applied(i, n) = {q \in DOMAIN RecordsOf(exe, i) : n < exe.objs[i].pages}
            BY <3>2 DEF Applied
        <3>. QED BY <3>1, <3>3, <3>4
    <2>. QED BY <1>3, <1>5, <2>1, <2>3
<1>8. CASE FixupInternal \/ FixupInvalid \/ FixupThunked
    <2>1. PICK value \in VMM!Page :
              /\ doFixup(value)
              /\ IF Exported(exe, Fixup)
                 THEN value = entries[exe.libs[Fixup.mod]][Fixup.ord] /\ value > NoFunction
                 ELSE value = 0
        BY <1>8, FixupValue
    <2>2. pc = "fixup" /\ rec <= Len(Records)
        BY <1>8 DEF FixupInternal, FixupInvalid, FixupThunked, HasEntry, AtFixup
    <2>. DEFINE k == Len(mapped)
                new == [o \in Offsets |-> IF o \in Fixup.at /\ (value # 0 \/ Fixup.self)
                                          THEN value ELSE mem[Dst].fix[o]]
    <2>3. /\ rec' = rec + 1 /\ UNCHANGED <<pc, mapped, page, exe, entries>>
          /\ mem' = [mem EXCEPT ![Dst] = [mem[Dst] EXCEPT !.fix = new]]
        BY <2>1 DEF doFixup
    <2>4. /\ k > 0 /\ page < exe.objs[k].pages /\ page < Object.pages
          /\ Records = RecordsOf(exe, k) /\ rec \in DOMAIN RecordsOf(exe, k)
          /\ Fixup = RecordsOf(exe, k)[rec]
        BY <2>2, AtRecord DEF Object, Number
    <2>5. /\ Number = k /\ k \in 1 .. Len(exe.objs) /\ k \in 1 .. Len(mapped)
          /\ page \in 0 .. exe.objs[k].size - 1 /\ Dst = At_(k, page) /\ Dst \in VMM!Page
        BY <2>2, <2>4, DstInside DEF At_
    <2>. HIDE DEF new
    <2>6. mem'[Dst].fix = new /\ \A p \in VMM!Page : p # Dst => mem'[p].fix = mem[p].fix
        <3>1. mem[Dst] \in PageContent
            BY <1>1, <2>5
        <3>. QED BY <1>1, <2>3, <2>5, <3>1 DEF PageContent
    <2>7. /\ Applied(k, page) = {q \in DOMAIN RecordsOf(exe, k) : q < rec}
          /\ Applied(k, page)' = {q \in DOMAIN RecordsOf(exe, k) : q < rec + 1}
        BY <2>2, <2>3, <2>4 DEF Applied
    <2>8. Applied(k, page)' = Applied(k, page) \cup {rec}
        <3>1. DOMAIN RecordsOf(exe, k) \subseteq Nat
            <4>1. RecordsOf(exe, k) \in Seq(FixupRecord)
                BY <2>2, <2>4, AtRecord
            <4>. QED BY <4>1
        <3>2. ASSUME NEW q \in DOMAIN RecordsOf(exe, k)
              PROVE  q < rec + 1 <=> q < rec \/ q = rec
            BY <1>2, <3>1
        <3>. QED BY <2>4, <2>7, <3>2
    <2>9. PageFixed(exe, entries, mem[Dst].fix, k, Applied(k, page))
        <3>1. Written(k, page)
            BY <2>2 DEF Written
        <3>. QED BY <1>5, <2>5, <3>1
    <2>10. PageFixed(exe, entries, new, k, Applied(k, page) \cup {rec})
        <3>1. rec \notin Applied(k, page) /\ Applied(k, page) \subseteq DOMAIN RecordsOf(exe, k)
            BY <1>2, <2>7
        <3>2. \A q \in Applied(k, page) : RecordsOf(exe, k)[q].at \cap RecordsOf(exe, k)[rec].at = {}
            <4>1. exe.objs[k].pages > 0 /\ k \in DOMAIN exe.objs
                <5>1. exe.objs[k].pages \in Nat
                    BY <1>4, <2>5
                <5>. QED BY <1>2, <2>4, <2>5, <5>1
            <4>. QED BY <2>4, <3>1, <4>1 DEF Fixable
        <3>3. value \in Nat
            BY Bitmap
        <3>4. new = [o \in Offsets |->
                  IF o \in RecordsOf(exe, k)[rec].at /\ (value # 0 \/ RecordsOf(exe, k)[rec].self)
                  THEN value ELSE mem[Dst].fix[o]]
            BY <2>4 DEF new
        <3>5. IF Exported(exe, RecordsOf(exe, k)[rec])
              THEN /\ value = entries[exe.libs[RecordsOf(exe, k)[rec].mod]][RecordsOf(exe, k)[rec].ord]
                   /\ value > NoFunction
              ELSE value = 0
            BY <2>1, <2>4
        <3>. HIDE DEF k
        <3>. QED BY <2>4, <2>9, <3>1, <3>2, <3>3, <3>4, <3>5, RecordApplied
    <2>11. ASSUME NEW i \in 1 .. Len(mapped), NEW n \in 0 .. exe.objs[i].size - 1, Written(i, n)'
           PROVE  PageFixed(exe, entries', mem'[At_(i, n)].fix, i, Applied(i, n)')
        <3>1. Written(i, n)
            BY <2>3, <2>11 DEF Written
        <3>2. CASE i = k /\ n = page
            BY <2>3, <2>5, <2>6, <2>8, <2>10, <3>2
        <3>3. CASE ~(i = k /\ n = page)
            <4>1. At_(i, n) # Dst /\ At_(i, n) \in VMM!Page
                BY <1>4, <2>5, <3>3
            <4>2. mem'[At_(i, n)].fix = mem[At_(i, n)].fix
                BY <2>6, <4>1
            <4>3. Applied(i, n)' = Applied(i, n)
                BY <2>3, <3>3 DEF Applied
            <4>. QED BY <1>5, <2>3, <3>1, <4>2, <4>3
        <3>. QED BY <3>2, <3>3
    <2>. QED BY <1>3, <2>3, <2>11
<1>9. CASE ThunkMade
    <2>1. /\ pc = "thunk" /\ vmm = "idle" /\ pc' = "fixup" /\ UNCHANGED <<exe, mapped, page, rec>>
          /\ mem' = [mem EXCEPT ![Returned] = Fresh(Thunk(Library, Fixup.ord))]
        BY <1>9 DEF ThunkMade
    <2>2. Returned >= ThunkBase /\ Returned \in Nat
        BY <2>1, BlockCame DEF LoaderInv, Request
    <2>3. \A p \in VMM!Page : mem'[p].fix = IF p = Returned THEN Untouched ELSE mem[p].fix
        BY <1>1, <2>1, WrittenFix
    <2>4. ASSUME NEW i \in 1 .. Len(mapped), NEW n \in 0 .. exe.objs[i].size - 1, Written(i, n)'
          PROVE  PageFixed(exe, entries', mem'[At_(i, n)].fix, i, Applied(i, n)')
        <3>1. Written(i, n) /\ Applied(i, n)' = Applied(i, n)
            BY <2>1, <2>4 DEF Written, Applied
        <3>2. At_(i, n) \in VMM!Page /\ At_(i, n) # Returned
            BY <1>4, <2>2, Bitmap
        <3>3. mem'[At_(i, n)].fix = mem[At_(i, n)].fix
            BY <2>3, <3>2
        <3>4. PageFixed(exe, entries, mem[At_(i, n)].fix, i, Applied(i, n))
            BY <1>5, <3>1
        <3>5. PageFixed(exe, entries', mem[At_(i, n)].fix, i, Applied(i, n))
            BY <1>2, <1>9, <3>4, FixedStays
        <3>. QED BY <3>1, <3>3, <3>5
    <2>. QED BY <1>3, <2>1, <2>4
<1>10. CASE LoadPage
    <2>1. /\ pc = "page" /\ page < Object.pages /\ pc' = "fixup" /\ rec' = 1
          /\ UNCHANGED <<exe, mapped, page, entries>>
          /\ mem' = [mem EXCEPT ![Dst] = Fresh(ObjectPage(Number, page))]
        BY <1>10 DEF LoadPage
    <2>2. /\ Number = Len(mapped) /\ Number \in 1 .. Len(exe.objs)
          /\ page \in 0 .. exe.objs[Number].size - 1 /\ Dst = At_(Number, page)
          /\ Number \in 1 .. Len(mapped) /\ page < exe.objs[Number].pages
        BY <2>1, DstInside DEF At_, Object
    <2>3. \A p \in VMM!Page : mem'[p].fix = IF p = Dst THEN Untouched ELSE mem[p].fix
        BY <1>1, <2>1, WrittenFix
    <2>4. ASSUME NEW i \in 1 .. Len(mapped), NEW n \in 0 .. exe.objs[i].size - 1, Written(i, n)'
          PROVE  PageFixed(exe, entries', mem'[At_(i, n)].fix, i, Applied(i, n)')
        <3>1. At_(i, n) \in VMM!Page
            BY <1>4
        <3>2. CASE i = Number /\ n = page
            <4>1. Applied(i, n)' = {}
                <5>1. RecordsOf(exe, i) \in Seq(FixupRecord)
                    <6>1. exe.objs[i].pages > 0
                        BY <1>2, <1>4, <2>2, <3>2
                    <6>. QED BY <1>2, <2>2, <3>2, <6>1, Tables
                <5>2. \A q \in DOMAIN RecordsOf(exe, i) : ~(q < 1)
                    BY <5>1
                <5>. QED BY <2>1, <2>2, <3>2, <5>2 DEF Applied
            <4>. QED BY <2>2, <2>3, <3>1, <3>2, <4>1, FreshFixed
        <3>3. CASE ~(i = Number /\ n = page)
            <4>1. At_(i, n) # Dst
                BY <1>4, <2>2, <3>3
            <4>2. Written(i, n)
                BY <1>2, <2>1, <2>2, <2>4, <3>3 DEF Written
            <4>3. Applied(i, n)' = Applied(i, n)
                BY <2>1, <2>2, <3>3 DEF Applied
            <4>. QED BY <1>5, <2>1, <2>3, <3>1, <4>1, <4>2, <4>3
        <3>. QED BY <3>2, <3>3
    <2>. QED BY <1>3, <2>1, <2>4
<1>11. CASE ClearRest
    <2>1. /\ pc = "page" /\ page = Object.pages /\ pc' = "map" /\ UNCHANGED <<exe, mapped, entries>>
          /\ mem' = [p \in VMM!Page |->
                       IF p \in Dst .. mapped[Number] + Object.size - 1
                       THEN Fresh(ObjectPage(Number, p - mapped[Number])) ELSE mem[p]]
        BY <1>11 DEF ClearRest
    <2>2. Number = Len(mapped) /\ Number \in 1 .. Len(mapped) /\ Number \in 1 .. Len(exe.objs)
        <3>1. Len(mapped) > 0
            BY <2>1 DEF LoaderInv, Progress
        <3>. QED BY <1>2, <3>1 DEF Number
    <2>. DEFINE b == exe.objs[Number].base
                z == exe.objs[Number].size
    <2>3. b \in Nat /\ z \in Nat /\ mapped[Number] = b /\ Object.size = z
        BY <1>2, <2>2, Tables DEF AsLinked, Object
    <2>4. Dst = b + page
        BY <2>3 DEF Dst
    <2>5. ASSUME NEW i \in 1 .. Len(mapped), NEW n \in 0 .. exe.objs[i].size - 1
          PROVE  PageFixed(exe, entries', mem'[At_(i, n)].fix, i, Applied(i, n)')
        <3>1. At_(i, n) \in VMM!Page /\ At_(i, n) \in Nat /\ n \in Nat
            BY <1>4
        <3>2. CASE i = Number /\ n >= page
            <4>1. At_(i, n) = b + n /\ n \in 0 .. z - 1
                BY <3>2 DEF At_
            <4>2. At_(i, n) \in b + page .. b + z - 1
                <5>. HIDE DEF b, z
                <5>. QED BY <1>2, <2>3, <3>1, <3>2, <4>1
            <4>3. mem'[At_(i, n)].fix = Untouched
                <5>. HIDE DEF b, z
                <5>. QED BY <2>1, <2>3, <2>4, <3>1, <4>2 DEF Fresh, Untouched
            <4>4. Applied(i, n)' = {}
                <5>1. ~(n < exe.objs[i].pages)
                    BY <1>2, <1>4, <2>1, <3>1, <3>2 DEF Object
                <5>. QED BY <2>1, <5>1 DEF Applied
            <4>. QED BY <4>3, <4>4, FreshFixed
        <3>3. CASE ~(i = Number /\ n >= page)
            <4>1. Written(i, n)
                BY <1>2, <2>1, <2>2, <3>1, <3>3 DEF Written
            <4>2. At_(i, n) \notin b + page .. b + z - 1
                <5>1. SUFFICES ASSUME At_(i, n) \in b + page .. b + z - 1 PROVE FALSE
                    OBVIOUS
                <5>. DEFINE m == At_(i, n) - b
                <5>2. m \in 0 .. z - 1 /\ m >= page /\ b + m = At_(i, n)
                    <6>. HIDE DEF b, z
                    <6>. QED BY <1>2, <2>3, <3>1, <5>1, SMTT(30)
                <5>. HIDE DEF m
                <5>3. At_(i, n) = At_(Number, m)
                    BY <5>2 DEF At_
                <5>4. i = Number /\ n = m
                    BY <1>4, <2>2, <5>2, <5>3
                <5>. QED BY <3>3, <5>2, <5>4
            <4>3. mem'[At_(i, n)] = mem[At_(i, n)]
                BY <2>1, <2>3, <2>4, <3>1, <4>2
            <4>4. Applied(i, n)' = Applied(i, n)
                BY <2>1 DEF Applied
            <4>. QED BY <1>5, <2>1, <4>1, <4>3, <4>4
        <3>. QED BY <3>2, <3>3
    <2>. QED BY <1>3, <2>1, <2>5
<1>12. CASE ObjectMapped
    <2>1. /\ pc = "mapping" /\ pc' = "page" /\ page' = 0 /\ UNCHANGED <<exe, mem, entries>>
          /\ mapped' = Append(mapped, Returned)
        BY <1>12 DEF ObjectMapped
    <2>2. Len(mapped') = Len(mapped) + 1
        BY <2>1 DEF LoaderInv, Types
    <2>3. ASSUME NEW i \in 1 .. Len(mapped) + 1, NEW n \in 0 .. exe.objs[i].size - 1, Written(i, n)'
          PROVE  PageFixed(exe, entries, mem[At_(i, n)].fix, i, Applied(i, n)')
        <3>1. exe.objs[i].size \in Nat
            <4>1. i \in 1 .. Len(exe.objs)
                BY <1>2, <2>1 DEF LoaderInv, Progress
            <4>. QED BY <1>2, <4>1, Tables
        <3>2. i \in 1 .. Len(mapped)
            BY <1>2, <2>1, <2>2, <2>3, <3>1 DEF Written
        <3>3. Written(i, n)
            BY <2>1 DEF Written
        <3>4. Applied(i, n)' = Applied(i, n)
            BY <2>1 DEF Applied
        <3>. QED BY <1>5, <3>2, <3>3, <3>4
    <2>. QED BY <2>1, <2>2, <2>3 DEF Patched, At_
<1>. QED
    BY <1>6, <1>7, <1>8, <1>9, <1>10, <1>11, <1>12 DEF Next, LoadLX

\* The numbers of the modules and their tables are those of the file and the
\* libraries, and pages have the fixups of the records applied so far
\* (enterprs.c:104-276, os2thunk.c:85).
THEOREM FixedInvariance ==
    Spec => []FixedInv
<1>1. Init => FixedInv
    BY FixedInit
<1>2. LoaderInv /\ Kept /\ FixedInv /\ [Next]_vars => FixedInv'
    <2>. SUFFICES ASSUME LoaderInv, Kept, FixedInv, [Next]_vars
                  PROVE  FixedInv'
        OBVIOUS
    <2>1. ModulesRight' /\ TablesRight'
        BY ModulesStep, TablesStep DEF FixedInv
    <2>2. exe' = exe
        BY ExeStays
    <2>3. ASSUME Linked(exe), Fixable(exe)
          PROVE  Patched'
        BY <2>3, PatchedStep DEF FixedInv, Kept
    <2>. QED BY <2>1, <2>2, <2>3 DEF FixedInv
<1>. QED
    BY <1>1, <1>2, LoaderInvariance, KeptInvariance, PTL DEF Spec

\* Of an executable whose pages have the fixups of the first page of their
\* object, each place of each page has the fixups of the file when it is
\* launched (enterprs.c:438): the thunk of what is imported there, whatever
\* else was imported before, under whatever module number, and whatever else
\* was mapped in between.
THEOREM LinkedFixedUp ==
    Spec => [](Linked(exe) /\ Fixable(exe) => FixedUp)
<1>1. LoaderInv /\ Kept /\ FixedInv => (Linked(exe) /\ Fixable(exe) => FixedUp)
    <2>. SUFFICES ASSUME LoaderInv, Kept, FixedInv, Linked(exe), Fixable(exe), pc = "run",
                         NEW i \in DOMAIN mapped, NEW n \in 0 .. exe.objs[i].size - 1,
                         NEW o \in Offsets
                  PROVE  LET value == At(i, n).fix[o]
                         IN  IF Told(i, n, o) = {} THEN value = Unpatched
                             ELSE \A r \in Told(i, n, o) :
                                IF HasFunction(r)
                                THEN /\ value \in VMM!Page
                                     /\ mem[value].what = Thunk(exe.libs[r.mod], r.ord)
                                ELSE value = IF r.self THEN 0 ELSE Unpatched
        BY DEF FixedUp
    <2>. DEFINE v == At(i, n).fix[o]
                R == RecordsOf(exe, i)
    <2>1. /\ i \in 1 .. Len(mapped) /\ i \in 1 .. Len(exe.objs) /\ i \in DOMAIN exe.objs /\ exe \in Exes
        <3>1. i \in 1 .. Len(mapped) /\ exe \in Exes
            BY DEF LoaderInv, Types
        <3>. QED BY <3>1, Numbers, Tables
    <2>2. /\ exe.objs[i].pages \in Nat /\ exe.objs[i].size \in Nat
          /\ exe.objs[i].pages > 0 => R \in Seq(FixupRecord)
        BY <2>1, Tables
    <2>3. Applied(i, n) = {q \in DOMAIN R : n < exe.objs[i].pages}
        BY DEF Applied
    <2>4. PageFixed(exe, entries, At(i, n).fix, i, Applied(i, n))
        <3>1. mapped[i] = exe.objs[i].base
            BY <2>1 DEF Kept, AsLinked
        <3>. QED BY <2>1, <3>1 DEF FixedInv, Patched, Written, At
    <2>5. Told(i, n, o) = {R[q] : q \in {p \in Applied(i, n) : o \in R[p].at}}
        <3>1. CASE n < exe.objs[i].pages
            <4>1. exe.objs[i].pages > 0 /\ n \in 0 .. exe.objs[i].pages - 1
                BY <2>2, <3>1
            <4>2. exe.table[exe.objs[i].first + n].fixups = R
                BY <2>1, <4>1 DEF Fixable
            <4>3. Told(i, n, o) = {r \in Range(R) : o \in r.at}
                BY <3>1, <4>2 DEF Told
            <4>4. Applied(i, n) = DOMAIN R
                BY <2>3, <3>1
            <4>. QED BY <4>3, <4>4 DEF Range
        <3>2. CASE ~(n < exe.objs[i].pages)
            BY <2>3, <3>2 DEF Told
        <3>. QED BY <3>1, <3>2
    <2>6. CASE Told(i, n, o) = {}
        <3>1. \A q \in Applied(i, n) : o \notin R[q].at
            BY <2>5, <2>6
        <3>. QED BY <2>4, <2>6, <3>1 DEF PageFixed
    <2>7. ASSUME NEW r \in Told(i, n, o)
          PROVE  IF HasFunction(r)
                 THEN v \in VMM!Page /\ mem[v].what = Thunk(exe.libs[r.mod], r.ord)
                 ELSE v = IF r.self THEN 0 ELSE Unpatched
        <3>1. PICK q \in Applied(i, n) : r = R[q] /\ o \in R[q].at
            BY <2>5
        <3>2. Right(exe, entries, r, v)
            BY <2>4, <3>1 DEF PageFixed
        <3>3. HasFunction(r) <=> Exported(exe, r)
            BY DEF HasFunction, Exported
        <3>4. CASE Exported(exe, r)
            <4>. DEFINE l == exe.libs[r.mod]
            <4>1. /\ l \in DOMAIN Libraries /\ r.ord \in Implemented[l]
                  /\ v = entries[l][r.ord] /\ v > NoFunction
                BY <3>2, <3>4 DEF Right, Exported
            <4>2. r.ord \in Ordinals(l)
                <5>1. Implemented[l] \subseteq 0 .. Libraries[l] - 1 /\ Libraries[l] \in Nat
                    BY <4>1, LoaderAssumption
                <5>. QED BY <4>1, <5>1 DEF Ordinals
            <4>. HIDE DEF l, v
            <4>3. <<l, r.ord>> \in ThunksOf(entries)
                BY <4>1, <4>2 DEF ThunksOf
            <4>4. entries[l][r.ord] \in VMM!Page
                BY <4>3, ThunkPages
            <4>5. mem[entries[l][r.ord]].what = Thunk(l, r.ord)
                BY <4>3 DEF Kept, ThunksKept
            <4>. QED BY <3>3, <3>4, <4>1, <4>4, <4>5 DEF l
        <3>5. CASE ~Exported(exe, r)
            BY <3>2, <3>3, <3>5 DEF Right
        <3>. QED BY <3>4, <3>5
    <2>. QED BY <2>6, <2>7
<1>. QED
    BY <1>1, LoaderInvariance, KeptInvariance, FixedInvariance, PTL
=============================================================================
