------------------------------ MODULE LxLoader ------------------------------
(***************************************************************************)
(* LoadLX of LOCUTUS (locutus/enterprs.c) with the import thunks it makes  *)
(* on the way (locutus/os2thunk.c), over the page allocator Vmm: resolve   *)
(* the libraries, map the objects one by one, load the pages of each,      *)
(* apply the fixups of each page, and launch.                              *)
(*                                                                         *)
(* An executable is a record: the names of the libraries it imports from,  *)
(* its objects, its page table with the fixup records of each page, and    *)
(* the object and page of its entry point and of the top of its stack.     *)
(* The content of a page of memory is what was written there last and the  *)
(* values patched into it since.  Fixups are those of 32 bits, the only    *)
(* ones the value of an import fits in.                                    *)
(***************************************************************************)
EXTENDS Integers, Sequences, FiniteSets, Functions

CONSTANTS DwordBits, Pages, Behind, Reserved, Requests, MaxBlocks,   \* of Vmm
          ThunkBase,           \* where thunks are wanted, page 0x800
          Libraries,           \* [library -> number its import table starts with]
          Implemented,         \* [library -> ordinals that have a host function]
          Offsets,             \* places of a page that fixups patch
          Exes                 \* the executables loaded

VARIABLES used, vmm, vbase, nPages, current, granted

VARIABLES exe,                 \* the executable
          pc,                  \* what LoadLX does next
          modules,             \* ModuleThunkTable from module 1 on
          entries,             \* the import tables: no function, a host one, a thunk's page
          mapped,              \* pObject of the objects so far
          page, rec,           \* the page of the object, the record of its fixups
          mem,                 \* the emulated memory
          eip, esp             \* the pages execution starts with

vmmVars == <<used, vmm, vbase, nPages, current, granted>>
placeVars == <<pc, mapped, page, rec>>
vars == <<vmmVars, placeVars, exe, modules, entries, mem, eip, esp>>

VMM == INSTANCE Vmm

NoFunction == 0
Host == -1
Unpatched == -1
NoStack == -1                  \* the page of an offset of 0: pushes go below it
Missing == "missing"           \* a null pointer in ModuleThunkTable

\* The tables of an executable (LX.H), addresses and sizes in pages.
FixupRecord == [kind : {"import", "internal", "name"}, mod : Nat, ord : Nat,
                at : SUBSET Offsets, self : BOOLEAN]
ObjectTableEntry == [base : Nat, size : Nat, first : Nat, pages : Nat]
PageTableEntry == [flags : STRING, fixups : Seq(FixupRecord)]
Header == [libs : Seq(STRING), objs : Seq(ObjectTableEntry), table : Seq(PageTableEntry),
           start : [obj : Nat, page : Nat], stack : [obj : Nat, page : Nat \cup {NoStack}]]

\* Nothing checks them: an object is as large as the pages of it in the file,
\* which are in the page table, and the header names objects there are.
Consistent(e) ==
    /\ \A i \in DOMAIN e.objs :
        LET object == e.objs[i]
        IN  /\ object.pages <= object.size
            /\ object.first .. object.first + object.pages - 1 \subseteq DOMAIN e.table
    /\ e.start.obj <= Len(e.objs) /\ e.stack.obj <= Len(e.objs)

ASSUME LoaderAssumption ==
    /\ VMM!VmmAssumption
    /\ ThunkBase \in 0 .. Pages
    /\ Libraries \in [DOMAIN Libraries -> Nat] /\ Missing \notin DOMAIN Libraries
    /\ \A l \in DOMAIN Libraries : Implemented[l] \subseteq 0 .. Libraries[l] - 1
    /\ \A e \in Exes : e \in Header /\ Consistent(e)

Raw == <<"raw">>
ObjectPage(i, n) == <<"object", i, n>>
Thunk(library, ordinal) == <<"thunk", library, ordinal>>
Fresh(what) == [what |-> what, fix |-> [o \in Offsets |-> Unpatched]]

\* The number past a table's last ordinal reads the word the linker put behind
\* the table: 0, or one that is taken for a function of the host.  A word with
\* the high bit set, which would be returned as an address (os2thunk.c:94), is
\* left out.
Ordinals(library) == 0 .. Libraries[library]
TableWith(past) ==
    [l \in DOMAIN Libraries |->
        [n \in Ordinals(l) |-> IF n = Libraries[l] THEN past[l]
                               ELSE IF n \in Implemented[l] THEN Host ELSE NoFunction]]

Init ==
    /\ VMM!Init
    /\ exe \in Exes
    /\ pc = "resolve" /\ modules = <<>>
    /\ \E past \in [DOMAIN Libraries -> {NoFunction, Host}] : entries = TableWith(past)
    /\ mapped = <<>> /\ page = 0 /\ rec = 0
    /\ mem = [p \in VMM!Page |-> Fresh(Raw)]
    /\ eip = 0 /\ esp = 0

----------------------------------------------------------------------------
\* Mutation of ResolveImport: a library that is not found takes no number.
ResolveFoundOnly ==
    /\ pc = "resolve" /\ Len(modules) < Len(exe.libs)
    /\ modules' = SelectSeq(exe.libs, LAMBDA l : l \in DOMAIN Libraries)
    /\ pc' = "map"
    /\ UNCHANGED <<vmmVars, exe, entries, mapped, page, rec, mem, eip, esp>>

\* Mutation of ResolveImport: a library is not looked for.
ResolveUnseen ==
    /\ pc = "resolve" /\ Len(modules) < Len(exe.libs)
    /\ modules' = Append(modules, exe.libs[Len(modules) + 1])
    /\ UNCHANGED <<vmmVars, placeVars, exe, entries, mem, eip, esp>>

\* One library of the import table, found or not, takes the next number.
ResolveImport ==
    /\ pc = "resolve" /\ Len(modules) < Len(exe.libs)
    /\ LET library == exe.libs[Len(modules) + 1]
       IN  modules' = Append(modules, IF library \in DOMAIN Libraries THEN library ELSE Missing)
    /\ UNCHANGED <<vmmVars, placeVars, exe, entries, mem, eip, esp>>

ResolveEnd ==
    /\ pc = "resolve" /\ Len(modules) = Len(exe.libs)
    /\ pc' = "map"
    /\ UNCHANGED <<vmmVars, exe, modules, entries, mapped, page, rec, mem, eip, esp>>

\* Os2Mmap: VMMAllocPages is called for the next object ...
MapObject ==
    /\ pc = "map" /\ Len(mapped) < Len(exe.objs)
    /\ LET object == exe.objs[Len(mapped) + 1]
       IN  VMM!VMMAllocPages(object.base, object.size)
    /\ pc' = "mapping"
    /\ UNCHANGED <<exe, modules, entries, mapped, page, rec, mem, eip, esp>>

\* ... and returns the base it found.
Returned == granted[Len(granted)].base
ObjectMapped ==
    /\ pc = "mapping" /\ vmm = "idle"
    /\ mapped' = Append(mapped, Returned)
    /\ page' = 0 /\ pc' = "page"
    /\ UNCHANGED <<vmmVars, exe, modules, entries, rec, mem, eip, esp>>

\* The object being loaded and the page being written.
Number == Len(mapped)
Object == exe.objs[Number]
Dst == mapped[Number] + page

\* The page is copied from the file and padded, or filled with zeros.
LoadPage ==
    /\ pc = "page" /\ page < Object.pages
    /\ exe.table[Object.first + page].flags \in {"data", "zero"}
    /\ mem' = [mem EXCEPT ![Dst] = Fresh(ObjectPage(Number, page))]
    /\ rec' = 1 /\ pc' = "fixup"
    /\ UNCHANGED <<vmmVars, exe, modules, entries, mapped, page, eip, esp>>

LoadUnknown ==
    /\ pc = "page" /\ page < Object.pages
    /\ exe.table[Object.first + page].flags \notin {"data", "zero"}
    /\ pc' = "exit"
    /\ UNCHANGED <<vmmVars, exe, modules, entries, mapped, page, rec, mem, eip, esp>>

\* What the page table does not hold is filled with zeros.
ClearRest ==
    /\ pc = "page" /\ page = Object.pages
    /\ mem' = [p \in VMM!Page |->
                 IF p \in Dst .. mapped[Number] + Object.size - 1
                 THEN Fresh(ObjectPage(Number, p - mapped[Number])) ELSE mem[p]]
    /\ page' = 0 /\ pc' = "map"
    /\ UNCHANGED <<vmmVars, exe, modules, entries, mapped, rec, eip, esp>>

----------------------------------------------------------------------------
\* FixupPage takes the records at page_table_index, the object's first page,
\* for every page of the object.
Records == exe.table[Object.first].fixups
Fixup == Records[rec]
AtFixup(kind) == pc = "fixup" /\ rec <= Len(Records) /\ Fixup.kind = kind

\* doFixup leaves the page alone when the value is 0, which that of a
\* self-relative fixup to 0 is not.
doFixup(value) ==
    /\ mem' = [mem EXCEPT ![Dst].fix =
                 [o \in Offsets |-> IF o \in Fixup.at /\ (value # 0 \/ Fixup.self)
                                    THEN value ELSE mem[Dst].fix[o]]]
    /\ rec' = rec + 1
    /\ UNCHANGED <<vmmVars, pc, mapped, page, exe, modules, entries, eip, esp>>

\* GetModuleProcAddrByOrdinal.  The number of modules counts module 0, and
\* the tests let the number itself pass: ModuleThunkTable is null there.
Module(m) == IF m \in DOMAIN modules THEN modules[m] ELSE Missing
BadModule == Fixup.mod > Len(modules) + 1
Library == Module(Fixup.mod)
Entry == IF Fixup.ord > Libraries[Library] THEN NoFunction ELSE entries[Library][Fixup.ord]

\* Internal targets: nothing computes their value.
FixupInternal == AtFixup("internal") /\ doFixup(0)

FixupInvalid ==
    /\ AtFixup("import")
    /\ BadModule \/ (Library # Missing /\ Entry = NoFunction)
    /\ doFixup(0)

\* The table of a library that was not found is read through a null pointer.
FixupMissing ==
    /\ AtFixup("import") /\ ~BadModule /\ Library = Missing
    /\ pc' = "crash"
    /\ UNCHANGED <<vmmVars, exe, modules, entries, mapped, page, rec, mem, eip, esp>>

HasEntry == AtFixup("import") /\ ~BadModule /\ Library # Missing

FixupThunked == HasEntry /\ Entry \notin {NoFunction, Host} /\ doFixup(Entry)

\* Mutation of GenerateThunk: any free page will do.
GenerateThunkLow ==
    /\ HasEntry /\ Entry = Host
    /\ VMM!VMMAllocPages(0, 1)
    /\ pc' = "thunk"
    /\ UNCHANGED <<exe, modules, entries, mapped, page, rec, mem, eip, esp>>

\* The first import of a function makes its thunk ...
GenerateThunk ==
    /\ HasEntry /\ Entry = Host
    /\ VMM!VMMAllocPages(ThunkBase, 1)
    /\ pc' = "thunk"
    /\ UNCHANGED <<exe, modules, entries, mapped, page, rec, mem, eip, esp>>

\* Mutation of ThunkMade: the table is not told.
ThunkForgotten ==
    /\ pc = "thunk" /\ vmm = "idle"
    /\ mem' = [mem EXCEPT ![Returned] = Fresh(Thunk(Library, Fixup.ord)),
                          ![Dst].fix = [o \in Offsets |-> IF o \in Fixup.at THEN Returned
                                                          ELSE mem[Dst].fix[o]]]
    /\ pc' = "fixup" /\ rec' = rec + 1
    /\ UNCHANGED <<vmmVars, exe, modules, entries, mapped, page, eip, esp>>

\* ... which the table is told of, and the fixup goes on with.
ThunkMade ==
    /\ pc = "thunk" /\ vmm = "idle"
    /\ mem' = [mem EXCEPT ![Returned] = Fresh(Thunk(Library, Fixup.ord))]
    /\ entries' = [entries EXCEPT ![Library][Fixup.ord] = Returned]
    /\ pc' = "fixup"
    /\ UNCHANGED <<vmmVars, exe, modules, mapped, page, rec, eip, esp>>

\* Imports by name and entry table targets end the program.
FixupUnsupported ==
    /\ AtFixup("name")
    /\ pc' = "exit"
    /\ UNCHANGED <<vmmVars, exe, modules, entries, mapped, page, rec, mem, eip, esp>>

\* Mutation of FixupEnd: the page is not advanced.
FixupEndStays ==
    /\ pc = "fixup" /\ rec > Len(Records)
    /\ rec' = 0 /\ pc' = "page"
    /\ UNCHANGED <<vmmVars, exe, modules, entries, mapped, page, mem, eip, esp>>

FixupEnd ==
    /\ pc = "fixup" /\ rec > Len(Records)
    /\ page' = page + 1 /\ rec' = 0 /\ pc' = "page"
    /\ UNCHANGED <<vmmVars, exe, modules, entries, mapped, mem, eip, esp>>

----------------------------------------------------------------------------
\* An address of the header: the object's reloc_base_addr is added if it
\* names one, wherever the object was mapped.
Address(a) == IF a.obj = 0 THEN a.page ELSE exe.objs[a.obj].base + a.page

\* All objects are loaded: a stack pointer of 0 is refused, the rest runs.
Launch ==
    /\ pc = "map" /\ Len(mapped) = Len(exe.objs)
    /\ IF exe.stack.page = NoStack
       THEN pc' = "exit" /\ UNCHANGED <<eip, esp>>
       ELSE pc' = "run" /\ eip' = Address(exe.start) /\ esp' = Address(exe.stack)
    /\ UNCHANGED <<vmmVars, exe, modules, entries, mapped, page, rec, mem>>

Allocate == VMM!VmmScan /\ UNCHANGED <<placeVars, exe, modules, entries, mem, eip, esp>>

LoadLX ==
    \/ ResolveImport \/ ResolveEnd \/ MapObject \/ ObjectMapped \/ LoadPage \/ LoadUnknown
    \/ ClearRest \/ FixupInternal \/ FixupInvalid \/ FixupMissing \/ FixupThunked
    \/ GenerateThunk \/ ThunkMade \/ FixupUnsupported \/ FixupEnd \/ Launch

Next == LoadLX \/ Allocate
Spec == Init /\ [][Next]_vars
FairSpec == Spec /\ WF_vars(Next)

----------------------------------------------------------------------------
\* The functions that have a thunk.
Thunks == {f \in UNION {{l} \X Ordinals(l) : l \in DOMAIN Libraries} :
             entries[f[1]][f[2]] > NoFunction}

\* The types of the loader's variables.
TypeOK ==
    /\ pc \in {"resolve", "map", "mapping", "page", "fixup", "thunk", "run", "exit", "crash"}
    /\ Len(modules) <= Len(exe.libs) /\ Range(modules) \subseteq DOMAIN Libraries \cup {Missing}
    /\ \A l \in DOMAIN Libraries : entries[l] \in [Ordinals(l) -> VMM!Page \cup {Host}]
    /\ Len(mapped) <= Len(exe.objs) /\ Range(mapped) \subseteq VMM!Page
    /\ page \in Nat /\ rec \in Nat
    /\ DOMAIN mem = VMM!Page
    /\ \A p \in VMM!Page : mem[p].fix \in [Offsets -> VMM!Page \cup {Unpatched}]
    /\ eip \in Nat /\ esp \in Nat

\* The content of page n of object i, and what the file tells of it: the
\* fixup records of that page, and whether what one imports exists.
At(i, n) == mem[mapped[i] + n]
Told(i, n, o) ==
    {r \in IF n < exe.objs[i].pages THEN Range(exe.table[exe.objs[i].first + n].fixups) ELSE {} :
        o \in r.at}
HasFunction(r) ==
    /\ r.kind = "import" /\ r.mod \in DOMAIN exe.libs
    /\ exe.libs[r.mod] \in DOMAIN Libraries
    /\ r.ord \in Implemented[exe.libs[r.mod]]

\* What is loaded stays: neither an object mapped later nor a thunk is
\* written over a page of an object (enterprs.c:403, os2thunk.c:70), although
\* the allocator underneath may grant a page twice.
ImagesKept ==
    pc = "run" =>
        \A i \in DOMAIN mapped : \A n \in 0 .. exe.objs[i].size - 1 :
            At(i, n).what = ObjectPage(i, n)

\* A function imported any number of times, from any pages and under any
\* module number, has one thunk (os2thunk.c:94), on a page of its own which
\* still holds it, and no other page is granted.
OneThunkEach ==
    pc = "run" =>
        /\ \A f \in Thunks : mem[entries[f[1]][f[2]]].what = Thunk(f[1], f[2])
        /\ Len(granted) = Len(mapped) + Cardinality(Thunks)

\* The program that is launched has the fixups of its file ("fixups &
\* imports", enterprs.c:438): each place of each page calls the thunk of the
\* function that the records of that page import there, and no other place is
\* patched.  What FixupPage has no value for, internal targets and functions
\* that do not exist, stays as it is, or leads to 0 if self-relative.
FixedUp ==
    pc = "run" =>
        \A i \in DOMAIN mapped : \A n \in 0 .. exe.objs[i].size - 1, o \in Offsets :
            LET value == At(i, n).fix[o]
            IN  IF Told(i, n, o) = {} THEN value = Unpatched
                ELSE \A r \in Told(i, n, o) :
                        IF HasFunction(r)
                        THEN value \in VMM!Page /\ mem[value].what = Thunk(exe.libs[r.mod], r.ord)
                        ELSE value = IF r.self THEN 0 ELSE Unpatched

\* Execution starts on the page of the file the header names, with a stack
\* in the object it names (enterprs.c:459).
StartsInside ==
    pc = "run" =>
        /\ mem[eip].what = ObjectPage(exe.start.obj, exe.start.page)
        /\ mem[esp].what = ObjectPage(exe.stack.obj, exe.stack.page)

\* Loading comes to an end: the program runs, or was refused, or died.
Ends == <>(pc \in {"run", "exit", "crash"} \/ vmm = "fault")
=============================================================================
