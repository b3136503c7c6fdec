# TLA+ models of TOPGUN

TOPGUN is a set of programs around one 386 emulator: MAVERICK runs DOS code on
it, ICEMAN is a debugger that attaches to MAVERICK through a named pipe, and
LOCUTUS loads 32-bit OS/2 executables into the emulator's memory.  These modules
model where its correctness is hard to see from the code and hard to test: the
debugger with its four threads in two processes, the breakpoint table two
threads share without a lock, the CPU core with its prefixes, flags and
repetitions, the disassembler that decodes the same tables with code of its own,
and the page allocator with the loader and the OS/2 services on top of it.

Run a model with `tlc -config X.cfg M.tla`, check a proof with `tlapm M.tla`.

## 1. The system

| Part | State | Operations | Talks to |
|---|---|---|---|
| MAVERICK, emulator thread (`maverick/main.c`: `main`, `Exec386Subroutine_Near32`, `ice_step`) | the `i386` structure `Pcpu`, among it `eip` and `running`; `linaddr` on the stack | start-up, spin on `running`, breakpoint test, report, step | ICE thread through shared memory, ICEMAN through the pipe |
| MAVERICK, ICE thread (`main.c`: `ICEThread`) | the packet read, the reply | connect, read a packet, one case per command, reconnect | the same |
| Breakpoint table (`main.c:21-55`) | `code_breakpoints[4]` | `AddBreakpoint`, `RemoveBreakpoint`, `IN_BP` | written by the ICE thread, read by the emulator thread |
| ICEMAN (`iceman/iceman.c`) | the connection, `waiting.complete` | one function per command, `WaitPipeResponse`, `GoUntilBP` with its thread and hotkey | the pipe |
| Pipe and protocol (`common/cmd.h`) | bytes each way, pending reads | packets of 20 bytes, replies without a header | both ends |
| LOCUTUS page allocator (`locutus/os2mem.c`) | `PFBitmap` | `VMMInit`, `VMMAllocPages`, `VMMFreePages` (does nothing) | loader, thunks, DOSCALLS |
| LOCUTUS loader (`locutus/enterprs.c`, `os2thunk.c`) | `ModuleThunkTable`, import tables, emulated memory | `ResolveImports`, `LoadLX`, `FixupPage`, `GetModuleProcAddrByOrdinal`, `GenerateThunk` | allocator, CPU |
| DOSCALLS (`locutus/doscalls.c`, `os2thunk.c`) | none of its own; the table `DosSysInfo` | six functions and `Dos32PutMessage`; the other thousand ordinals are zeros | allocator, the host's files |
| CPU core (`maverick/run386.c`, `common/i386.h`) | the `i386` structure: registers, flags, segments, overrides | `i386_step` with two opcode tables, operand decoding, one handler per group of instructions | memory bus, host services through `do_int` |
| Disassembler (`iceman/dis.c`) | none between calls | `dis386`, `disasm_operand` | the opcode tables; ICEMAN's `u`, the trace of LOCUTUS |
| DOS window (`maverick/wnd.c`) | the window | paints the video memory on a timer | reads emulated memory |
| Test harness (`maverick/test.c`), test programs, GOOSE | none | runs recorded tests; GOOSE is an empty file | CPU core |

What is hard:

* **Two threads on one CPU structure, no lock.** `running`, `eip` and the
  breakpoints are written by the ICE thread while the emulator thread is
  anywhere in `ice_step`.
* **One synchronous pipe handle for two threads.** A read that waits makes the
  other thread's write wait.
* **Replies without a header.** A reply is known by its size only; one out of
  step shifts those that follow.  A hotkey can race a breakpoint, a command can
  be dropped, the debugger can leave and another one come.
* **Flags that travel.** An instruction is right or wrong only with those that
  read its flags later: a comparison with its jump, a carry with the next ADC,
  a repetition with its count.  Widths, signs and both modes multiply the cases.
* **Prefixes by recursion.** A prefix sets a field of the CPU, steps the
  instruction by calling `i386_step` again and takes the field back.
* **Two decoders.** The disassembler and the core read the same tables with
  separate code, and a listing that is off by a byte stays so.
* **A scan with jumps.** The allocator skips full dwords and short runs of
  pages, counts one page too many and is bounded by 4096 times the bitmap.
* **A loader whose steps feed each other.** Thunks are allocated between
  objects, tables are rewritten by the first import, and a failure to resolve a
  library is not an error.

`PROJECT.json` lists the hazards at their lines, with the properties about them.

What should be true of each part:

* debugger: a command gets its own answer; the prompt shows a stopped CPU; a
  breakpoint that is hit is reported; one thread steps the CPU at a time;
* breakpoint table: an armed breakpoint is never missed, a hit is at an address
  somebody asked for;
* CPU core: a program of several instructions computes what its instructions
  mean; nothing of a prefix outlives its instruction; what is saved is found
  again;
* disassembler: its lines follow each other as the instructions do;
* DOSCALLS: a service gives what it says it gave, and stays inside the buffers;
* allocator: blocks are disjoint, the first that fits is granted, the first
  64kb never, every call returns;
* loader: the program that starts is the one in the file, with its imports
  bound, and loading ends.

The runs show which of these the code keeps, keeps in a weaker form, or breaks.

## 2. Modules

| Module | Models |
|---|---|
| `Breakpoints` | the breakpoint table as a value, and what the three routines make of it |
| `DebugPipe` | the pipe, by the calls the programs make (the only external code) |
| `Maverick` | both threads of MAVERICK; extends the two above |
| `Iceman` | the main thread of ICEMAN and the one that waits for a breakpoint |
| `IceDebug` | the composition, its fairness and its properties |
| `MCIceDebug` | a program of three instructions to debug |
| `BpTable` | the breakpoint table again, one memory access at a time |
| `PageSpace` | what an allocator promises: the abstract specification |
| `Vmm` | the allocator of `os2mem.c`; implements `PageSpace` |
| `DosCalls` | the loader's requests, a program and the services it calls, over `Vmm` (extends it) |
| `MCDosCalls` | sizes, objects and questions for it |
| `LxLoader` | `LoadLX` and the import thunks, over an instance of `Vmm` |
| `MCLxLoader` | executables for it |
| `I386Alu` | the flag macros and the arithmetic, as functions of values |
| `I386Table` | the opcode tables |
| `I386Decode` | the state of the CPU, memory, prefixes and the decoding of operands |
| `I386` | the handlers and `i386_step`: extends the three above |
| `MCI386` | programs for it, and what each of them must have done |
| `Dis386` | the disassembler's lengths and numbers, over the same tables |
| `Listing` | an instruction disassembled, then fetched by the core, and where the decoders agree |
| `MCListing` | instructions for it |
| `VmmProofs`, `DosCallsProofs`, `BpTableProofs`, `IceDebugProofs`, `LxLoaderProofs`, `I386TableProofs`, `I386Proofs`, `ListingProofs` | theorems |

### The debugger

A step is one access to shared memory or one pipe call.  `emu`, `ice`, `cli` and
`wt` are the program counters of the four threads; their values name the next
access, and an action per value (and per command, for the ICE thread) follows.

* `eip` stands for cs:eip, and the linear address of a location is the location.
  `lin` is `linaddr`, computed in `EmuTop` before the spin (`main.c:171`), as in
  the code, and tested after it.
* An instruction is a fetch and a commit (`EmuFetch`/`EmuExec` on the emulator
  thread, `IceTrace`/`IceTraced` on the ICE thread), so that the other thread
  comes in between; `Succ` says where it may lead.
* A reply is a sequence of words `<<kind, index>>`.  The code sees only how many
  there are; the kind is there for the properties.  The sizes are those of the
  structures of `cmd.h`.
* `HandleBusy` is the serialisation of a synchronous handle: `EmuReport` cannot
  write while the ICE thread waits in `ReadFile` or `ConnectNamedPipe`.
* `IceTake` empties what `ReadFile` returned although only the first packet is
  executed (`main.c:382`).
* `Hotkey` terminates the waiting thread in any state, also after it has read a
  hit, and cancels its read. `Killed` is Ctrl-C: the debugger ends anywhere away
  from its prompt, where `Quit` is the `q` command. `strikes` counts both.
* Start-up is in the model: `CreateThread` comes before `running = 0`
  (`main.c:497-498`) and before the memory is allocated (`main.c:513`), so a
  debugger can connect before the CPU is stopped (`EmuPark`) and before there is
  anything to dump or to trace: `TRACE` and `DUMP_MEMORY` then go through a null
  `Os2Base`, and MAVERICK dies (`IceFault`) or, of a dump, answers what it finds.
* `after` counts, for `OneStraggler`, the instructions that ended since
  `running` was last cleared.  It is history and steers nothing.

The abstraction leaves out parsing, printing and the content of replies, the
segment argument of `g`, and MAVERICK started without a pipe, which has one
thread only.

### The breakpoint table

`BpTable` is one level below `Breakpoints`: `AddBreakpoint` is three stores
(address, end, enabled, in this order), `RemoveBreakpoint` one store per slot
that matches, a check three loads per slot.  `armed`, `wanted`, `held`,
`covered` and `overlaps` are history: whether the address checked was asked for
throughout, or at some time, of the check, and how many commands overlapped it.

### The CPU core

`m` is the machine: registers, flags as a set of names, segments with selector
and base, memory, what the BIOS printed, and how it goes on (`runs`, `exits`,
`hangs` for a `while(1)`, `faults` for an error of the host).  The handlers
(`do_alu_op`, `do_string`, ...) are functions from a machine to a machine, under
the names of the code, since they call each other; an action of `I386` decodes,
applies one and returns.

* `Prefix` is a step: it sets its override and adds itself to `frames`, the
  calls of `i386_step` that have not returned.  `Return` undoes the overrides of
  all of them.  Between them comes the instruction, so the other fields of the
  CPU can be looked at in between.
* A repetition (`Repeat`, `RepeatRound`, `RepeatEnd`) is a step for each round
  of `do_rep_string`, with the operation taken from the byte behind the prefix,
  as the code does.
* `Decode` follows the code: Mod R/M and SIB of both address sizes, the fix-ups
  of 0xF6 and 0xFF, sizes from `SZ_1632` and its kind, the order in which the
  operands take their bytes.
* The tables are functions of a byte.  A row of the code with eight or sixteen
  alike entries is one expression.
* What the host decides, a key, the clock, the result of a service, is any of
  `HostValues`.
* Not in the state: the dumps, control, debug and test registers and descriptor
  fields nobody reads.  `load_seg_reg` knows real mode only, so segments do.

`MCI386` states what a program must have done when it has ended, for kinds of
programs (`task.kind`); each is a property of several instructions together.

### The disassembler

`dis386` gives the end of a line and the numbers shown.  `List`, `StepPrefix`
and `Fetch` are one round of the loop of `Exec32` (`enterprs.c:298-312`): the
line first, then the prefixes and the decoding of `I386Decode`.  The properties
compare the two and say where they differ (`Misread`, `Shorter`).

### The allocator

`used` is the set of marked pages.  `Sweep`, `FindFirstFreePage` and
`NumberOfPagesFreeHere` are the functions of the code, with what they really
compute: the loop up to the dword boundary compares a page number with an offset
in a dword and so works in the first dword only (`os2mem.c:92`); the count of
free pages is one too high (`os2mem.c:121`); the dword loop stands still when
the window of a dword's length is in use but the dword is not full
(`os2mem.c:101`, value `Hang`).  The bounds of the scans are out of reach, so
the memory behind the bitmap is modelled too, `Behind` pages of it with any
content, and an access violation after it (`Fault`, `ScanFaults`).  A call is a
step per round of `VMMScanAddressSpace`.  Nothing unmarks a page: `VMMFreePages`
calls an empty function.

### Programs and DOSCALLS

`DosCalls` puts callers on top of `Vmm`.  The loader maps objects
(`MapObject` with `Os2Mmap` and its rounding) and thunks (`GenerateThunk`), then
the program runs (`LaunchOS2`) and asks for memory (`Dos32AllocMem`, whose answer
is `AllocReturns`), for facts (`Dos32QuerySysInfo`), for the host's files
(`Dos32File` is `Dos32SetFilePtr` and `Dos32Write`, which do the same with what
the host returns) or for the end (`Dos32Exit`, `Dos32QueryHType`, endless
loops).  Numbers are those of a `uint32_t` of `Words` values, so that `ALIGN` and
the length of `DosQuerySysInfo_Impl` wrap as in the code.  `asked` is history:
the bytes behind each request.  `answer` is what a service left in EAX and
behind its pointers.

### The loader

`LxLoader` has an action per step of `LoadLX` for one executable of the set
`Exes`: each library resolved or not (`ResolveImport`), each object mapped by
the scan of `Vmm` (`MapObject`, rounds of `Allocate`, `ObjectMapped`), each page
copied (`LoadPage`) and its fixup records applied one by one (`Fixup...`), the
rest of the object cleared, and `Launch`.  A thunk is an allocation within a
fixup (`GenerateThunk`, rounds of `Allocate`, `ThunkMade`).  `mem` gives each
page of emulated memory the thing written there last (a page of an object, the
thunk of a function) and the values patched into it since; a value is the page
of the thunk it points to.  Records are those of 32 bits, with a source list or
without, self-relative or not; additives, which no import of a function needs,
are left out, and so is `WinMmap`, which nothing calls.

## 3. Runs

Runs expected to pass:

| Run | Shows |
|---|---|
| `DebugSession` | every interleaving of sessions with one breakpoint and its removal, traces, `wp`, `g`, leaving and connecting again, and two strikes of the hotkey or of Ctrl-C, which kills the debugger wherever it stands (920,000 states): types; at most one instruction ends after the CPU is stopped (`OneStraggler`); each strike leaves no more than one `brk_resp` behind, for the commands and the debuggers that follow (`StrayReplies`); the next debugger connects and gets its prompt, whatever its predecessor left (`Recovers`) |
| `DebugBreakpoints` | sessions with every command, one breakpoint slot and two addresses to set, without a strike (570,000 states): every reply is its command's own, whole (`RepliesMatch`); the prompt shows a stopped CPU (`PromptMeansStopped`); every question is answered unless it is `wp`, or was read together with a `br` or `wr` before it and dropped (`Answered`); a `g` sets the CPU going unless it overtakes the initial stop or the stop of the hit before (`GoMoves`) |
| `MCBpTable` | the raced table with three slots and two addresses: no armed breakpoint is missed (`GenuineMiss`), whatever overlaps; a hit is genuine when at most one command overlaps the check (`GenuineHit`) |
| `CpuPrograms` | some 2700 programs on the CPU core in both modes (16,000 states): comparisons of edge values with every jump, and what is left of the unsigned ones on dwords without a carry (`BranchTells`), sums made byte by byte (`CarryTravels`), divisions multiplied back (`DividesBack`), overlapping copies (`CopiesAll`), searches by SCAS, LODS with LOOPNE and CMPS, and REPNE before operations that look for nothing (`SearchStops`), a call that saves and restores everything (`FrameKept`), loads through every kind of address and override (`LoadsThrough`), INT 21h/09h (`PrintsText`), and a tour of all other instructions; overrides end with their instruction in all of them (`OverridesEnd`) |
| `Listing` | every opcode with several Mod R/M bytes and prefixes (19,000 states): where the listing's lines follow each other as the instructions do (`LinesFollow`), show the targets of jumps (`TargetsListed`) and immediates (`ImmediatesListed`); an instruction with each prefix once has a place in a `step_pkt` (`TraceFits`) |
| `VmmBlocks` | all sequences of three requests, of the loader and then of a program among its other calls, over four dwords of four pages and any memory behind them (114,000 states): `FirstFit`, `SharedLastPageOnly` (two blocks share the later one's last page at most), `StuckMidDword` (the scan stands still in the middle of a dword only), `RoundsAdvance` (otherwise it ends) and the refinement `IsPageSpace`; `AllocCovers` (a block has room for the bytes asked for, sizes in the last page of numbers apart) and `SysInfoInside` (DosQuerySysInfo copies no more than fits) |
| `LxLoad` | executables of two objects that are linked apart and below the thunk pages: `ImagesKept`, `OneThunkEach`, `FixedUp`, `StartsInside`, and loading `Ends` |

Runs that show the code, or a statement about it, to be wrong (details under
"findings" in `PROJECT.json`):

| Run | Property | Trace |
|---|---|---|
| `DebugLostHit` | `HitReported` | the ICE thread waits in `ReadFile`, so the hit cannot be written; ICEMAN waits for the hit. This is what the to-do list's "asynchronous mode" is about |
| `DebugTraceRace` | `OneStepper` | `t` right after a break, the emulator thread still in its instruction |
| `DebugStaleBreakpoint` | `HitAtBreakpoint` | a `t` while the emulator thread spins moves `eip`; the address read before the spin is tested, and a hit is reported where there is no breakpoint |
| `VmmOverlap` | `BlocksDisjoint` | a gap of n pages is granted for n + 1 |
| `LxFixups` | `FixedUp` | the second page of an object gets the records of the first |

More disagreements are stated by properties of passing runs, as the cases they
except or the bound they set, instead of runs of their own:

* the scan that never ends: `StuckMidDword` says where it does, `RoundsAdvance`
  that it does nowhere else;
* the second `brk_resp` of a hotkey that crosses a hit: `StrayReplies` bounds
  them, `RepliesMatch` holds without the hotkey;
* `wp`, which waits for ever since there is no case for `SET_WP` (`main.c:473`),
  and a `bp` read together with the `br` before it, of which only the `br` is
  executed (`main.c:382`): `Answered` holds but for these two (`Ignored`,
  `Overlooked`);
* a `g` executed between `CreateThread` and `running = 0` (`main.c:498`), and one
  typed as soon as a hit is written and before `running` is cleared for it
  (`main.c:185`): it is undone, and the debugger waits for a CPU that is stopped.
  `GoMoves` holds but for these two (`Overtaking`), and TLC refutes it without
  either.

The last run concerns `hello.exe` of the repository: its first object has two
pages with different imports.

### Bounds, and why they are enough

* `NumBps` (1 to 3 for 4): the slots are alike. The debugger runs have one, which
  is full after one `bp`; in `MCBpTable` one is freed and reused while another is
  scanned, with a third on the other side. The theorems about the table hold for any number.
* `PipeCap` (2 packets for 4096 bytes): a second packet in the pipe is what can
  be dropped; `ClientWrite` waits beyond that, as the code would. It is assumed to
  be 51 at most: one `ReadFile` takes 1024 bytes, which is 51 packets and a part
  of the next, and `IceRead` takes all there are. `toClient` has
  no bound of its own: replies are limited by the questions.
* `MaxStrikes` (0, 1 or 2), strikes of the hotkey and debuggers killed: with 2 a
  stale reply can meet another race, or the debugger that found one be killed.
* Program: three locations with a loop, a return, and a branch that goes either
  way.
* `MaxOverlap` (2): `GenuineHit` speaks of 1; the second shows that `GenuineMiss`
  does not care. With two overlapping commands a slot can be freed and reused
  between the loads of one test, and `GenuineHit` does fail: the old address's
  test of `enabled` and the new address's `end`.
* `DwordBits` (4, or 2 under the loader), `Pages` (16), `Behind`, `Reserved`,
  `MaxBlocks` (3): a run of pages across a dword, a full dword, one that is full
  from its middle, an exhausted bitmap all occur. The theorems hold for any.
* A page of `DosCalls` has 8 bytes and a number 256 values; sizes are the edges
  of pages, none, and one in the last page; `InfoAsks` are indices around the
  ends of a table of three, lengths around the product, and indices whose
  product wraps to nothing.
* A byte of the CPU has five bits (`ByteBits`), so that dividends of two bytes
  and products are a few hundred and every operation still has four widths;
  shifts and masks follow it.  Opcodes and Mod R/M are not data and keep their
  eight bits.  A division of 64 by 32 bits is beyond TLC's integers and is not
  in the programs.
* Code is apart from data, with one element for each byte; an immediate is whole
  in the first of the bytes it takes, which the decoders agree on except where
  `Shorter` says so.  Programs do not write their code.
* `MemSize` (64): addresses wrap there as the bus of MAVERICK does at 1MB.  In
  the code a word at the very end of the megabyte reads behind the buffer; in
  the model it wraps, and no program of the runs depends on it.
* `Edges`: zero, one, and both sides of the sign and of the top, for both
  operands of a comparison.  `Digits` (0, 16, 31): the bytes of the sums, whose
  carry needs all three.
* `AllModRMs` (5, 70, 193): without base, with a displacement, a register.  A
  few opcodes of every operand kind meet more Mod R/M bytes and prefixes.
* Executables: two objects, so that one is mapped between thunks and after them
  or below another; two libraries, each with functions and gaps, in either
  order, one twice, one missing; up to two records per page, over every kind of
  target. `LxLoad` leaves out what `LxFixups` is about (records on an object's
  second page) and an ordinal one past the end of an import table, which is
  accepted (`os2thunk.c:91`) and makes a thunk of whatever lies there.

### Fairness

`IceDebug!FairSpec`: threads are scheduled preemptively by the host, hence weak
fairness of each of the four threads. Nothing is asked of the user, who may stop
typing, nor of the length of an emulated instruction, which may wait for the
keyboard for ever: `EmuExec` and `IceTraced` are exempt. `LxLoader` is a
single thread, hence weak fairness of its next step; a loop that makes no
progress is a state with no step.

Deadlock is not checked in runs where the system may stop: a user who stops
typing, a program that returned, an allocator out of requests or hung, a loaded
program.

## 4. Proofs

TLAPS checks these for every value of the constants that the modules' named
assumptions allow.

* `VmmProofs`: `TypeCorrect`, `OverlapIsOnePage`, `FirstPagesNeverGranted` and
  `Implements` (the refinement of `PageSpace`). The inductive invariant `Inv`
  adds to the properties that granted blocks and the reserved pages are marked
  and that the scan stands at or above the page asked for. The core is
  `CountsOneTooMany`: of the pages a count includes all but the last are free;
  so a grant (`GrantIsFree`) overlaps marked pages in its last one only.
  `GrantsFirstFit`, by `NothingMissed`: nothing that fits starts between the page
  asked for and the one the scan stands at. It holds across the jumps because
  the scan sweeps whole dwords only from a dword's beginning or from a dword
  that is not full (`SweepFindsFirst`), and because a run that is too short is
  left at a page in use. `StandsStillMidDword`: from the first page of a dword
  the scan always gets on. `RoundsAlwaysAdvance`: each round begins later than
  the one before, and inside the memory.
* `DosCallsProofs`: `UsesVmm`, every step of a program is one of `Vmm` or leaves
  it alone, so that the theorems above hold of the loader and of programs;
  `BlocksCover` (`AllocCovers`), with the invariant that requests are granted in
  the order they are made and that the pages looked for cover the bytes last
  asked; `CopiesInside` (`SysInfoInside`): the test of the indices bounds the
  product whose upper bits the test of the length may have lost.  It rests on
  the assumption that four times the values of the table are a number, 120
  below 2^32.
* `I386Proofs`, for every program, every answer of the host, and every size of
  byte and memory: `MachineTyped` (`TypeOK`) and `BasesFollowSelectors`
  (`RealModeBases`), from the invariant `CoreInv`, that the machine is `Good`:
  it is of the set `Machine` and has the bases of real mode.  Each handler is
  shown to make a good machine of a good one if its operands are what
  `read_source` and `write_dest` know (`Ready`, and more where it needs more:
  the size of what WRITE_DX goes above, a divisor of the size of the
  dividend's half).  That every byte string is decoded to such operands
  (`DecodeOK`) rests on `I386TableProofs`, which goes through the opcode tables
  row by row (`TableOK`) and through what `fixup_f6` and `fixup_ff` make of the
  rows (`FixupOK`).  The one invariant gives both theorems because neither is
  inductive alone: that a segment register is never a plain destination is a
  fact about the table, and is needed for the bases.
  `OverridesEndAlways`. The invariant `Nested` says that what is
  overridden is what the calls in `frames` override; only a prefix adds to it.
  Of the arithmetic, `ComparisonsTell`: after CMP the jumps tell the relation of
  the numbers for every two numbers of every width, but for the unsigned ones on
  dwords: there the carry is never set, which is proved as well. `CarryIsExact`:
  result and carry of ADC and SBB of bytes and words are the exact sum or
  difference. `DivisionIsExact` and `ProductIsWhole`: what is left of quotient,
  remainder and product when they are cut to their widths is the exact value,
  for all operands whose quotient has a place, and `BothHalvesWritten`: it is in
  the registers where programs look for it. All for every size of a byte; they
  are to `BranchTells`, `CarryTravels` and `DividesBack`, which TLC checks of
  programs on five-bit bytes, what an operation is to a program.
  Of the stack, what `FrameKept` checks of one program: `PopsWhatWasPushed`,
  `ReturnsBehindCall`, `LeaveUndoesEnter` and `PopAllUndoesPushAll` hold of every
  machine, and say of a procedure only that it left alone what was saved. They
  need a memory that holds what is stored (`StackSize <= MemSize`), and the last
  two a stack that does not wrap in its segment: LEAVE and POPA on a 16-bit stack
  write only half of the pointer. POPA must have no operand size prefix, with
  which it does not match PUSHA (section 5).
  `RoundsCountDown`, an action property from the same `CoreInv`: a round of a
  repetition counts ECX down by one and touches none of what a string
  instruction has nothing to do with.
* `BpTableProofs`: `BpTypeCorrect`, `NoMissedBreakpoint`, `OnlyGenuineHits`. The
  invariant says where in the table each armed or wanted address is, in terms of
  the step the writer is at, and what a reader that has passed part of a slot's
  test may conclude.
* `IceDebugProofs`, of all four threads together, for every program (`Succ`),
  every set of breakpoints to set and any number of strikes of the hotkey and of
  debuggers killed:
  `AtMostOneStraggler`. The invariant ties `after` to the program counter of the
  emulator thread: once an instruction has ended after `running` was cleared,
  the thread is before its test of `running`.
  `TypeCorrect`. The invariant `Types` says which words a packet on the pipe
  has, so that what ICEThread takes for a field of it is one.
  `StraysAreBounded` (`StrayReplies`), by a balance (`ReplyInv`): the words in
  the pipe and those being written never exceed those that somebody still reads
  by more than two for each strike. A debugger that is gone wants nothing and may
  leave a whole command in the pipe, so the balance is kept while one is there;
  over its end and the connection of the next, `Links` says what each end finds
  in the pipe, and `Strays` that the hits still to come for nobody are no more
  than were given up. A reply counts from the moment its command
  is sent, also while the packet is in the pipe or ICEThread works on it, and a
  thread that waits counts while it may still take words; without either, steps
  between the two programs would change the balance.
  `RepliesMatchBeforeStrike` and `PromptStoppedBeforeStrike`, by
  `BeforeStrikeInv`: only one reply is awaited at a time, what the pipe holds is
  the rest of it, and the emulator thread is past its test of `running` only if
  somebody waits for it. Both say `strikes = 0`, no strike and no debugger killed
  so far, which every session satisfies until the first one: TLC finds either
  property violated after one strike, which is what the run `DebugBreakpoints`
  leaves out as well (and what `StrayReplies` bounds).
* `LxLoaderProofs`, for every executable, every set of libraries and every size
  of the bitmap. The allocator's invariants are taken over from
  `VmmProofs` by `INSTANCE`: a round of the scan is the same for the
  loader, only the requests are its own (`AllocatorCall`, `AllocatorScan`).
  `TypesKept` (`TypeOK`) from `LoaderInv`: the types, what is asked of the
  allocator and what came back, and that there is one block for each object, for
  each function with a thunk, and for the one being waited for. It needs no more
  than tables that are consistent (`LoaderAssumption`).
  `LinkedImagesKept`, `LinkedOneThunkEach` and `LinkedStartsInside` from `Kept`:
  only mapped objects use pages below those of the thunks, so that the first fit
  for the next one (`GrantsFirstFit`) is where it was linked, and neither it nor
  a thunk is where something was loaded. This is where the page too many that
  each count includes does no harm: the first page of a block is free, and the
  block of an object ends below the next one.
  `LinkedFixedUp` (`FixedUp`) from `FixedInv`: modules and tables are those of
  the file, and each page has the fixups of the records applied so far.
  The hypotheses are about the file: `Linked`, objects of at least a page, apart
  from each other, behind the reserved pages and below those of the thunks;
  `Entered`, entry point and stack are in objects; `Fixable`, each page of an
  object has the fixups of the first one, no two of them for one place, and none
  for the ordinal just behind a table. They are needed: the object of
  `helloc.exe` that does not fit below the thunks is mapped elsewhere, and the
  run `LxFixups` shows the fixups of later pages ignored. Every executable of
  `LxLoad` satisfies the three.
* `ListingProofs`, for every instruction, with any prefixes in any order, any
  bytes behind the opcode, and both modes: `ListingTyped` (`TypeOK`),
  `ListingFollowsCode` (`LinesFollow`), `ListingShowsTargets`
  (`TargetsListed`), `ListingShowsImmediates` (`ImmediatesListed`) and
  `TraceHoldsInstruction` (`TraceFits`). Two decoders that share nothing but the
  tables are compared. First the rows: but for ENTER and the row of 0xF6 and
  0xF7, each has one number at most (`TableLine`, row by row), and for a row
  with one number both programs take the same bytes for the address
  (`SameAddress`) and for the operands (`LineAgrees`), far pointers apart. ENTER
  (`EnterAgrees`) and what `fixup_f6` makes of the other row (`MultiAgrees`) go
  by themselves. Then the prefixes: the core sets a flag for each kind, the
  listing counts and takes the number modulo two. `ListingInv` says that the
  flags are those of the prefixes passed and that the machine has done nothing
  else; with no prefix misread both programs therefore have the same sizes
  (`SameSizes`) and the same row at the same place (`Compared`). `TraceFits` does
  not leave the misread prefixes out: there the core takes a prefix for the
  instruction behind a repetition, and prefixes that are all different are four
  at most when it does (`FourKinds`).
  The proof found a case the property had left to chance: REP before ENTER takes
  over the name of the operation, and the second number of ENTER is misplaced
  all the same. `ImmediatesListed` now goes by the opcode, and the run meets
  REP ENTER.

`MinElement`, in each module that needs it, says that the community modules'
`Min` of a non-empty set of naturals is its least element.

They rest on named assumptions: `VmmAssumption` (whole dwords, reserved pages
inside), `ProgramAssumption` of `Maverick` and `SessionAssumption` (programs and
the breakpoints a user sets are addresses, and so is 0), `ByteAssumption` and
`FlagAssumption` (a byte is two to its bits, at least two and even; flags have
bits in the flag word), `ProgramAssumption` of `I386` (registers, flags, memory
and code a program starts with are numbers of their widths), `LoaderAssumption` (the
tables of an executable have their fields and index each other, libraries have
a table for the functions they implement), `LinesAssumption` (an
instruction is prefixes, an opcode that is none, the bytes its Mod R/M says, and
numbers, and ends below 2^32). TLC evaluates each in a run.

Only model-checked: the liveness properties (`Answered`, `GoMoves`, `Recovers`, `Ends`, and
the refuted ones), which are beyond the prover; and `BranchTells`, `CarryTravels`,
`DividesBack`, `CopiesAll`, `SearchStops`, `FrameKept`, `LoadsThrough` and
`PrintsText`, which say what certain programs have done when they end: a proof
would be an execution of each program by the prover, and with a loop an
induction over its rounds. What such programs rely on is proved of the
operations instead, as said above.

## 5. Known behaviour without a run

Seen while modelling, and in the models, but not the subject of a run:

* `TRACE` or `DUMP_MEMORY` before the memory is allocated kills MAVERICK
  (`IceFault`); a `g` with an address there places `eip`, which the loading of the
  program then overwrites (`EmuLoad`).
* With the bitmap exhausted the scan goes on behind it (`os2mem.c:98`).
* An import from a library that was not found reads a null table and crashes;
  `helloc.exe`, which imports from "emx", does.
* Entry point and stack are taken from `reloc_base_addr`, not from where an
  object was mapped. `StartsInside` holds as long as objects are mapped where
  they are linked; `helloc.exe`'s third object is too long for the gap below the
  thunk pages and is not.
* Internal fixups are read but have no value (`enterprs.c:162-203`), so a program
  is right only if its objects are where they are linked.

CPU core, all in the models as the code has them:

* `SetCF32` tests bit 32 of a `uint32_t` (`i386.h:1111`): no operation on dwords
  sets the carry. NEG has it inverted (`run386.c:437`); 0x83 with a negative
  immediate has it wrong for words.
* REP takes the next byte for the instruction (`run386.c:1476-1491`): another
  prefix behind it is lost, and F3 90 is a MOVS. REPNE stops on the zero flag
  after every string operation (`run386.c:900`), also those that do not set it.
  Counts are the whole ECX, of LOOP, too.
* CMPS takes ZF from the low byte; SCASB compares the whole EAX and SCASW
  nothing; REP before a row of OR with Mod R/M scans words by their low byte
  (`Scanned`); 0xA7 is a STOS though its comment says CMPSW (`i386.h:980`).
* A SIB byte is a `signed char`: a scale above 2 shifts by a negative count, which
  the host takes modulo 32.
* ENTER pushes a word more than it says, 16-bit LEAVE loses the upper half of EBP,
  PUSHA and POPA with an operand size prefix do not match, 0xD2 takes the wrong
  size. `FrameKept` uses them as a compiler does.
* ESP and EIP are not cut to 16 bits (the FIXME at `run386.c:20-27`).
* Dividing by zero, or the least number by -1, faults the host. MOV to segment
  register 6 or 7 writes behind the array. Operations the core does not have
  end in a `while(1)`, also in the middle of an instruction.
* `io_read_32` returns 0xfc in MAVERICK and nothing at all in LOCUTUS.
* A text without '$' is printed for ever (`run386.c:983`).

Disassembler:

* A segment override changes the size of addresses, a size prefix given twice
  counts twice; TEST with an immediate in 0xF6/0xF7 and far pointers of 16-bit
  code are too short; an immediate behind a displacement, and the second one of
  ENTER, are read from the wrong place.
* The core takes any number of prefixes, and TRACE copies all bytes of an
  instruction into 16 (`main.c:421`): an instruction with prefixes repeated
  overflows.

DOSCALLS and thunks:

* `DosSetFilePtr` and `DosWrite` hang when the host reports an error
  (`doscalls.c:51`, `:63`); `Dos32QueryHType` and `Dos32Exit` always do.
* `DosQuerySysInfo` leaves out the last value asked for, and takes index 0, for
  which it reads before its table.
* `ALIGN` makes none of a size in the last page; the call succeeds.
* `DosPutMessage` returns the bytes written as its code.
* `HostCall` passes four arguments from ESP+4 whatever the function takes; an
  `APIRET` has 16 bits, and EAX gets 32.
* Module numbers and ordinals are compared with `<=` (`os2thunk.c:88-91`). What an
  ordinal behind a table finds is 0 or taken for a function of the host in the
  model; a word with the high bit set there, an address to the code
  (`os2thunk.c:94`), is left out.

## 6. Not modelled

* The DOS window: it paints what is in the video memory on a timer and gives
  nothing back; keys and the clock are answers of the host in `I386`.
* The CPU test harness runs recorded tests on the core and has no state of its
  own. The programs in `test` are inputs. GOOSE is an empty file.
* Of the CPU core: protected mode segments (the code does not load them), the
  registers nobody reads, the dumps. Self-modifying code.
* Of the disassembler: the text.
* Of the loader: the file checks of `CheckFormat`, `WinMmap`, which nothing
  calls, the selectors of `os2thunk.c:6-18`, which nothing calls either, and the
  machine code of `HostCall`; the call of a service from a program is any answer
  (`I386`) or one of `DosCalls`.
* Of the pipe: a server write that waits because the client does not read.

## 7. Plan

Done: the debugger, the breakpoint table, the allocator and loader, the CPU core,
the disassembler, DOSCALLS, and the theorems above. A later version could add: of
the CPU core, what a program has met that ends in a state the core cannot leave;
of the loader, the values of the internal fixups, once the code applies them.
