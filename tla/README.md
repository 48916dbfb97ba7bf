# A TLA+ verification of KDOS

KDOS is a small x86-64 kernel in the manner of MS-DOS: one processor, one address space, no
scheduler, no system calls, no protection between kernel, shell and programs.  GRUB loads the
kernel and flat binary *modules*; the kernel calls the modules one after the other, and the
last one it calls is the shell `COMMAND.KERN`, which receives ELF programs over a serial line
and calls them.  What can go wrong is therefore seldom a race of two threads.  It is the order
in which boot code, shell, program, exception handler and hardware change a few shared words;
arithmetic at the edge of a bitmap, a window or a screen; and what one of them believes of
state another one has left behind.

This directory holds TLA+ modules of that behaviour, TLC configurations that check them on
small instances, and TLAPS proofs for every instance.  `PROJECT.json` maps each definition to
the lines it translates, and lists runs, mutants, findings, hazards and theorems.

    tlc -config MCPmm.cfg MCPmm      # a run
    tlapm PmmProofs.tla              # the proofs of a module

## 1. Inventory

| Component (source) | State | Operations | Interacts with | Hard part |
|---|---|---|---|---|
| Boot entry (`boot.S`, `link.ld`, `kernel.c`) | page tables, stack | multiboot entry, long mode, `kernel_main` | everything, once | order; maps only 0-128 MB |
| Boot information (`hal.c`, `multiboot2.h`) | console device, kept memory map | two walks over the tags, set/get map | console, PMM, registry | tags in any order, more entries than kept |
| Physical memory manager (`pmm.c`) | bitmap, `total_frames` | `pmm_init`, `pmm_alloc_pages`, `pmm_free_pages` | memory map, heap | rounding, holes, order of regions, run detection |
| Heap (`heap.c`) | base, top, limit | `heap_init`, `heap_sbrk` | PMM, shell, programs | its limit, shared by loads and programs; images never reserved |
| Exceptions (`isr.S`, `idt.c`) | IDT, TSS, hook word | entry, handler, hook, IRET | shell, programs | nesting, error codes, lost stack, IF |
| Exception recovery of the shell (`main.c`, `recover.S`) | `_exc_buf`, `exc_*` words | `elf_exec`, `exc_hook_fn`, `exc_save`, `exc_restore` | handler, program | order of the steps that arm and disarm |
| Module registry (`modules.c`) | `module_list` | register, run all, find, launch | boot information, modules | two names per module, three tests of them |
| ELF loader (`elf.c`) | none of its own | `elf_load` | shell, memory | unsigned wrap; overlapping segments; reads its file from the memory it writes |
| KELF transfer (`transfer.c`) | `com2_initialized` | `transfer_recv_elf` | host, port, heap | a sender out of step, late or silent |
| Console, screen and keyboard (`vga.c`, `keyboard.c`, `readline`) | cells, cursor; shift, prefix; line | putchar, clear; `kbd_process`; line editing | user, commands | wrap, scroll and erase together; keys ahead of the shell |
| Console, serial and redirection (`serial.c`, `hal.c`) | which device | init, putchar, getchar, clear | boot option, a terminal | two devices with different line ends |
| C library glue (`newlib.c`, `crt.S`) | saved table pointer | `read`, `write`, `sbrk`, `_exit`, start-up | services table, console | a second line editor with other limits than the shell's |
| Services table (`modules.c`, `module_abi.h`) | const table | one forward per service | modules, programs | covered with its targets |
| Sample and test modules | none | print, fault on purpose | | environment |

The hook word `exc_hook`, the heap top, the keyboard's buffer, memory itself and the shell's
`exc_*` words are the state that several components share; each is modelled in one module with
all its writers.

Properties that make the parts correct, by component:

* **PMM**: no frame lent twice, none lost or invented through rounding, allocation and free;
  the first fit is found, and a refusal is justified; the scan ends.
* **Heap**: what `heap_sbrk` hands out is RAM, above the kernel, lent to the heap alone, and
  never handed out twice; a panic at boot is justified; images of modules survive.
* **Exception recovery**: after any program, the shell goes on with its own stack and
  registers, reports what really happened, with no hook left armed; a faulting hook is not
  entered again.
* **Boot information**: console, memory map and modules are those the tags name, in any order.
* **Registry**: no entry called twice; utilities before the shell; the right shell.
* **ELF loader**: nothing written outside the window; exactly the right files accepted; memory
  holds the program.
* **Transfer**: the bytes of the host are taken frame by frame, none lost or read twice; a frame
  sent by the protocol arrives whole, in its own block; the shell waits for nothing but the host.
* **`load` as a whole**: the program called is, byte for byte, the program sent.
* **Console**: each reader gets what was typed for it, the screen shows the line, editing leaves
  the rest of the screen alone, colours stay with their cells.

## 2. The modules

| Module | Models | Used by |
|---|---|---|
| `FrameAllocator` | abstract: first-fit allocation in single steps | refined by `Pmm` |
| `Pmm` | `pmm.c`, memory map of `hal.c` | `MCPmm`, `Heap` |
| `Heap` | `heap.c` composed with `Pmm` in the order of `kernel_main` | `MCHeap` |
| `ExcRecovery` | `isr.S`, `idt.c`, `recover.S`, `cmd_load` and `elf_exec` in `main.c` | `MCExcRecovery` |
| `Modules` | tag walks of `hal.c`, `modules.c`, end of `kernel_main` | `MCModules` |
| `ElfFormat` | what `elf.c` reads and checks, as operators | `ElfLoader`, `Load` |
| `ElfLoader` | `elf.c` on a file apart from the memory it loads to | `MCElfLoader` |
| `FrameStream` | abstract: a stream of bytes taken frame by frame | refined by `Load` |
| `Transfer` | `transfer.c`, on port, heap and host | `Load` |
| `Load` | `cmd_load`: `Transfer`, then `elf.c` on the received bytes, then the program, in one memory | `MCLoad` |
| `Vga` | `vga.c`, as operators on a screen | `Console` |
| `Console` | `keyboard.c`, console part of `hal.c`, `readline`, `read` of `newlib.c`, `kst_read`, on `Vga` or a terminal | `MCConsole` |
| `PmmProofs`, `HeapProofs`, `ModulesProofs`, `ElfProofs`, `ExcProofs`, `VgaProofs`, `ConsoleProofs`, `LoadProofs` | theorems and proofs | |

Definitions ending in `_Something` next to the one they vary (`ScanFound_MarksOneLess`) are
plausible bugs.  No specification uses them; each is there to show that a property notices it.

**Pmm.** The bitmap is the set `used`; `mem_map` is what `hal_mem_set_map` keeps.
`pmm_alloc_pages` is `AllocCall`, then one action per outcome of the loop body (`ScanUsed`,
`ScanFree`, `ScanFound`) or of its end (`ScanEnd`), with the loop's own variables in `call`:
the correctness of the allocator is the correctness of that loop.  `owned` is history: the
frames clients hold.  Clients free only what they hold (the code checks nothing; in KDOS
nobody calls free at all).

**Heap.** `stage` is the position of `kernel_main`.  `heap_init` calls the allocator of `Pmm`
and the scan runs inside it.  `heap_sbrk` adds modulo `WORD`, as a `uintptr_t` does.  `blocks`
is history.

**ExcRecovery.** One action per step between two points where an exception or interrupt can
strike.  A frame on the stack records the vector, where to return, the registers' owner,
and whether stub and processor agree on the error code (if not, everything the handler reads
is one word off).  The stack is reduced to depths, registers to their owner.  `Raise` finds the
stack for a frame: the interrupted one, or that of #DF where nothing can be pushed, for an NMI as
for a fault (a program may be interrupted on any stack).  `exc_err` goes the way of `exc_vec` and
is left out.  The program is the environment: it may return, fault with any stack pointer, register or clear hooks
through the services table, or stop the machine.  A hook registered by a program may retry,
redirect or fault.  `lines` are the interrupt lines open on this machine, chosen at the start:
what the kernel can promise differs between them, and the properties say for which they hold.
Once IF is set the timer may strike anywhere.

**Modules.** The tags are walked twice, by `hal_early_parse_console` (`ParseSkips`, `ParseFinds`,
`ParseEnds`) and by `hal_arch_init` (`AddRegions`, `Register`, `Ignore`, `PassOver`, `ArchDone`),
with `tag` the position; a tag is a console option, a piece of memory map, a module or one of no
interest.  `i` is the loop variable of `modules_run_all` and then of `modules_launch_entry`.  A
module may return, run for ever, or stop the machine.

**ElfLoader.** Words wrap modulo `WORD`.  A byte of the file is its offset, so memory shows
which byte each address was given.

**Transfer.** `wire` is what the host has sent, `fifo` what the port holds.  `got` is what the
running `com2_recv_buf` has read, `taken` (history) what the whole command has.  The heap is
`HEAP` bytes of memory with a top.

**Load** adds the steps of `elf_load`, one per outcome of the loop body, the call, and a program
that writes its own segments and takes memory.  `elf_load` is written as the code is: the file
header `eh(m)` and the program header `ph(m)` are decoded from memory `m` whenever the code goes
through the pointer.  The pointer `ph` is computed once, before the copy, and its fields are read
again behind it (`PhAfter`).  `Copied` is what `km_memcpy` leaves behind, in closed
form: it steps upwards, so where the blocks overlap it reads what it has written before.
`ASSUME CopiedBytewise` in `MCLoad` compares it with the loop of the code for all blocks of the
small memory, overlapping and wrapping ones included.  The layout of the headers is left to the
operator constants `Ehdr` and `Phdr`.  `Image` is the file as the host sent it, from which
`ProgramAsSent` says what memory must hold.

**FrameStream.** A request takes from the front of `stream` a whole frame, or the magic or header
that shows it is none.  Its refinement mapping puts what the command has read but not finished
back in front of port and wire, and reads each outcome from the block it was put in, now.

**Console.** `device` is the console the machine was booted with.  `queue` holds what was typed
and not read: scan codes, or characters of a terminal.  A command may print, clear, and read with
one of three readers: `readline`, the library's `read`, the kernel's `kst_read`.  `means`, history,
is what the user may mean by a code when the key goes down, and `meant` the lines that may result.
There is more than one only while one of two shift keys held together has been released
(`unsure`): the other still shifts on a typewriter, and shifts no more for the one flag of
`keyboard.c`.  Another press of a shift key, or the release of the second, settles it.
`screen.home`, also history, is the prompt's cell, followed through scrolls.  A cell is a
character and a colour, which `make_entry` may spoil.

## 3. The runs

| Run | Instance | Shows |
|---|---|---|
| `pmm` | 8 frames of 4 bytes, kernel ending inside page 1, 7 maps, requests 0-3 | type, `FramesConserved`, `LentOnce`, `NothingStranded`, refinement of `FrameAllocator`, every call returns |
| `heap` | 2-page heap, 7 maps (fits, does not, fits elsewhere), increments around every limit, 8-bit words | heap is RAM and its own, panic justified, blocks disjoint |
| `heap_image` | the image right after the kernel | *violation*: see 5 |
| `exc` | #DE and #PF, shell's, deeper or no stack, every set of open lines | type, `HookScope`, `ShellStateKept`, `ReportTruthful` for all; `FrameIntactIfNoNmi`, `NoReentry` without NMI; `FaultsSurvived` and every fault is reported with all lines closed |
| `exc_timer`, `exc_nmi` | one line open | *violations*: see 5 |
| `modules` | registry of 3, map of 3 regions, up to 4 tags of every kind, both shell names and a utility in both name fields, missing headers | `BootInfoKept`, `CalledOnce`, `UtilitiesFirst`, `ShellChoice` |
| `elf` | 16-byte address space, window 4-11, up to 2 segments at every boundary | `WritesInWindow`, `AcceptsExactly`, `ProgramInPlace` |
| `elf_any` | files no linker writes | *violation*: see 5 |
| `load` | bytes 0-3, magic and size of two bytes, headers of one, 7-byte heap below the programs, FIFO of 2, three sendings out of nine kinds | `FramesReceived`, `BuffersKept`, `ProgramAsSent`, refinement of `FrameStream`, `WaitsOnlyForHost` |
| `load_over` | the same programs linked into the heap | *violation*: see 5 |
| `console` | both devices, 3x2 screen, line of 2 characters, reads of 1 and 2, a number-pad key, Enter, Backspace, both shifts, a character above 0x7F, 4 codes ahead | `ScreenShowsLine`, `LineAsTyped`, `EditLeavesRest`, `ColourKept` |

Why the bounds are enough.  `pmm`: a run of three needs a hole on either side, and eight frames
hold two such runs; the maps have each kind of region `pmm_init` distinguishes.  `heap`: the
increments include both signs, zero, the exact size, one more, and the smallest and largest an
`intptr_t` holds; no sum wraps, since the heap is low.  `exc`: handler and hook never look at a vector but for its error code, so one
vector with and one without stand for all; nesting is bounded by the hook word itself (one
hook, then a halt) and by the NMI mask.  `modules`: three entries hold two shells and a
utility, or a broken image in front of a good one, in every order; the fourth tag meets the
full registry or the full map.  `elf`: files around every boundary of file, window and word, and
files with the entry 0; two segments give every order of overlap.  `load`: the sendings are two good programs, one of them with segments
that overlap and a tail to clear, files refused before, between and after their segments, a wrong
magic, two wrong sizes, and a frame cut short; three of them fill the heap, leave the stream out of
step and let it be read on.  `console`: prompt and line take two rows, so lines wrap, erase across
a row start and scroll; two calls of a command print and read, or read twice from one line.

Bounds that are not the code's: `MaxSent` (load), `MaxQueue` and `MaxCalls` (console),
which stop the environment; they are guards of environment actions only.

`CHECK_DEADLOCK FALSE` appears where the machine really stops: after a panic or `halt`, when
`modules` has handed over, after `elf_load` returned, or waiting for a host that has stopped.

## 4. Fairness

There is one processor, nothing preempts kernel code, and its loops wait for nothing, so a step
of kernel code that can be taken is taken: `WF(Scan)` in `Pmm`, `WF(Kernel)` in `ExcRecovery`,
`WF(Shell)` in `Load`, whose `Shell` is reception, loading and the call.  The port delivers what
was sent (`WF(Arrive)`).  Programs, modules, hooks of programs, users and hosts are never assumed
to do anything.

## 5. Findings

Five runs end in a violation of something the repository states:

* `exc_timer` - `exception_handler` resumes a recovered shell with `rflags = 0x202`
  (`idt.c:135`), so interrupts are enabled from the first caught exception on, while nothing
  programs or masks the interrupt controller.  The first tick (vector 8) is taken for #DF, with
  no hook set, and halts the machine.
* `exc_nmi` - `elf_exec` arms the hook (`main.c:92`) before `exc_save` fills `_exc_buf`
  (`main.c:94`).  An NMI in between resumes from an empty or stale context.
* `heap_image` - neither `pmm_init` nor `heap_init` reserves the images GRUB loaded; one that
  lies after the kernel is handed out by `heap_sbrk`.
* `elf_any` - the size check (`elf.c:85`) wraps for a segment above `PROG_LOAD_MAX`, and
  `p_filesz` is never compared with `p_memsz`: "overflow-safe" holds only for files a linker
  writes.
* `load_over` - the window `elf_load` accepts contains the kernel and its heap.  A program linked
  into the heap (ld's own default of 4 MB is there) is copied over the file it is read from: its
  headers and segments change under the loop, and it is called all the same.

Smaller defects, shown where a property meets them and not in a run of their own:

* `make_entry` (`vga.c:30`) ORs a plain `char` into the cell: one above 0x7F is sign-extended and
  overwrites the colour byte.  `Vga.MakeEntry` does the same; `ColourKept` says how far the damage
  goes, which is that cell and no other, scrolls included.
* `keyboard.c:70` keeps one flag for two shift keys (see `Console` in 2).
* A file whose `e_entry` is 0 is loaded, and answered like one that was refused (`elf.c:98`).

Smaller disagreements between text and code:

* `newlib_en.md:71` says that `.bss` is not pre-zeroed; `elf_load` clears it (`elf.c:92`, and
  `kernel_en.md:190` says so), which `ProgramInPlace` and `ProgramAsSent` hold it to.
* `newlib_en.md:99` calls `read` a stub; it edits lines.
* `kernel_en.md:106` says of `getchar` "-1 if no input"; both devices wait for a character.
* `command_kern_en.md:33` allows a command of 128 characters; `readline` takes 127
  (`main.c:32`), the last place being the terminator's.
* `command_kern_en.md:103`: "Program finished." is printed only for programs that return from
  their entry point; one that ends through `crt.S` calls `_exit`, which panics.
* `kernel_en.md:145` gives the serial port 115200 baud; the code sets 38400.
* `kernel_en.md:78` describes a loop; `.no_multiboot` in `boot.S` halts once.
* `elf_arch.h:14` calls 1 MB "above BIOS/kernel", which is where `link.ld` puts the kernel.
* Page 0 is mapped, so the null access of `exception_test` raises no #PF.

## 6. What is proved

TLAPS checks the following for all values of the constants that satisfy the modules' `ASSUME`s.

`PmmProofs` (assumption `PmmAssumption`: positive sizes, a kernel image that is not empty):

* `TypeCorrect`, `Conservation`, `ExclusiveLending`, `Reachability`: the four invariants of the
  run `pmm`, from one inductive invariant `IInv`.  The invariants alone are not inductive: a
  step of the scan marks a run whose frames were looked at several steps before.  `ScanInv`
  carries what the loop knows (the last `call.run` frames before `call.f` are free, no run of
  `n` has ended before, and the current run is shorter than `n`), and `LentInReach` that
  clients hold frames below `total_frames` only.
* `Implementation`: `Spec => FA!Spec`, initial states and steps.  `ScanFound` maps to `Grant`
  and needs that the run found is the lowest; `ScanEnd` to `Refuse` and needs that the whole
  bitmap was looked at and that no free frame lies beyond; every other step of the scan
  stutters.

`HeapProofs` (in addition `HeapAssumption`: the heap ends below half the address space):

* `HeapTypeCorrect`, `HeapIsBacked`, `PanicOnlyWithoutRoom`, `BlocksNeverOverlap`, from `HInv`,
  which joins `IInv` of the allocator with what each stage of the boot knows.  That `heap_init`
  may compare one address and take all the pages rests on first fit: if the frames after the
  kernel are RAM, they are the lowest run and so the answer (`FirstHeapFrame`,
  `HeapFramesAbove`).  `BlocksNeverOverlap` needs the bound on the address space: below it the
  sum in `heap_sbrk` does not wrap.

`ModulesProofs` (assumption of `Modules` on its constants):

* `RegistryTypeCorrect`, `NoSecondCall`, `UtilitiesBeforeShell`, `RightShell`: four of the five
  invariants of the run `modules`, from `MInv`.  `CalledOnce` alone says nothing about the two
  functions that call modules; `OrderInv` says that all calls but the last name utilities, in
  the order of the registry, and `PhaseInv` how far `modules_run_all` and the three attempts of
  `kernel_main` have come.  The last call may be a shell because a shell's name is no utility's.
  `modules_find` is a least element (`LeastElement`, `FindFinds`).
* `BootInformationKept`: `BootInfoKept`, from `KeepInv`, which says the same of the tags before
  `tag` while the walk is under way.  A region array that is cut short and continued is one cut
  short at the end (`ShorterAgain`), and the next module's place is its rank among the modules
  (`ModulesKept`).  `FlattenAppend` says what `FlattenSeq`, a recursive definition, does to one more
  sequence; its induction is on the least length at which it fails.

`ElfProofs`, under `LinkedFilesOnly`, which is a hypothesis of each theorem and holds of the
files of the run `elf`: the program header table ends below the end of the address space, and
of each loadable segment `p_filesz <= p_memsz` and `p_vaddr <= PROG_LOAD_MAX`:

* `ElfTypeCorrect`, `WindowRespected`, `ExactAcceptance`, `ProgramLoaded`: the four invariants
  of the run `elf`, from `EInv`.  Its `LoopInv` says that the headers before `i` passed the
  checks of plain arithmetic and that memory is what they, and no others, put there.
  `HeaderPlain` and `SegmentPlain` show that under the hypothesis the wrapping comparisons of
  `elf_load` decide what plain ones decide; `elf_any` shows that without it they do not.

`ExcProofs` (any set of faults, of stack depths, of open interrupt lines):

* `ExcTypeCorrect`, `HookInScope`, `StateOfShellKept`, `TruthfulReport` for all lines,
  `ContextOfElfExec` and `HooksDoNotNest` without NMI, `FaultsDoNotStop` with all lines closed:
  the seven invariants of the run `exc`, from `ExcInv`.  They are not inductive because each
  speaks of the moment the shell is back, and what it finds then was put there before the
  fault, or during one of several nested ones.  `ShellInv` follows the shell's depth and
  registers through every frame that will resume it; `FramesInv` says what a frame can have
  interrupted; `HookInv` where the hook word can be set; `EngagedInv` that all frames a hook
  serves are served by the same one; `TruthInv` that `exc_info` tells of the last exception
  from the hook's first step on; `NoNmiInv` and `QuietInv` what closed lines add.
* One lemma (`Push_Inv`, and `Raise_Inv` on the choice of the stack) serves every exception,
  interrupt and NMI: they differ in what they push, and the invariant holds of each.

`VgaProofs` and `ConsoleProofs` (`VgaAssumption`, `ConsoleAssumption`: a screen of any size that
holds prompt and line, any keyboard, any bound on what waits):

* `PutPlain`, with `PutMove` beside it: what one `vga_putchar` does to every cell and to the cursor,
  in one equation for a glyph, wrapped and scrolled or not.  `home` falls by a row when the
  screen scrolls, so that cells are compared by their distance from the prompt.
* `ConsoleTypeCorrect`, `ScreenTruthful`, `ReadersGetWhatWasTyped`, `OneCellSpoiled`: the four
  invariants of the run `console`, from `CInv`, and `EditingLocal`, its action property.
  `ScreenShowsLine` is not inductive: erasing a character shows a cell that must already be
  blank, so `ShownInv` (`Holds`) also speaks of the cells behind the line, up to the farthest
  the line has ever reached.  `LineAsTyped` is not either: a reader lags behind the keys, so
  `KeyInv` says of the codes that wait that the driver, reading them one by one from the
  state it is in, will find for each a character that may be meant, and end with its flag as the
  keys held now make it (`Tracked`, `FlagAtEnd`); sending appends to such a queue and reading
  takes its head (`TrackedAppend`, `TrackedTail`), so the flag is right whenever it is used.  `LimitInv` keeps each reader inside the buffer it was given.

`LoadProofs` (`TransferAssumption`, `ElfAssumption`, `LoadAssumption`: any layout of headers, sizes
of magic and size field, memory, heap, limit and port, any set of what a host may send and a
program may ask and write):

* `LoadTypeCorrect`, for everything a host may send and every program.
* `LoadProgramAsSent`, `LoadBuffersKept` and `LoadFramesReceived`, from
  `Spec /\ []LinkedAboveHeap`.  `LinkedAboveHeap` says of a file whose header was accepted what
  `prog.ld` makes true of it: its table ends below the end of the address space, no segment is
  larger in the file than in memory, starts above the window, or starts in it within the heap.
  `elf_load` checks none of this, and `load_over` shows that without it the theorems are
  false.  Every state of the run `load` satisfies it (`ASSUME AboveHeapLinked` in `MCLoad`).
* The first two rest on `MInv`.  `BlocksInv`: the blocks of all loads lie apart, inside what
  `heap_sbrk` has given.  `FieldInv`: the field being read holds the bytes taken since it was
  begun, and the block holds all data taken.  `TableInv`: memory is what the headers before `i`
  put there (`InPlace`, of the last one that covers an address), and each was checked on
  the header that was sent.  `elf_load` reads headers from a memory it has been writing to;
  `SegmentPlaced` and `MemoryKept` say that no segment reaches the block they are in, in
  arithmetic that wraps, so `eh(mem)` and `ph(mem)` stay `SentHeader` and `SentSegment(i)`.
* `LoadFramesReceived` adds `StreamInv`: what is taken and not finished, in the port and on the
  wire (`Pending`) is the rest of what the host sent from some frame on, and that frame has the
  number of the load in progress.  It needs `FieldInv`, for a reception that takes exactly the
  bytes of its frame, and `BuffersKept`, for what was received once to be there later.
* `LoadImplementsStream`: `Load` implements the safety part of `FrameStream`, under `SizesAgree` in
  addition.  `RefuseMagic`, `RefuseSize` and `DataRead` map to the three answers (`Gives`: the
  stream loses exactly what was taken), sending to `Send`, the command to `Ask`, and all else
  stutters, since no step changes an outcome there has been (`OutcomeKept`).  `SizesAgree` is no
  assumption on the program: it says that two ways to write the same number, the loop of the
  code and the sum of `FrameStream`, agree on a size field.  The sum has powers of `BASE` in it, of
  which the provers know nothing, so TLC checks it (`ASSUME ValueIsSum` in `MCLoad`, all size
  fields of the run).

Only model-checked: every liveness property (fairness and `ENABLED` are out of the prover's
reach), and with it the liveness part of `ImplementsStream`; `SizesAgree`; and the findings.

## 7. Assumptions about the environment

* Regions of the memory map end below 2^44, so frame numbers fit the `uint32_t` of `pmm.c`.
* A program's own hook does not register itself again while it runs; modules called at boot
  leave no hook behind.
* The run `elf` takes files a linker writes: an image no larger than its segment, no
  segment starting above the window.  `elf_any` shows that the code needs this.
* The images of the modules are intact when they are called.
* `LineAsTyped` takes a plain or a shifted character for a key typed after one of two shift keys
  held together was released, and one only for every other key.
* The keyboard controller holds the user back when its buffer is full; a real one drops codes.
* Prompt and line fit the screen (129 of 2000 cells in the code).
* A terminal on COM1 starts a line at a line feed and keeps its cursor within the line.
* The programs of the run `load` are linked above the heap, where `prog.ld` puts them
  (`LinkedAboveHeap`).  `load_over` shows that the code needs this.
* The serial port holds a sender back instead of losing bytes, as the emulated one does.

## 8. What is not modelled, and why

* `boot.S`, `link.ld`, descriptor tables as such: straight-line code executed once; what it
  leaves is the initial state of the models.
* The tests of the boot information's address and magic (`hal.c:25`, `hal.c:136`): `boot.S` has
  tested the magic before, and calls the kernel only with a boot loader's address.
* `serial_init`, `com2_init` as sequences of port writes: what they leave is that the port works
  and is empty.
* The wording of panic screens, the hardware cursor, `print_hex` and `print_dec`: conversions no
  state depends on.  `print_dec` has room for 19 digits of the 20 a `uint64_t` may have; nothing in
  the repository prints so large a number.
* `open`, `close`, `lseek`, `fstat`, `isatty`, `getpid`: constants, until there is a file system.
* The byte layout of boot information and of ELF headers: the models start from decoded tags, and
  `Load` from decoders of any layout.
* Page tables: only 0-128 MB are mapped while `pmm.c` manages up to 512 MB.  Nobody but the heap,
  right after the kernel, asks for frames, so the difference cannot be met yet.

## 9. Plan

Order of work, most important behaviour first; done so far: 1-15.

1. `FrameAllocator`, `Pmm`, `MCPmm`; 2. `Heap`; 3. `ExcRecovery`; 4. `Modules`; 5. `ElfLoader`;
6. `Console` with `Vga`; 7. `Transfer`; 8. `PmmProofs`, `HeapProofs`;
9. `ModulesProofs`, `ElfProofs`; 10. boot information in `Modules`; 11. both consoles and the
three readers in `Console`; 12. `FrameStream`, `ElfFormat`, `Load`; 13. `ExcProofs`;
14. `VgaProofs`, `ConsoleProofs`; 15. `LoadProofs`.

Next, in the model:

* `Load` on the real `Heap` and under the exceptions of `ExcRecovery`, which so far it sees as
  `ProgramEnds` only.
