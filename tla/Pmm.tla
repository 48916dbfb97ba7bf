-------------------------------- MODULE Pmm --------------------------------
(***************************************************************************)
(* The physical memory manager (arch/x86_64/pmm.c) and the memory map it   *)
(* starts from (hal_mem_set_map and hal_mem_get_map in hal.c): a bitmap    *)
(* with one bit per page frame, filled once at boot from the map the boot  *)
(* loader reported, and a first-fit allocator that scans it one frame at a *)
(* time.                                                                   *)
(*                                                                         *)
(* The scan of an allocation is modelled frame by frame, with the loop's   *)
(* own variables, because its correctness is the loop's: everything else   *)
(* runs to completion (one processor, interrupts off, no callbacks), so a  *)
(* routine without a search is one step.                                   *)
(***************************************************************************)
EXTENDS Integers, Sequences

CONSTANTS
  PAGE_SIZE,    \* bytes in a frame
  MAX_FRAMES,   \* frames the bitmap has room for
  MAP_MAX,      \* regions the kernel keeps of the reported map
  KernelEnd,    \* first byte after the kernel image (linker script)
  Maps,         \* memory maps the boot loader may report
  Requests      \* page counts clients ask for or give back

Region == [base : Nat, length : Nat, type : Nat]

(***************************************************************************)
(* The kernel image is not empty, so frame 0 belongs to it or to the low   *)
(* memory below it.  Regions end below 2^44, where a frame number still    *)
(* fits the 32 bits the code gives it.                                     *)
(***************************************************************************)
ASSUME PmmAssumption ==
  /\ PAGE_SIZE \in Nat \ {0}
  /\ MAX_FRAMES \in Nat \ {0}
  /\ MAP_MAX \in Nat
  /\ KernelEnd \in Nat \ {0}
  /\ Maps \subseteq Seq(Region)
  /\ Requests \subseteq Nat

VARIABLES
  mem_map,        \* the regions kept by the kernel
  used,           \* the bitmap: the frames whose bit is 1
  total_frames,   \* frames below the end of usable memory
  pc,             \* "unmapped", "mapped" (before pmm_init), "idle", "scan"
  call,           \* pmm_alloc_pages in progress: n and the loop's f, run, start
  ret,            \* the last answer of pmm_alloc_pages and the n it was for
  owned           \* the frames clients hold (history: no code stores it)

vars == <<mem_map, used, total_frames, pc, call, ret, owned>>

Frames == 0 .. (MAX_FRAMES - 1)
FreeFrames == Frames \ used
Run(s, n) == s .. (s + n - 1)
NoCall == [n |-> 0, f |-> 0, run |-> 0, start |-> 0]
Ready == pc \in {"idle", "scan"}

----------------------------------------------------------------------------
(* Page rounding, and the frames pmm_init frees and takes back.            *)

FrameUp_Truncates(a) == a \div PAGE_SIZE
FrameUp(a) == (a + PAGE_SIZE - 1) \div PAGE_SIZE
FrameDown(a) == a \div PAGE_SIZE

IsUsable(r) == r.type = 1
End(r) == r.base + r.length

\* The frames freed for the usable regions of map m: whole pages only.
UsableFrames_RoundsOut(m) ==
  {f \in Frames : \E i \in DOMAIN m : /\ IsUsable(m[i])
                                      /\ FrameDown(m[i].base) <= f
                                      /\ f < FrameDown(End(m[i]))}
UsableFrames(m) ==
  {f \in Frames : \E i \in DOMAIN m : /\ IsUsable(m[i])
                                      /\ FrameUp(m[i].base) <= f
                                      /\ f < FrameDown(End(m[i]))}

KernelFrames == {f \in Frames : f < FrameUp(KernelEnd)}

\* `top' is the highest end of a usable region, 0 if there is none.
IsTop(m, top) ==
  LET Ends == {End(m[i]) : i \in {j \in DOMAIN m : IsUsable(m[j])}}
  IN  top \in {0} \cup Ends /\ \A e \in Ends : e <= top

AtMost_Ignored(x, bound) == x
AtMost(x, bound) == IF x > bound THEN bound ELSE x

----------------------------------------------------------------------------
Init == /\ mem_map = <<>>
        /\ used = {}
        /\ total_frames = 0
        /\ pc = "unmapped"
        /\ call = NoCall
        /\ ret = [n |-> 0, addr |-> 0]
        /\ owned = {}

\* hal_arch_init hands over the reported map; what does not fit is dropped.
SetMap(m) == /\ pc = "unmapped"
             /\ mem_map' = SubSeq(m, 1, AtMost(Len(m), MAP_MAX))
             /\ pc' = "mapped"
             /\ UNCHANGED <<used, total_frames, call, ret, owned>>

PmmInit_FirstTop ==
  /\ pc = "mapped"
  /\ total_frames' = IF mem_map = <<>> THEN 0
                     ELSE AtMost(FrameDown(End(mem_map[1])), MAX_FRAMES)
  /\ used' = (Frames \ UsableFrames(mem_map)) \cup KernelFrames
  /\ pc' = "idle"
  /\ UNCHANGED <<mem_map, call, ret, owned>>
PmmInit ==
  /\ pc = "mapped"
  /\ \E top \in {0} \cup {End(mem_map[i]) : i \in DOMAIN mem_map} :
       /\ IsTop(mem_map, top)
       /\ total_frames' = AtMost(FrameDown(top), MAX_FRAMES)
  /\ used' = (Frames \ UsableFrames(mem_map)) \cup KernelFrames
  /\ pc' = "idle"
  /\ UNCHANGED <<mem_map, call, ret, owned>>

AllocCall(n) == /\ pc = "idle"
                /\ call' = [n |-> n, f |-> 0, run |-> 0, start |-> 0]
                /\ pc' = "scan"
                /\ UNCHANGED <<mem_map, used, total_frames, ret, owned>>

\* The loop body of pmm_alloc_pages, one action per outcome.
Loop(f, run, start) == [n |-> call.n, f |-> f, run |-> run, start |-> start]

Scanning == pc = "scan" /\ call.f < total_frames

StartHere == IF call.run = 0 THEN call.f ELSE call.start

ScanUsed_KeepsRun ==
  /\ Scanning
  /\ call.f \in used
  /\ call' = Loop(call.f + 1, call.run, call.start)
  /\ UNCHANGED <<mem_map, used, total_frames, pc, ret, owned>>
ScanUsed_Stays ==
  /\ Scanning
  /\ call.f \in used
  /\ call' = Loop(call.f, 0, call.start)
  /\ UNCHANGED <<mem_map, used, total_frames, pc, ret, owned>>
ScanUsed == /\ Scanning
            /\ call.f \in used
            /\ call' = Loop(call.f + 1, 0, call.start)
            /\ UNCHANGED <<mem_map, used, total_frames, pc, ret, owned>>

ScanFree == /\ Scanning
            /\ call.f \notin used
            /\ call.run + 1 # call.n
            /\ call' = Loop(call.f + 1, call.run + 1, StartHere)
            /\ UNCHANGED <<mem_map, used, total_frames, pc, ret, owned>>

\* An answer goes back to the caller, which holds the run unless told "0".
Return(addr) ==
  /\ ret' = [n |-> call.n, addr |-> addr]
  /\ owned' = IF addr = 0 THEN owned ELSE owned \cup Run(StartHere, call.n)
  /\ call' = NoCall
  /\ pc' = "idle"

ScanFound_MarksOneLess ==
  /\ Scanning
  /\ call.f \notin used
  /\ call.run + 1 = call.n
  /\ used' = used \cup Run(StartHere, call.n - 1)
  /\ Return(StartHere * PAGE_SIZE)
  /\ UNCHANGED <<mem_map, total_frames>>
ScanFound == /\ Scanning
             /\ call.f \notin used
             /\ call.run + 1 = call.n
             /\ used' = used \cup Run(StartHere, call.n)
             /\ Return(StartHere * PAGE_SIZE)
             /\ UNCHANGED <<mem_map, total_frames>>

ScanEnd == /\ pc = "scan"
           /\ call.f >= total_frames
           /\ Return(0)
           /\ UNCHANGED <<mem_map, used, total_frames>>

Scan == ScanUsed \/ ScanFree \/ ScanFound \/ ScanEnd

\* pmm_free_pages of pages a client holds; the code itself checks nothing
\* but the end of the bitmap.
FreePages(s, n) ==
  /\ pc = "idle"
  /\ Run(s, n) \subseteq owned
  /\ used' = used \ (Run(s, n) \cap Frames)
  /\ owned' = owned \ Run(s, n)
  /\ UNCHANGED <<mem_map, total_frames, pc, call, ret>>

Next == \/ \E m \in Maps : SetMap(m)
        \/ PmmInit
        \/ \E n \in Requests : AllocCall(n)
        \/ Scan
        \/ \E s \in Frames, n \in Requests : FreePages(s, n)

(* Nothing preempts the scan: once called, it runs.                        *)
Spec == Init /\ [][Next]_vars /\ WF_vars(Scan)

----------------------------------------------------------------------------
(* Type invariant: the shape of the state of pmm.c and of the call.        *)
TypeOK ==
  /\ mem_map \in Seq(Region)
  /\ used \subseteq Frames
  /\ total_frames \in 0 .. MAX_FRAMES
  /\ pc \in {"unmapped", "mapped", "idle", "scan"}
  /\ call \in [n : Nat, f : Nat, run : Nat, start : Nat]
  /\ ret \in [n : Nat, addr : Nat]
  /\ owned \subseteq Frames

\* The page of frame f lies wholly inside one usable region.
PageInRam(f) == \E i \in DOMAIN mem_map :
                  /\ IsUsable(mem_map[i])
                  /\ mem_map[i].base <= f * PAGE_SIZE
                  /\ (f + 1) * PAGE_SIZE <= End(mem_map[i])

AboveKernel(f) == KernelEnd <= f * PAGE_SIZE

(***************************************************************************)
(* No page of RAM is lost and none is invented: through any sequence of    *)
(* allocations and frees, the free frames and those lent out are together  *)
(* the frames whose pages lie wholly in usable memory and wholly above the *)
(* kernel image (pmm_init's rounding, the marks of pmm_alloc_pages and     *)
(* pmm_free_pages).                                                        *)
(***************************************************************************)
FramesConserved ==
  Ready => FreeFrames \cup owned = {f \in Frames : PageInRam(f) /\ AboveKernel(f)}

(***************************************************************************)
(* A frame a client holds is not free, so no scan of pmm_alloc_pages can   *)
(* lend it a second time.                                                  *)
(***************************************************************************)
LentOnce == Ready => FreeFrames \cap owned = {}

(***************************************************************************)
(* Every free frame lies below total_frames, where the scan of             *)
(* pmm_alloc_pages looks: no free memory is out of the allocator's reach.  *)
(***************************************************************************)
NothingStranded == Ready => \A f \in FreeFrames : f < total_frames

(***************************************************************************)
(* pmm.c implements the allocator it promises: lowest fit, and a refusal   *)
(* (address 0) only when no run of n free frames exists.                   *)
(***************************************************************************)
FA == INSTANCE FrameAllocator
        WITH ready <- Ready,
             free  <- IF Ready THEN FreeFrames ELSE {},
             lent  <- owned,
             ret   <- [n |-> ret.n, start |-> ret.addr \div PAGE_SIZE]
ImplementsAllocator == FA!Spec

(***************************************************************************)
(* Every call of pmm_alloc_pages returns, whatever n (0 included) and      *)
(* however full the bitmap.                                                *)
(***************************************************************************)
CallReturns == pc = "scan" ~> pc = "idle"
============================================================================
