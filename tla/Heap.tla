-------------------------------- MODULE Heap --------------------------------
(***************************************************************************)
(* The kernel heap (heap.c) on top of the physical memory manager (Pmm),   *)
(* in the order kernel_main brings them up: memory map, pmm_init,          *)
(* heap_init, then calls of heap_sbrk from the shell and from programs.    *)
(* heap_init is the only client the frame allocator has.                   *)
(***************************************************************************)
EXTENDS Pmm

CONSTANTS
  HEAP_PAGES,   \* pages heap_init asks for
  WORD,         \* number of values of a uintptr_t
  Increments,   \* arguments heap_sbrk is called with
  Images        \* where the boot loader may have put a module: [start, end)

Extent == [start : Nat, end : Nat]

(***************************************************************************)
(* An intptr_t reaches half way through the address space, and the heap    *)
(* ends below that.                                                        *)
(***************************************************************************)
ASSUME HeapAssumption ==
  /\ HEAP_PAGES \in Requests \ {0}
  /\ WORD \in Nat
  /\ KernelEnd + (HEAP_PAGES + 1) * PAGE_SIZE <= WORD \div 2
  /\ Increments \subseteq -(WORD \div 2) .. (WORD \div 2 - 1)
  /\ Images \subseteq Extent

VARIABLES
  stage,        \* "memory", "heap_init", "heap_alloc", "ready" or "panic"
  heap_base, heap_cur, heap_limit,
  blocks,       \* history: what heap_sbrk has granted, in order
  image         \* the module image recorded by modules_register

heapVars == <<heap_base, heap_cur, heap_limit, blocks>>
bootVars == <<vars, stage, heapVars, image>>

Block(s, n) == [start |-> s, end |-> s + n]

BootInit == /\ Init
            /\ stage = "memory"
            /\ heap_base = 0
            /\ heap_cur = 0
            /\ heap_limit = 0
            /\ blocks = <<>>
            /\ image \in Images

BootMap == /\ stage = "memory"
           /\ \E m \in Maps : SetMap(m)
           /\ UNCHANGED <<stage, heapVars, image>>

BootMem == /\ stage = "memory"
           /\ PmmInit
           /\ stage' = "heap_init"
           /\ UNCHANGED <<heapVars, image>>

\* heap_init(&kernel_end): round the base up, ask for the frames ...
HeapInitCall_RoundsDown ==
  /\ stage = "heap_init"
  /\ AllocCall(HEAP_PAGES)
  /\ heap_base' = FrameDown(KernelEnd) * PAGE_SIZE
  /\ stage' = "heap_alloc"
  /\ UNCHANGED <<heap_cur, heap_limit, blocks, image>>
HeapInitCall == /\ stage = "heap_init"
                /\ AllocCall(HEAP_PAGES)
                /\ heap_base' = FrameUp(KernelEnd) * PAGE_SIZE
                /\ stage' = "heap_alloc"
                /\ UNCHANGED <<heap_cur, heap_limit, blocks, image>>

HeapInitScan == /\ stage = "heap_alloc"
                /\ Scan
                /\ UNCHANGED <<stage, heapVars, image>>

\* ... and panic unless they start at the base.
HeapInitPanics == /\ stage = "heap_alloc" /\ pc = "idle"
                  /\ ret.addr = 0 \/ ret.addr # heap_base
                  /\ stage' = "panic"
                  /\ UNCHANGED <<vars, heapVars, image>>

HeapInitDone_AnyAddress ==
  /\ stage = "heap_alloc" /\ pc = "idle"
  /\ heap_cur' = heap_base
  /\ heap_limit' = heap_base + HEAP_PAGES * PAGE_SIZE
  /\ stage' = "ready"
  /\ UNCHANGED <<vars, heap_base, blocks, image>>
HeapInitDone == /\ stage = "heap_alloc" /\ pc = "idle"
                /\ ret.addr # 0 /\ ret.addr = heap_base
                /\ heap_cur' = heap_base
                /\ heap_limit' = heap_base + HEAP_PAGES * PAGE_SIZE
                /\ stage' = "ready"
                /\ UNCHANGED <<vars, heap_base, blocks, image>>

\* The bump: the addition is on uintptr_t.
NewTop(incr) == (heap_cur + incr) % WORD

SbrkGrants_LimitOff(incr) ==
  /\ stage = "ready"
  /\ incr > 0
  /\ NewTop(incr) <= heap_limit + 1
  /\ heap_cur' = NewTop(incr)
  /\ blocks' = Append(blocks, Block(heap_cur, incr))
  /\ UNCHANGED <<vars, stage, heap_base, heap_limit, image>>
SbrkGrants_Shrinks(incr) ==
  /\ stage = "ready"
  /\ incr # 0
  /\ NewTop(incr) <= heap_limit
  /\ heap_cur' = NewTop(incr)
  /\ blocks' = Append(blocks, Block(heap_cur, incr))
  /\ UNCHANGED <<vars, stage, heap_base, heap_limit, image>>
SbrkGrants(incr) == /\ stage = "ready"
                    /\ incr > 0
                    /\ NewTop(incr) <= heap_limit
                    /\ heap_cur' = NewTop(incr)
                    /\ blocks' = Append(blocks, Block(heap_cur, incr))
                    /\ UNCHANGED <<vars, stage, heap_base, heap_limit, image>>

\* Zero asks for the top; a negative or too large increment is refused.
SbrkOther(incr) == /\ stage = "ready"
                   /\ incr <= 0 \/ NewTop(incr) > heap_limit
                   /\ UNCHANGED bootVars

BootNext == \/ BootMap \/ BootMem \/ HeapInitCall \/ HeapInitScan
            \/ HeapInitPanics \/ HeapInitDone
            \/ \E incr \in Increments : SbrkGrants(incr) \/ SbrkOther(incr)

Boot == \/ BootMap \/ BootMem \/ HeapInitCall \/ HeapInitScan
        \/ HeapInitPanics \/ HeapInitDone

BootSpec == BootInit /\ [][BootNext]_bootVars /\ WF_bootVars(Boot)

----------------------------------------------------------------------------
(* Type invariant of the heap's own words.                                 *)
HeapTypeOK ==
  /\ stage \in {"memory", "heap_init", "heap_alloc", "ready", "panic"}
  /\ heap_base \in 0 .. (WORD - 1)
  /\ heap_cur \in 0 .. heap_limit
  /\ heap_limit \in 0 .. (WORD - 1)
  /\ blocks \in Seq(Extent)
  /\ image \in Images

HeapFrames == Run(FrameUp(KernelEnd), HEAP_PAGES)

(***************************************************************************)
(* Once heap_init has returned, the bytes heap_sbrk may hand out are those *)
(* of frames the manager lent to the heap and to nobody else: real memory, *)
(* right after the kernel image (heap.c, "starting right after             *)
(* kernel_end").                                                           *)
(***************************************************************************)
HeapBacked ==
  stage = "ready" =>
    /\ HeapFrames = owned
    /\ heap_base = FrameUp(KernelEnd) * PAGE_SIZE
    /\ \A f \in HeapFrames : PageInRam(f) /\ AboveKernel(f)

(***************************************************************************)
(* heap_init panics only on a machine whose memory map really leaves no    *)
(* room for the heap right after the kernel.                               *)
(***************************************************************************)
PanicJustified ==
  stage = "panic" => \E f \in HeapFrames : f \notin Frames \/ ~PageInRam(f)

(***************************************************************************)
(* Every block heap_sbrk has granted lies inside the heap, and no two of   *)
(* them share a byte, however the calls of shell and programs follow one   *)
(* another.                                                                *)
(***************************************************************************)
BlocksDisjoint ==
  /\ \A i \in DOMAIN blocks : /\ heap_base <= blocks[i].start
                              /\ blocks[i].end <= heap_limit
  /\ \A i, j \in DOMAIN blocks : i < j => blocks[i].end <= blocks[j].start

(***************************************************************************)
(* No block granted by heap_sbrk covers the image of a loaded module       *)
(* (modules.h, MODULE_STATE_LOADED, "loaded in memory, not yet run").      *)
(***************************************************************************)
ImageIntact ==
  \A i \in DOMAIN blocks :
    image.end <= blocks[i].start \/ blocks[i].end <= image.start
============================================================================
