----------------------------- MODULE HeapProofs -----------------------------
(***************************************************************************)
(* Proofs about Heap: that the boot leaves the heap backed by frames of    *)
(* its own, that it gives up only when memory forces it to, and that the   *)
(* blocks of heap_sbrk never overlap.  The steps of Heap are steps of Pmm  *)
(* or leave it alone, so Pmm's inductive invariant holds here too.         *)
(***************************************************************************)
EXTENDS Heap, PmmProofs

(***************************************************************************)
(* What heap_init knows of the frame allocator at each stage: before it    *)
(* calls, nothing is lent; while the scan runs, it is the heap's; when the *)
(* scan has answered, either no frame is lent or the heap's are.           *)
(***************************************************************************)
Asked == call.n = HEAP_PAGES

Answered ==
  /\ ret.n = HEAP_PAGES
  /\ ret.addr = 0 => owned = {} /\ ~(HeapFrames \subseteq FreeFrames)
  /\ ret.addr # 0 => \E s \in Frames :
                       /\ s # 0
                       /\ ret.addr = s * PAGE_SIZE
                       /\ owned = Run(s, HEAP_PAGES)
                       /\ s # FrameUp(KernelEnd) =>
                            ~(HeapFrames \subseteq FreeFrames \cup owned)

StageInv ==
  /\ stage = "memory" => ~Ready
  /\ stage # "memory" => Ready
  /\ stage = "heap_init" => pc = "idle" /\ owned = {}
  /\ stage = "heap_alloc" => IF pc = "scan" THEN Asked /\ owned = {} ELSE Answered
  /\ stage \in {"ready", "panic"} => pc = "idle"
  /\ stage \in {"heap_alloc", "ready", "panic"} =>
       heap_base = FrameUp(KernelEnd) * PAGE_SIZE

(* The bump pointer and what lies below it.                                *)
BlockInv ==
  /\ stage # "ready" => blocks = <<>> /\ heap_cur = 0 /\ heap_limit = 0
  /\ stage = "ready" => /\ heap_limit = heap_base + HEAP_PAGES * PAGE_SIZE
                        /\ heap_base <= heap_cur
  /\ \A i \in DOMAIN blocks : blocks[i].end <= heap_cur

HInv == /\ IInv
        /\ HeapTypeOK
        /\ StageInv
        /\ BlockInv
        /\ HeapBacked
        /\ PanicJustified
        /\ BlocksDisjoint

----------------------------------------------------------------------------
(* Frames and addresses of the heap.                                       *)

(* The heap's first byte is the first byte of its first frame, and its     *)
(* last one lies below half the address space.                             *)
LEMMA HeapAddresses ==
  /\ FrameUp(KernelEnd) \in Nat \ {0}
  /\ FrameUp(KernelEnd) * PAGE_SIZE \in Nat
  /\ FrameUp(KernelEnd) * PAGE_SIZE + HEAP_PAGES * PAGE_SIZE \in Nat
  /\ FrameUp(KernelEnd) * PAGE_SIZE + HEAP_PAGES * PAGE_SIZE <= WORD \div 2
  /\ HEAP_PAGES \in Nat \ {0}
  /\ HEAP_PAGES * PAGE_SIZE \in Nat \ {0}
  /\ WORD \in Nat /\ WORD \div 2 \in Nat /\ WORD \div 2 <= WORD - 1
<1> DEFINE k == FrameUp(KernelEnd)
<1>1. /\ PAGE_SIZE \in Nat \ {0} /\ KernelEnd \in Nat \ {0} /\ HEAP_PAGES \in Nat \ {0}
      /\ WORD \in Nat
  BY PmmAssumption, HeapAssumption
<1>2. k \in Nat
  BY <1>1 DEF FrameUp
<1>3. k # 0
  <2>1. ~(KernelEnd <= 0 * PAGE_SIZE)
    BY <1>1
  <2>2. ~(k <= 0)
    BY <1>1, <2>1, RoundUp DEF FrameUp
  <2> QED BY <1>2, <2>2
<1>4. (k - 1) * PAGE_SIZE < KernelEnd
  <2>1. k - 1 \in Nat /\ ~(k <= k - 1)
    BY <1>2, <1>3
  <2>2. ~(KernelEnd <= (k - 1) * PAGE_SIZE)
    BY <1>1, <2>1, RoundUp DEF FrameUp
  <2>3. (k - 1) * PAGE_SIZE \in Nat
    BY <1>1, <2>1
  <2> QED BY <1>1, <2>2, <2>3
<1>5. k * PAGE_SIZE + HEAP_PAGES * PAGE_SIZE <= KernelEnd + (HEAP_PAGES + 1) * PAGE_SIZE
  <2>1. k * PAGE_SIZE = (k - 1) * PAGE_SIZE + PAGE_SIZE
    BY <1>1, <1>2
  <2>2. (HEAP_PAGES + 1) * PAGE_SIZE = HEAP_PAGES * PAGE_SIZE + PAGE_SIZE
    BY <1>1
  <2> HIDE DEF k
  <2>3. k * PAGE_SIZE \in Nat /\ (k - 1) * PAGE_SIZE \in Int /\ HEAP_PAGES * PAGE_SIZE \in Nat
    BY <1>1, <1>2
  <2> QED BY <1>1, <1>4, <2>1, <2>2, <2>3
<1>6. KernelEnd + (HEAP_PAGES + 1) * PAGE_SIZE <= WORD \div 2
  BY HeapAssumption
<1>7. k * PAGE_SIZE \in Nat /\ HEAP_PAGES * PAGE_SIZE \in Nat
      /\ (HEAP_PAGES + 1) * PAGE_SIZE \in Nat /\ WORD \div 2 \in Nat
  BY <1>1, <1>2
<1> HIDE DEF k
<1>8. k * PAGE_SIZE + HEAP_PAGES * PAGE_SIZE <= WORD \div 2
  BY <1>1, <1>5, <1>6, <1>7
<1>9. HEAP_PAGES * PAGE_SIZE # 0
  BY <1>1, SMT
<1>10. WORD \div 2 # 0
  BY <1>1, <1>2, <1>7, <1>8, <1>9
<1>11. WORD \div 2 <= WORD - 1
  BY <1>1, <1>10
<1> QED BY <1>1, <1>2, <1>3, <1>7, <1>8, <1>9, <1>11 DEF k

(* The heap's frames are exactly those from the end of the kernel on, so   *)
(* none of them is below it.                                               *)
LEMMA HeapFramesAbove ==
  ASSUME NEW f \in HeapFrames
  PROVE  f \in Nat /\ AboveKernel(f)
<1>1. FrameUp(KernelEnd) \in Nat /\ HEAP_PAGES \in Nat
  BY HeapAddresses
<1>2. f \in Nat /\ FrameUp(KernelEnd) <= f
  BY <1>1 DEF HeapFrames, Run
<1>3. KernelEnd <= f * PAGE_SIZE
  BY <1>2, RoundUp, PmmAssumption DEF FrameUp
<1> QED BY <1>2, <1>3 DEF AboveKernel

(* A frame that is above the kernel is not below the heap's first frame.   *)
LEMMA FirstHeapFrame ==
  ASSUME NEW f \in Frames, AboveKernel(f)
  PROVE  FrameUp(KernelEnd) <= f
BY RoundUp, PmmAssumption DEF FrameUp, AboveKernel, Frames

----------------------------------------------------------------------------
(* Steps of Heap as steps of Pmm.                                          *)

(* Every step of the boot is a step of the frame allocator or leaves it    *)
(* alone.                                                                  *)
LEMMA PmmStep == BootNext => [Next]_vars
<1> SUFFICES ASSUME BootNext PROVE [Next]_vars
  OBVIOUS
<1>1. HEAP_PAGES \in Requests
  BY HeapAssumption
<1> QED BY <1>1 DEF BootNext, BootMap, BootMem, HeapInitCall, HeapInitScan, HeapInitPanics,
           HeapInitDone, SbrkGrants, SbrkOther, bootVars, Next

(* So what was proved of the allocator holds in the booting machine.       *)
LEMMA PmmInvariant ==
  ASSUME HInv, [BootNext]_bootVars
  PROVE  IInv'
<1>1. [Next]_vars
  BY PmmStep DEF bootVars
<1> QED BY <1>1, NextIInv DEF HInv

----------------------------------------------------------------------------
(* One lemma per action.                                                   *)

(* Nothing is asked for or granted yet.                                    *)
LEMMA InitHInv == BootInit => HInv
<1> SUFFICES ASSUME BootInit PROVE HInv
  OBVIOUS
<1>1. IInv
  BY InitIInv DEF BootInit
<1>2. WORD - 1 \in Nat
  BY HeapAddresses
<1>3. HeapTypeOK
  BY <1>2 DEF BootInit, HeapTypeOK
<1> QED BY <1>1, <1>3 DEF BootInit, Init, HInv, StageInv, BlockInv, HeapBacked,
           PanicJustified, BlocksDisjoint, Ready

(* The memory map is known before anything depends on it.                  *)
LEMMA BootMapHInv == HInv /\ BootMap => HInv'
<1> SUFFICES ASSUME HInv, BootMap PROVE HInv'
  OBVIOUS
<1>1. IInv'
  BY PmmInvariant DEF BootNext
<1>2. /\ ~Ready' /\ UNCHANGED <<stage, heap_base, heap_cur, heap_limit, blocks, image>>
      /\ stage = "memory"
  BY DEF BootMap, SetMap, Ready, heapVars
<1> QED BY <1>1, <1>2 DEF HInv, HeapTypeOK, StageInv, BlockInv, HeapBacked,
           PanicJustified, BlocksDisjoint

(* pmm_init lends nothing.                                                 *)
LEMMA BootMemHInv == HInv /\ BootMem => HInv'
<1> SUFFICES ASSUME HInv, BootMem PROVE HInv'
  OBVIOUS
<1>1. IInv'
  BY PmmInvariant DEF BootNext
<1>2. /\ stage = "memory" /\ stage' = "heap_init" /\ Ready' /\ pc' = "idle" /\ owned' = owned
      /\ UNCHANGED <<heap_base, heap_cur, heap_limit, blocks, image>>
  BY DEF BootMem, PmmInit, Ready, heapVars
<1>3. owned = {}
  BY <1>2 DEF HInv, StageInv, IInv, LentInReach
<1> QED BY <1>1, <1>2, <1>3 DEF HInv, HeapTypeOK, StageInv, BlockInv, HeapBacked,
           PanicJustified, BlocksDisjoint

(* heap_init asks for its frames while none is lent.                       *)
LEMMA HeapInitCallHInv == HInv /\ HeapInitCall => HInv'
<1> SUFFICES ASSUME HInv, HeapInitCall PROVE HInv'
  OBVIOUS
<1>1. IInv'
  BY PmmInvariant DEF BootNext
<1>2. /\ stage = "heap_init" /\ stage' = "heap_alloc" /\ Ready' /\ pc' = "scan" /\ owned' = owned
      /\ call'.n = HEAP_PAGES
      /\ heap_base' = FrameUp(KernelEnd) * PAGE_SIZE
      /\ UNCHANGED <<heap_cur, heap_limit, blocks, image>>
  BY DEF HeapInitCall, AllocCall, Ready
<1>3. heap_base' \in 0 .. (WORD - 1)
  BY <1>2, HeapAddresses
<1>4. HeapTypeOK'
  BY <1>2, <1>3 DEF HInv, HeapTypeOK
<1>5. StageInv'
  BY <1>2 DEF HInv, StageInv, Asked
<1> QED BY <1>1, <1>2, <1>4, <1>5 DEF HInv, BlockInv, HeapBacked, PanicJustified, BlocksDisjoint

(* While the scan runs, the heap's frames are free if they are RAM; so a   *)
(* refusal, and an answer other than the heap's base, mean that they are   *)
(* not.                                                                    *)
LEMMA ScanAnswered ==
  ASSUME HInv, stage = "heap_alloc", pc = "scan", ScanFound \/ ScanEnd
  PROVE  Answered'
<1> USE DEF HInv, IInv, TypeOK
<1>1. call.n = HEAP_PAGES /\ owned = {} /\ Ready /\ HEAP_PAGES \in Nat \ {0}
  BY HeapAddresses DEF StageInv, Asked, Ready
<1>2. CASE ScanFound
  <2>1. /\ ret' = [n |-> HEAP_PAGES, addr |-> StartHere * PAGE_SIZE]
        /\ used' = used \cup Run(StartHere, HEAP_PAGES)
    BY <1>1, <1>2 DEF ScanFound, Return
  <2>2. /\ StartHere \in Frames /\ StartHere # 0 /\ StartHere * PAGE_SIZE # 0
        /\ Run(StartHere, HEAP_PAGES) \subseteq FreeFrames
        /\ \A t \in Frames : t < StartHere => ~(Run(t, HEAP_PAGES) \subseteq FreeFrames)
        /\ owned' = Run(StartHere, HEAP_PAGES)
    BY <1>1, <1>2, FoundRun
  <2>3. FreeFrames' \cup owned' = FreeFrames
    BY <2>1, <2>2 DEF FreeFrames
  <2>4. ASSUME StartHere # FrameUp(KernelEnd), HeapFrames \subseteq FreeFrames
        PROVE  FALSE
    <3>1. FrameUp(KernelEnd) \in Nat /\ FrameUp(KernelEnd) \in HeapFrames
      BY <1>1, HeapAddresses DEF HeapFrames, Run
    <3>2. FrameUp(KernelEnd) \in Frames
      BY <2>4, <3>1 DEF FreeFrames
    <3>3. ~(FrameUp(KernelEnd) < StartHere)
      BY <2>2, <2>4, <3>2 DEF HeapFrames
    <3>4. StartHere \in FreeFrames
      BY <1>1, <2>2 DEF Run, Frames
    <3>5. AboveKernel(StartHere)
      BY <1>1, <3>4 DEF FramesConserved
    <3>6. FrameUp(KernelEnd) <= StartHere
      BY <2>2, <3>5, FirstHeapFrame
    <3> QED BY <2>2, <2>4, <3>1, <3>3, <3>6 DEF Frames
  <2>5. StartHere # FrameUp(KernelEnd) => ~(HeapFrames \subseteq FreeFrames' \cup owned')
    BY <2>3, <2>4
  <2>6. /\ ret'.n = HEAP_PAGES /\ ret'.addr = StartHere * PAGE_SIZE /\ ret'.addr # 0
    BY <2>1, <2>2
  <2> QED BY <2>2, <2>5, <2>6 DEF Answered, HeapFrames, FrameUp, Run
<1>3. CASE ScanEnd
  <2>1. ret' = [n |-> HEAP_PAGES, addr |-> 0] /\ UNCHANGED <<used, owned>>
    BY <1>1, <1>3 DEF ScanEnd, Return
  <2>2. \A s \in Frames : ~FA!Fits(s, HEAP_PAGES)
    BY <1>1, <1>3, RefuseRefines DEF FA!Refuse
  <2>3. ASSUME HeapFrames \subseteq FreeFrames PROVE FALSE
    <3>1. FrameUp(KernelEnd) \in HeapFrames
      BY <1>1, HeapAddresses DEF HeapFrames, Run
    <3>2. FrameUp(KernelEnd) \in Frames
      BY <2>3, <3>1 DEF FreeFrames
    <3> QED BY <1>1, <2>2, <2>3, <3>2 DEF FA!Fits, FA!Run, HeapFrames, Run
  <2>4. ret'.n = HEAP_PAGES /\ ret'.addr = 0 /\ owned' = {} /\ FreeFrames' = FreeFrames
    BY <1>1, <2>1 DEF FreeFrames
  <2>5. HeapFrames' = HeapFrames
    BY DEF HeapFrames, FrameUp, Run
  <2> QED BY <2>3, <2>4, <2>5 DEF Answered
<1> QED BY <1>2, <1>3

(* A step of the scan either goes on or answers as ScanAnswered says.      *)
LEMMA HeapInitScanHInv == HInv /\ HeapInitScan => HInv'
<1> SUFFICES ASSUME HInv, HeapInitScan PROVE HInv'
  OBVIOUS
<1>1. IInv'
  BY PmmInvariant DEF BootNext
<1>2. /\ stage = "heap_alloc" /\ stage' = stage /\ pc = "scan"
      /\ UNCHANGED <<heap_base, heap_cur, heap_limit, blocks, image>>
  BY DEF HeapInitScan, heapVars, Scan, ScanUsed, ScanFree, ScanFound, ScanEnd, Scanning
<1>3. StageInv'
  <2>1. CASE ScanFound \/ ScanEnd
    <3>1. Answered' /\ pc' = "idle"
      BY <1>2, <2>1, ScanAnswered DEF ScanFound, ScanEnd, Return
    <3> QED BY <1>2, <3>1 DEF HInv, StageInv, Ready
  <2>2. CASE ScanUsed \/ ScanFree
    <3>1. pc' = "scan" /\ call'.n = call.n /\ owned' = owned
      BY <2>2 DEF ScanUsed, ScanFree, Scanning, Loop
    <3> QED BY <1>2, <3>1 DEF HInv, StageInv, Ready, Asked
  <2> QED BY <2>1, <2>2 DEF HeapInitScan, Scan
<1> QED BY <1>1, <1>2, <1>3 DEF HInv, HeapTypeOK, BlockInv, HeapBacked, PanicJustified,
           BlocksDisjoint

(* heap_init panics after an answer that proves there is no room.          *)
LEMMA HeapInitPanicsHInv == HInv /\ HeapInitPanics => HInv'
<1> SUFFICES ASSUME HInv, HeapInitPanics PROVE HInv'
  OBVIOUS
<1>1. IInv'
  BY PmmInvariant DEF BootNext
<1>2. /\ stage = "heap_alloc" /\ stage' = "panic" /\ pc = "idle"
      /\ ret.addr = 0 \/ ret.addr # heap_base
      /\ UNCHANGED <<mem_map, used, total_frames, pc, call, ret, owned,
                     heap_base, heap_cur, heap_limit, blocks, image>>
  BY DEF HeapInitPanics, vars, heapVars
<1>3. Answered /\ heap_base = FrameUp(KernelEnd) * PAGE_SIZE
  BY <1>2 DEF HInv, StageInv
<1>4. ~(HeapFrames \subseteq FreeFrames \cup owned)
  BY <1>2, <1>3 DEF Answered
<1>5. FreeFrames \cup owned = {f \in Frames : PageInRam(f) /\ AboveKernel(f)}
  BY <1>2 DEF HInv, IInv, FramesConserved, Ready
<1>6. \E f \in HeapFrames : f \notin Frames \/ ~PageInRam(f)
  BY <1>4, <1>5, HeapFramesAbove
<1>7. PanicJustified'
  BY <1>2, <1>6 DEF PanicJustified, PageInRam
<1>8. StageInv'
  BY <1>2 DEF HInv, StageInv, Ready
<1> QED BY <1>1, <1>2, <1>7, <1>8 DEF HInv, HeapTypeOK, BlockInv, HeapBacked, BlocksDisjoint

(* heap_init returns with exactly the heap's frames lent.                  *)
LEMMA HeapInitDoneHInv == HInv /\ HeapInitDone => HInv'
<1> SUFFICES ASSUME HInv, HeapInitDone PROVE HInv'
  OBVIOUS
<1>1. IInv'
  BY PmmInvariant DEF BootNext
<1>2. /\ stage = "heap_alloc" /\ stage' = "ready" /\ pc = "idle"
      /\ ret.addr # 0 /\ ret.addr = heap_base
      /\ heap_cur' = heap_base /\ heap_limit' = heap_base + HEAP_PAGES * PAGE_SIZE
      /\ UNCHANGED <<mem_map, used, total_frames, pc, call, ret, owned,
                     heap_base, blocks, image>>
  BY DEF HeapInitDone, vars
<1>3. Answered /\ heap_base = FrameUp(KernelEnd) * PAGE_SIZE
  BY <1>2 DEF HInv, StageInv
<1>4. PICK s \in Frames : ret.addr = s * PAGE_SIZE /\ owned = Run(s, HEAP_PAGES)
  BY <1>2, <1>3 DEF Answered
<1>5. s = FrameUp(KernelEnd)
  <2>1. s \in Nat /\ FrameUp(KernelEnd) \in Nat /\ PAGE_SIZE \in Nat \ {0}
    BY HeapAddresses, PmmAssumption DEF Frames
  <2>2. s * PAGE_SIZE = FrameUp(KernelEnd) * PAGE_SIZE
    BY <1>2, <1>3, <1>4
  <2>3. (s * PAGE_SIZE) \div PAGE_SIZE = s
        /\ (FrameUp(KernelEnd) * PAGE_SIZE) \div PAGE_SIZE = FrameUp(KernelEnd)
    BY <2>1, TimesDiv
  <2> QED BY <2>2, <2>3
<1>6. owned = HeapFrames
  BY <1>4, <1>5 DEF HeapFrames
<1>7. \A f \in HeapFrames : PageInRam(f) /\ AboveKernel(f)
  BY <1>2, <1>6 DEF HInv, IInv, FramesConserved, Ready
<1>8. HeapBacked'
  BY <1>2, <1>3, <1>6, <1>7 DEF HeapBacked, PageInRam, HeapFrames, Run, FrameUp, AboveKernel
<1>9. /\ heap_base \in Nat /\ heap_limit' \in 0 .. (WORD - 1) /\ heap_base <= heap_limit'
      /\ blocks = <<>>
  <2>1. blocks = <<>>
    BY <1>2 DEF HInv, BlockInv
  <2>2. heap_base \in Nat /\ heap_limit' \in Nat /\ heap_limit' <= WORD - 1
        /\ heap_base <= heap_limit'
    BY <1>2, <1>3, HeapAddresses
  <2> QED BY <1>2, <2>1, <2>2, HeapAddresses
<1>10. HeapTypeOK'
  BY <1>2, <1>9 DEF HInv, HeapTypeOK
<1>11. StageInv'
  BY <1>2 DEF HInv, StageInv, Ready
<1>12. BlockInv' /\ BlocksDisjoint'
  BY <1>2, <1>9 DEF BlockInv, BlocksDisjoint
<1> QED BY <1>1, <1>2, <1>8, <1>10, <1>11, <1>12 DEF HInv, PanicJustified

(* A granted block starts at the old top and ends at the new one: the      *)
(* addition cannot wrap below half the address space.                      *)
LEMMA SbrkHInv ==
  ASSUME HInv, NEW incr \in Increments, SbrkGrants(incr)
  PROVE  HInv'
<1>1. IInv'
  BY PmmInvariant DEF BootNext
<1>2. /\ stage = "ready" /\ incr > 0 /\ heap_cur' = NewTop(incr) /\ NewTop(incr) <= heap_limit
      /\ blocks' = Append(blocks, Block(heap_cur, incr))
      /\ UNCHANGED <<mem_map, used, total_frames, pc, call, ret, owned,
                     stage, heap_base, heap_limit, image>>
  BY DEF SbrkGrants, vars
<1>3. /\ heap_cur \in Nat /\ heap_base \in Nat /\ heap_limit \in Nat
      /\ heap_cur <= heap_limit /\ heap_base <= heap_cur
      /\ heap_limit = heap_base + HEAP_PAGES * PAGE_SIZE
      /\ heap_base = FrameUp(KernelEnd) * PAGE_SIZE
      /\ heap_limit \in 0 .. (WORD - 1)
      /\ blocks \in Seq(Extent)
  BY <1>2 DEF HInv, HeapTypeOK, BlockInv, StageInv
<1>4. incr \in Nat /\ WORD \in Nat /\ incr <= WORD \div 2 - 1 /\ heap_limit <= WORD \div 2
  BY <1>2, <1>3, HeapAssumption, HeapAddresses
<1>5. NewTop(incr) = heap_cur + incr
  <2>1. heap_cur + incr \in Nat /\ heap_cur + incr < WORD
    BY <1>3, <1>4
  <2> QED BY <1>4, <2>1 DEF NewTop
<1>6. /\ DOMAIN blocks' = 1 .. (Len(blocks) + 1)
      /\ DOMAIN blocks = 1 .. Len(blocks)
      /\ Len(blocks) \in Nat
      /\ \A i \in DOMAIN blocks : blocks'[i] = blocks[i]
      /\ blocks'[Len(blocks) + 1] = Block(heap_cur, incr)
  BY <1>2, <1>3
<1>7. /\ Block(heap_cur, incr).start = heap_cur
      /\ Block(heap_cur, incr).end = heap_cur + incr
      /\ Block(heap_cur, incr) \in Extent
  BY <1>3, <1>4 DEF Block, Extent
<1>8. ASSUME NEW i \in DOMAIN blocks
      PROVE  /\ blocks[i].start \in Nat /\ blocks[i].end \in Nat
             /\ blocks[i].end <= heap_cur /\ heap_base <= blocks[i].start
             /\ blocks[i].end <= heap_limit
  <2>1. blocks[i] \in Extent
    BY <1>3
  <2>2. blocks[i].end <= heap_cur
    BY DEF HInv, BlockInv
  <2>3. heap_base <= blocks[i].start /\ blocks[i].end <= heap_limit
    BY DEF HInv, BlocksDisjoint
  <2> QED BY <2>1, <2>2, <2>3 DEF Extent
<1>9. HeapTypeOK'
  BY <1>2, <1>3, <1>4, <1>5, <1>7 DEF HInv, HeapTypeOK
<1>10. BlockInv'
  <2>1. \A i \in DOMAIN blocks' : blocks'[i].end <= heap_cur'
    BY <1>2, <1>3, <1>4, <1>5, <1>6, <1>7, <1>8
  <2> QED BY <1>2, <1>3, <1>4, <1>5, <2>1 DEF BlockInv
<1>11. BlocksDisjoint'
  <2>1. ASSUME NEW i \in DOMAIN blocks'
        PROVE  heap_base <= blocks'[i].start /\ blocks'[i].end <= heap_limit
    BY <1>2, <1>3, <1>4, <1>5, <1>6, <1>7, <1>8
  <2>2. ASSUME NEW i \in DOMAIN blocks', NEW j \in DOMAIN blocks', i < j
        PROVE  blocks'[i].end <= blocks'[j].start
    <3>1. CASE j \in DOMAIN blocks
      BY <1>6, <2>2, <3>1 DEF HInv, BlocksDisjoint
    <3>2. CASE j = Len(blocks) + 1
      BY <1>6, <1>7, <1>8, <2>2, <3>2
    <3> QED BY <1>6, <3>1, <3>2
  <2> QED BY <1>2, <2>1, <2>2 DEF BlocksDisjoint
<1>12. StageInv' /\ HeapBacked' /\ PanicJustified'
  BY <1>2 DEF HInv, StageInv, HeapBacked, PanicJustified, Ready, PageInRam,
     HeapFrames, Run, FrameUp, AboveKernel
<1> QED BY <1>1, <1>9, <1>10, <1>11, <1>12 DEF HInv

(* The invariant depends on nothing else.                                  *)
LEMMA StutterHInv == HInv /\ UNCHANGED bootVars => HInv'
<1> SUFFICES ASSUME HInv, UNCHANGED bootVars PROVE HInv'
  OBVIOUS
<1>1. IInv'
  BY PmmInvariant
<1> QED BY <1>1 DEF bootVars, vars, heapVars, HInv, HeapTypeOK, StageInv, BlockInv, HeapBacked,
           PanicJustified, BlocksDisjoint, Ready, Asked, Answered, FreeFrames, PageInRam,
           HeapFrames, Run, FrameUp, AboveKernel

----------------------------------------------------------------------------
(* The theorems.                                                           *)

(* The invariant holds in every state of the boot and of the calls after.  *)
LEMMA HeapInvariance == BootSpec => []HInv
<1>1. HInv /\ [BootNext]_bootVars => HInv'
  BY BootMapHInv, BootMemHInv, HeapInitCallHInv, HeapInitScanHInv, HeapInitPanicsHInv,
     HeapInitDoneHInv, SbrkHInv, StutterHInv DEF BootNext, SbrkOther
<1> QED BY <1>1, InitHInv, PTL DEF BootSpec

(* The words of heap.c keep their ranges; in particular the top never      *)
(* passes the limit.                                                       *)
THEOREM HeapTypeCorrect == BootSpec => []HeapTypeOK
<1>1. HInv => HeapTypeOK
  BY DEF HInv
<1> QED BY <1>1, HeapInvariance, PTL

(* For every memory map, kernel size and heap size: once heap_init has     *)
(* returned, the heap is made of frames of RAM above the kernel that the   *)
(* allocator will not lend to anyone else.                                 *)
THEOREM HeapIsBacked == BootSpec => []HeapBacked
<1>1. HInv => HeapBacked
  BY DEF HInv
<1> QED BY <1>1, HeapInvariance, PTL

(* heap_init gives up only when the frames after the kernel are not all    *)
(* RAM.                                                                    *)
THEOREM PanicOnlyWithoutRoom == BootSpec => []PanicJustified
<1>1. HInv => PanicJustified
  BY DEF HInv
<1> QED BY <1>1, HeapInvariance, PTL

(* The blocks heap_sbrk grants never overlap and never leave the heap.     *)
THEOREM BlocksNeverOverlap == BootSpec => []BlocksDisjoint
<1>1. HInv => BlocksDisjoint
  BY DEF HInv
<1> QED BY <1>1, HeapInvariance, PTL
============================================================================
