----------------------------- MODULE PmmProofs -----------------------------
(***************************************************************************)
(* Proofs about Pmm, for every page size, bitmap size, kernel end, set of  *)
(* memory maps and set of requests: type correctness, conservation of      *)
(* frames, exclusive lending, and that the bitmap scan implements          *)
(* FrameAllocator.                                                         *)
(***************************************************************************)
EXTENDS Pmm, TLAPS

----------------------------------------------------------------------------
(* The arithmetic of page rounding.                                        *)

(* The page of frame f starts at or after address a exactly when f is at   *)
(* least a rounded up to a page, as pmm_init rounds the start of a region  *)
(* and the end of the kernel.                                              *)
LEMMA RoundUp ==
  ASSUME NEW p \in Nat \ {0}, NEW a \in Nat, NEW f \in Nat
  PROVE  (a + p - 1) \div p <= f <=> a <= f * p
<1> DEFINE q == (a + p - 1) \div p
           r == (a + p - 1) % p
<1>1. q \in Int /\ r \in 0..(p-1) /\ a + p - 1 = p * q + r
  OBVIOUS
<1> HIDE DEF q, r
<1>2. ASSUME q <= f PROVE a <= f * p
  <2>1. p * q <= p * f
    BY <1>1, <1>2, SMT
  <2> QED BY <2>1, <1>1, SMT
<1>3. ASSUME q > f PROVE a > f * p
  <2>1. p * q >= p * (f + 1)
    BY <1>1, <1>3, SMT
  <2>2. p * (f+1) = p * f + p
    BY SMT
  <2> QED BY <2>1, <2>2, <1>1, SMT
<1> QED BY <1>1, <1>2, <1>3 DEF q

(* The page of frame f ends at or before address a exactly when f is below *)
(* a rounded down, as pmm_init rounds the end of a region.                 *)
LEMMA RoundDown ==
  ASSUME NEW p \in Nat \ {0}, NEW a \in Nat, NEW f \in Nat
  PROVE  f < a \div p <=> (f + 1) * p <= a
<1> DEFINE q == a \div p
           r == a % p
<1>1. q \in Int /\ r \in 0..(p-1) /\ a = p * q + r
  OBVIOUS
<1> HIDE DEF q, r
<1>2. ASSUME f < q PROVE (f + 1) * p <= a
  <2>1. p * (f + 1) <= p * q
    BY <1>1, <1>2, SMT
  <2> QED BY <2>1, <1>1, SMT
<1>3. ASSUME q <= f PROVE (f + 1) * p > a
  <2>1. p * q <= p * f
    BY <1>1, <1>3, SMT
  <2>2. p * (f+1) = p * f + p
    BY SMT
  <2> QED BY <2>1, <2>2, <1>1, SMT
<1> QED BY <1>1, <1>2, <1>3 DEF q

(* An address returned by pmm_alloc_pages names the frame it came from.    *)
LEMMA TimesDiv ==
  ASSUME NEW p \in Nat \ {0}, NEW f \in Nat
  PROVE  f * p \in Nat /\ (f * p) \div p = f
<1>1. f * p \in Nat
  OBVIOUS
<1>2. (f*p) \div p \in Nat
  BY <1>1
<1>3. (f - 1 >= 0 => f-1 < (f*p) \div p) /\ ~(f < (f * p) \div p)
  BY <1>1, RoundDown
<1> QED BY <1>1, <1>2, <1>3

----------------------------------------------------------------------------
(* The inductive invariant.                                                *)

(***************************************************************************)
(* What the scan of pmm_alloc_pages has established when it is about to    *)
(* look at frame f: the last `run' frames are free, and no run of n free   *)
(* frames starts before them.                                              *)
(***************************************************************************)
ScanInv ==
  pc = "scan" =>
    /\ call.n \in Requests
    /\ call.f <= total_frames
    /\ call.run <= call.f
    /\ call.run > 0 => call.start + call.run = call.f
    /\ Run(call.f - call.run, call.run) \cap used = {}
    /\ call.n > 0 => call.run < call.n
    /\ call.n > 0 =>
         \A t \in Frames : t < call.f - call.run => Run(t, call.n) \cap used # {}

(***************************************************************************)
(* Frame 0 is below the end of the kernel, so it is never free and never   *)
(* lent: the answer 0 of pmm_alloc_pages is not an address a client holds. *)
(***************************************************************************)
FrameZeroKept == Ready => 0 \in used /\ 0 \notin owned

(* Nothing is lent before pmm_init, and what is lent afterwards lies where *)
(* the scan will find it again once it is freed.                           *)
LentInReach == IF Ready THEN \A f \in owned : f < total_frames ELSE owned = {}

IInv == /\ TypeOK
        /\ FramesConserved
        /\ LentOnce
        /\ NothingStranded
        /\ FrameZeroKept
        /\ LentInReach
        /\ ScanInv

(* mem_map' is a memory map: what SetMap keeps of a reported map.          *)
LEMMA KeptMap ==
  ASSUME NEW m \in Maps
  PROVE  SubSeq(m, 1, AtMost(Len(m), MAP_MAX)) \in Seq(Region)
BY PmmAssumption DEF AtMost

(* The frames pmm_init frees are those whose pages lie inside one usable   *)
(* region.                                                                 *)
LEMMA UsableFramesInRam ==
  ASSUME mem_map \in Seq(Region), NEW f \in Frames
  PROVE  f \in UsableFrames(mem_map) <=> PageInRam(f)
<1>1. f \in Nat /\ PAGE_SIZE \in Nat \ {0}
  BY PmmAssumption DEF Frames
<1>2. ASSUME NEW i \in DOMAIN mem_map
      PROVE  /\ mem_map[i].base \in Nat
             /\ End(mem_map[i]) \in Nat
             /\ FrameUp(mem_map[i].base) <= f <=> mem_map[i].base <= f * PAGE_SIZE
             /\ f < FrameDown(End(mem_map[i])) <=> (f + 1) * PAGE_SIZE <= End(mem_map[i])
  <2>1. mem_map[i] \in Region
    OBVIOUS
  <2>2. mem_map[i].base \in Nat /\ End(mem_map[i]) \in Nat
    BY <2>1 DEF Region, End
  <2> QED BY <1>1, <2>2, RoundUp, RoundDown DEF FrameUp, FrameDown
<1> QED BY <1>2 DEF UsableFrames, PageInRam

(* The frames pmm_init takes back are those that start below the kernel's  *)
(* end.                                                                    *)
LEMMA KernelFramesBelow ==
  ASSUME NEW f \in Frames
  PROVE  f \notin KernelFrames <=> AboveKernel(f)
<1>1. f \in Nat /\ PAGE_SIZE \in Nat \ {0} /\ KernelEnd \in Nat
  BY PmmAssumption DEF Frames
<1>2. FrameUp(KernelEnd) <= f <=> KernelEnd <= f * PAGE_SIZE
  BY <1>1, RoundUp DEF FrameUp
<1>3. FrameUp(KernelEnd) \in Int
  BY <1>1 DEF FrameUp
<1> QED BY <1>1, <1>2, <1>3 DEF KernelFrames, AboveKernel

----------------------------------------------------------------------------
(* The invariant holds initially and every step preserves it.              *)

(* Before pmm_init there is neither a frame nor a call.                    *)
LEMMA InitIInv == Init => IInv
BY PmmAssumption DEF Init, IInv, TypeOK, NoCall, Region, FramesConserved, LentOnce,
   NothingStranded, FrameZeroKept, LentInReach, ScanInv, Ready

(* What pmm_init establishes.                                              *)
LEMMA PmmInitIInv ==
  ASSUME IInv, PmmInit
  PROVE  IInv'
<1> USE DEF IInv, TypeOK
<1>0. PAGE_SIZE \in Nat \ {0} /\ MAX_FRAMES \in Nat \ {0} /\ KernelEnd \in Nat \ {0}
  BY PmmAssumption
<1>1. PICK top \in {0} \cup {End(mem_map[i]) : i \in DOMAIN mem_map} :
             IsTop(mem_map, top) /\ total_frames' = AtMost(FrameDown(top), MAX_FRAMES)
  BY DEF PmmInit
<1>2. ASSUME NEW i \in DOMAIN mem_map PROVE End(mem_map[i]) \in Nat
  <2>1. mem_map[i] \in Region
    OBVIOUS
  <2>2. mem_map[i].base \in Nat /\ mem_map[i].length \in Nat
    BY <2>1 DEF Region
  <2> QED BY <2>2 DEF End
<1>3. top \in Nat
  BY <1>1, <1>2
<1>4. FrameDown(top) \in Nat
  BY <1>0, <1>3 DEF FrameDown
<1>5. total_frames' \in 0 .. MAX_FRAMES
  BY <1>0, <1>1, <1>4 DEF AtMost
<1>6. TypeOK'
  BY <1>5 DEF PmmInit, UsableFrames, KernelFrames
<1>7. FreeFrames' = {f \in Frames : PageInRam(f) /\ AboveKernel(f)}
  BY UsableFramesInRam, KernelFramesBelow DEF PmmInit, FreeFrames, UsableFrames, KernelFrames
<1>8. owned' = {}
  BY DEF PmmInit, LentInReach, Ready
<1>9. NothingStranded'
  <2> SUFFICES ASSUME NEW f \in FreeFrames' PROVE f < total_frames'
    BY DEF NothingStranded
  <2>1. f \in Frames /\ f \in Nat /\ PageInRam(f)
    BY <1>7 DEF Frames
  <2>2. PICK i \in DOMAIN mem_map : IsUsable(mem_map[i]) /\ (f + 1) * PAGE_SIZE <= End(mem_map[i])
    BY <2>1 DEF PageInRam
  <2>3. End(mem_map[i]) <= top
    BY <1>1, <2>2 DEF IsTop
  <2>4. (f + 1) * PAGE_SIZE <= top
    BY <1>0, <1>2, <1>3, <2>1, <2>2, <2>3
  <2>5. f < FrameDown(top)
    BY <1>0, <1>3, <2>1, <2>4, RoundDown DEF FrameDown
  <2> QED BY <1>0, <1>1, <1>4, <2>1, <2>5 DEF AtMost, Frames
<1>10. 0 \in Frames /\ ~AboveKernel(0)
  BY <1>0 DEF Frames, AboveKernel
<1>11. FrameZeroKept'
  BY <1>7, <1>8, <1>10 DEF FrameZeroKept, FreeFrames
<1>12. mem_map' = mem_map /\ pc' = "idle"
  BY DEF PmmInit
<1>13. FramesConserved' /\ LentOnce' /\ ScanInv' /\ LentInReach'
  BY <1>7, <1>8, <1>12 DEF FramesConserved, LentOnce, ScanInv, LentInReach, PageInRam, AboveKernel
<1> QED BY <1>6, <1>9, <1>11, <1>13

(* SetMap and AllocCall leave the frames alone.                            *)
LEMMA CallIInv ==
  ASSUME IInv, \/ \E m \in Maps : SetMap(m)
               \/ \E n \in Requests : AllocCall(n)
  PROVE  IInv'
<1> USE DEF IInv, TypeOK
<1>1. ASSUME NEW m \in Maps, SetMap(m) PROVE IInv'
  <2>1. ~Ready /\ ~Ready' /\ owned' = owned /\ pc' = "mapped"
    BY <1>1 DEF SetMap, Ready
  <2>2. TypeOK'
    BY <1>1, KeptMap DEF SetMap
  <2> QED BY <2>1, <2>2 DEF FramesConserved, LentOnce, NothingStranded,
                            FrameZeroKept, LentInReach, ScanInv
<1>2. ASSUME NEW n \in Requests, AllocCall(n) PROVE IInv'
  <2>1. Ready /\ Ready' /\ UNCHANGED <<mem_map, used, total_frames, owned, ret>>
    BY <1>2 DEF AllocCall, Ready
  <2>2. TypeOK'
    BY <1>2, PmmAssumption DEF AllocCall
  <2>3. ScanInv'
    BY <1>2, <2>1, PmmAssumption DEF AllocCall, ScanInv, Run, Frames
  <2> QED BY <2>1, <2>2, <2>3 DEF FramesConserved, LentOnce, NothingStranded, FreeFrames,
             FrameZeroKept, LentInReach, PageInRam, AboveKernel
<1> QED BY <1>1, <1>2

(* A frame in use ends the current run; the scan forgets no free run,      *)
(* because every run it gives up contains that frame.                      *)
LEMMA ScanUsedIInv ==
  ASSUME IInv, ScanUsed
  PROVE  IInv'
<1> USE DEF IInv, TypeOK
<1>1. Ready /\ Ready' /\ pc = "scan" /\ pc' = "scan"
      /\ UNCHANGED <<mem_map, used, total_frames, owned, ret>>
  BY DEF ScanUsed, Scanning, Ready
<1>2. call' = Loop(call.f + 1, 0, call.start) /\ call.f < total_frames /\ call.f \in used
  BY DEF ScanUsed, Scanning
<1>3. TypeOK'
  BY <1>1, <1>2 DEF Loop
<1>4. ASSUME call.n > 0, NEW t \in Frames, t < call.f + 1
      PROVE  Run(t, call.n) \cap used # {}
  <2>1. CASE t < call.f - call.run
    BY <2>1, <1>1, <1>4 DEF ScanInv
  <2>2. CASE t >= call.f - call.run
    <3>1. call.f \in Run(t, call.n)
      BY <2>2, <1>1, <1>4 DEF ScanInv, Run, Frames
    <3> QED BY <3>1, <1>2
  <2> QED BY <2>1, <2>2 DEF Frames
<1>5. ScanInv'
  <2>1. call'.n = call.n /\ call'.f = call.f + 1 /\ call'.run = 0
    BY <1>2 DEF Loop
  <2>2. Run(call'.f - call'.run, call'.run) = {}
    BY <2>1 DEF Run
  <2> QED BY <1>1, <1>2, <1>4, <2>1, <2>2 DEF ScanInv
<1> QED BY <1>1, <1>3, <1>5 DEF FramesConserved, LentOnce, NothingStranded, FreeFrames,
           FrameZeroKept, LentInReach, PageInRam, AboveKernel

(* A free frame extends the current run, or starts one.                    *)
LEMMA ScanFreeIInv ==
  ASSUME IInv, ScanFree
  PROVE  IInv'
<1> USE DEF IInv, TypeOK
<1>1. Ready /\ Ready' /\ pc = "scan" /\ pc' = "scan"
      /\ UNCHANGED <<mem_map, used, total_frames, owned, ret>>
  BY DEF ScanFree, Scanning, Ready
<1>2. /\ call' = Loop(call.f + 1, call.run + 1, StartHere)
      /\ call.f < total_frames /\ call.f \notin used /\ call.run + 1 # call.n
  BY DEF ScanFree, Scanning
<1>3. TypeOK'
  BY <1>1, <1>2 DEF Loop, StartHere
<1>4. /\ call'.n = call.n /\ call'.f = call.f + 1 /\ call'.run = call.run + 1
      /\ call'.start = StartHere
  BY <1>2 DEF Loop
<1>5. StartHere + call.run = call.f
  BY <1>1 DEF StartHere, ScanInv
<1>6. Run(call.f - call.run, call.run + 1) \cap used = {}
  BY <1>1, <1>2 DEF ScanInv, Run
<1>7. call'.f - call'.run = call.f - call.run
  BY <1>4
<1>8. /\ call'.f <= total_frames /\ call'.run <= call'.f
      /\ call'.start + call'.run = call'.f
      /\ call'.n > 0 => call'.run < call'.n
      /\ call'.n \in Requests
  <2>1. /\ call.n \in Nat /\ call.f \in Nat /\ call.run \in Nat /\ total_frames \in Nat
        /\ StartHere \in Nat
    BY DEF StartHere
  <2>2. call.run <= call.f /\ (call.n > 0 => call.run < call.n) /\ call.n \in Requests
    BY <1>1 DEF ScanInv
  <2>3. call.f + 1 <= total_frames /\ call.run + 1 <= call.f + 1
    BY <1>2, <2>1, <2>2
  <2>4. StartHere + (call.run + 1) = call.f + 1
    BY <1>5, <2>1
  <2>5. call.n > 0 => call.run + 1 < call.n
    BY <1>2, <2>1, <2>2
  <2> QED BY <1>4, <2>2, <2>3, <2>4, <2>5
<1>9. Run(call'.f - call'.run, call'.run) \cap used = {}
  BY <1>4, <1>6, <1>7
<1>10. ASSUME call'.n > 0, NEW t \in Frames, t < call'.f - call'.run
       PROVE  Run(t, call'.n) \cap used # {}
  BY <1>1, <1>4, <1>7, <1>10 DEF ScanInv
<1>11. ScanInv'
  BY <1>1, <1>8, <1>9, <1>10 DEF ScanInv
<1> QED BY <1>1, <1>3, <1>11 DEF FramesConserved, LentOnce, NothingStranded, FreeFrames,
           FrameZeroKept, LentInReach, PageInRam, AboveKernel

(* The run found is free, within the bitmap and does not hold frame 0; no  *)
(* run of n free frames starts before it.                                  *)
LEMMA FoundRun ==
  ASSUME IInv, ScanFound
  PROVE  /\ StartHere \in Frames /\ StartHere # 0
         /\ StartHere = call.f - call.run
         /\ Run(StartHere, call.n) \subseteq FreeFrames
         /\ \A t \in Frames : t < StartHere => ~(Run(t, call.n) \subseteq FreeFrames)
         /\ StartHere * PAGE_SIZE \in Nat /\ StartHere * PAGE_SIZE # 0
         /\ (StartHere * PAGE_SIZE) \div PAGE_SIZE = StartHere
         /\ owned' = owned \cup Run(StartHere, call.n)
<1> USE DEF IInv, TypeOK
<1>1. /\ pc = "scan" /\ call.f < total_frames /\ call.f \notin used
      /\ call.n = call.run + 1
  BY DEF ScanFound, Scanning
<1>2. StartHere = call.f - call.run /\ StartHere \in Nat /\ StartHere <= call.f
  BY <1>1 DEF StartHere, ScanInv
<1>3. Run(StartHere, call.n) \cap used = {} /\ StartHere \in Run(StartHere, call.n)
  BY <1>1, <1>2 DEF ScanInv, Run
<1>4. Run(StartHere, call.n) \subseteq Frames
  <2>1. StartHere + call.n - 1 = call.f /\ call.f <= MAX_FRAMES - 1 /\ StartHere \in Nat
    BY <1>1, <1>2, PmmAssumption
  <2>2. StartHere + call.n - 1 <= MAX_FRAMES - 1 /\ call.n \in Nat /\ MAX_FRAMES \in Nat
    BY <2>1, PmmAssumption
  <2> QED BY <2>1, <2>2, SMT DEF Run, Frames
<1>5. 0 \in used
  BY <1>1 DEF FrameZeroKept, Ready
<1>6. StartHere # 0 /\ StartHere \in Frames
  BY <1>3, <1>4, <1>5
<1>7. \A t \in Frames : t < StartHere => ~(Run(t, call.n) \subseteq FreeFrames)
  BY <1>1, <1>2 DEF ScanInv, FreeFrames
<1>8. PAGE_SIZE \in Nat \ {0}
  BY PmmAssumption
<1>9. StartHere * PAGE_SIZE \in Nat /\ (StartHere * PAGE_SIZE) \div PAGE_SIZE = StartHere
  BY <1>2, <1>8, TimesDiv
<1>10. StartHere * PAGE_SIZE # 0
  BY <1>2, <1>6, <1>8, SMT
<1>11. owned' = owned \cup Run(StartHere, call.n)
  BY <1>10 DEF ScanFound, Return
<1> QED BY <1>2, <1>3, <1>4, <1>6, <1>7, <1>9, <1>10, <1>11 DEF FreeFrames

(* Lending the run moves its frames from the free ones to the lent ones.   *)
LEMMA ScanFoundIInv ==
  ASSUME IInv, ScanFound
  PROVE  IInv'
<1> USE DEF IInv, TypeOK
<1>1. /\ Ready /\ Ready' /\ pc' = "idle"
      /\ UNCHANGED <<mem_map, total_frames>>
      /\ call' = NoCall
      /\ ret' = [n |-> call.n, addr |-> StartHere * PAGE_SIZE]
      /\ used' = used \cup Run(StartHere, call.n)
  BY DEF ScanFound, Scanning, Ready, Return
<1>2. TypeOK'
  BY <1>1, FoundRun DEF NoCall, FreeFrames
<1>3. FreeFrames' = FreeFrames \ Run(StartHere, call.n)
  BY <1>1 DEF FreeFrames
<1>4. FrameZeroKept' /\ LentOnce'
  BY <1>1, <1>3, FoundRun DEF FrameZeroKept, LentOnce, FreeFrames
<1>5. FreeFrames' \cup owned' = FreeFrames \cup owned
  BY <1>3, FoundRun
<1>6. NothingStranded' /\ LentInReach'
  BY <1>1, <1>3, FoundRun DEF NothingStranded, LentInReach
<1> QED BY <1>1, <1>2, <1>4, <1>5, <1>6 DEF FramesConserved,
           ScanInv, PageInRam, AboveKernel

(* A refusal changes no frame.                                             *)
LEMMA ScanEndIInv ==
  ASSUME IInv, ScanEnd
  PROVE  IInv'
<1> USE DEF IInv, TypeOK
<1>1. /\ Ready /\ Ready' /\ pc' = "idle" /\ call' = NoCall
      /\ ret' = [n |-> call.n, addr |-> 0]
      /\ UNCHANGED <<mem_map, used, total_frames, owned>>
  BY DEF ScanEnd, Ready, Return
<1>2. TypeOK'
  BY <1>1 DEF NoCall
<1> QED BY <1>1, <1>2 DEF FramesConserved, LentOnce, NothingStranded, FreeFrames,
           FrameZeroKept, LentInReach, ScanInv, PageInRam, AboveKernel

(* A client gives back frames it holds: they become free again.            *)
LEMMA FreePagesIInv ==
  ASSUME IInv, NEW s \in Frames, NEW n \in Requests, FreePages(s, n)
  PROVE  IInv'
<1> USE DEF IInv, TypeOK
<1>1. /\ Ready /\ Ready' /\ pc' = "idle" /\ Run(s, n) \subseteq owned
      /\ used' = used \ Run(s, n) /\ owned' = owned \ Run(s, n)
      /\ UNCHANGED <<mem_map, total_frames, call, ret>>
  BY DEF FreePages, Ready
<1>2. TypeOK'
  BY <1>1
<1>3. FreeFrames' = FreeFrames \cup Run(s, n)
  BY <1>1 DEF FreeFrames
<1>4. FreeFrames' \cup owned' = FreeFrames \cup owned
  BY <1>1, <1>3
<1>5. LentOnce' /\ FrameZeroKept'
  BY <1>1, <1>3 DEF LentOnce, FrameZeroKept
<1>6. NothingStranded' /\ LentInReach'
  BY <1>1, <1>3 DEF NothingStranded, LentInReach
<1> QED BY <1>1, <1>2, <1>4, <1>5, <1>6 DEF FramesConserved, ScanInv,
           PageInRam, AboveKernel

(* One step of any routine, by the lemmas above.                           *)
LEMMA NextIInv == IInv /\ [Next]_vars => IInv'
<1> SUFFICES ASSUME IInv, [Next]_vars PROVE IInv'
  OBVIOUS
<1>1. CASE UNCHANGED vars
  BY <1>1 DEF vars, IInv, TypeOK, FramesConserved, LentOnce, NothingStranded, FreeFrames,
     FrameZeroKept, LentInReach, ScanInv, PageInRam, AboveKernel, Ready
<1> QED BY <1>1, CallIInv, PmmInitIInv, ScanUsedIInv, ScanFreeIInv, ScanFoundIInv,
           ScanEndIInv, FreePagesIInv DEF Next, Scan

----------------------------------------------------------------------------
(* The theorems.                                                           *)

(* The invariant holds in every reachable state.                           *)
LEMMA Invariance == Spec => []IInv
BY InitIInv, NextIInv, PTL DEF Spec

(* The state of pmm.c keeps its shape: the bitmap describes only frames it *)
(* has room for, and no scan leaves it.                                    *)
THEOREM TypeCorrect == Spec => []TypeOK
<1>1. IInv => TypeOK
  BY DEF IInv
<1> QED BY <1>1, Invariance, PTL

(* For every memory map, page size and kernel end: the free and the lent   *)
(* frames are always together the whole pages of usable RAM above the      *)
(* kernel.                                                                 *)
THEOREM Conservation == Spec => []FramesConserved
<1>1. IInv => FramesConserved
  BY DEF IInv
<1> QED BY <1>1, Invariance, PTL

(* No frame is ever both lent and free, so none is lent twice.             *)
THEOREM ExclusiveLending == Spec => []LentOnce
<1>1. IInv => LentOnce
  BY DEF IInv
<1> QED BY <1>1, Invariance, PTL

(* Every free frame stays within reach of the scan.                        *)
THEOREM Reachability == Spec => []NothingStranded
<1>1. IInv => NothingStranded
  BY DEF IInv
<1> QED BY <1>1, Invariance, PTL

----------------------------------------------------------------------------
(* Refinement.                                                             *)

(* Before pmm_init the allocator is not ready and has answered nothing.    *)
LEMMA InitRefines == Init => FA!Init
<1>1. 0 \div PAGE_SIZE = 0
  BY TimesDiv, PmmAssumption
<1> QED BY <1>1 DEF Init, FA!Init, FA!Refused, Ready

(* pmm_init makes the free frames available, never frame 0.                *)
LEMMA ProvideRefines ==
  ASSUME IInv, IInv', PmmInit
  PROVE  FA!Provide
<1>1. ~Ready /\ Ready' /\ UNCHANGED <<owned, ret>>
  BY DEF PmmInit, Ready
<1>2. FreeFrames' \in SUBSET (Frames \ {0})
  BY <1>1 DEF IInv, FrameZeroKept, FreeFrames
<1> QED BY <1>1, <1>2 DEF FA!Provide, FA!Refused

(* The run the scan found is the lowest fit.                               *)
LEMMA GrantRefines ==
  ASSUME IInv, ScanFound
  PROVE  call.n \in Requests /\ StartHere \in Frames /\ FA!Grant(StartHere, call.n)
<1>1. /\ Ready /\ Ready'
      /\ ret' = [n |-> call.n, addr |-> StartHere * PAGE_SIZE]
      /\ used' = used \cup Run(StartHere, call.n)
      /\ call.n \in Requests /\ call.n > 0
  BY DEF ScanFound, Scanning, Ready, Return, IInv, TypeOK, ScanInv
<1>2. FreeFrames' = FreeFrames \ Run(StartHere, call.n)
  BY <1>1 DEF FreeFrames
<1>3. ret'.n = call.n /\ ret'.addr \div PAGE_SIZE = StartHere
  BY <1>1, FoundRun
<1>4. FA!Run(StartHere, call.n) = Run(StartHere, call.n)
  BY DEF FA!Run, Run
<1>5. FA!LowestFit(StartHere, call.n)
  BY <1>1, FoundRun DEF FA!LowestFit, FA!Fits, FA!Run, Run
<1> QED BY <1>1, <1>2, <1>3, <1>4, <1>5, FoundRun DEF FA!Grant

(* A scan that reaches the end has seen that no run fits.                  *)
LEMMA RefuseRefines ==
  ASSUME IInv, ScanEnd
  PROVE  call.n \in Requests /\ FA!Refuse(call.n)
<1> USE DEF IInv, TypeOK
<1>1. /\ Ready /\ Ready' /\ pc = "scan" /\ call.f >= total_frames
      /\ ret' = [n |-> call.n, addr |-> 0]
      /\ UNCHANGED <<used, owned>>
      /\ call.n \in Requests /\ call.n \in Nat
  BY DEF ScanEnd, Ready, Return, ScanInv
<1>2. 0 \div PAGE_SIZE = 0
  BY TimesDiv, PmmAssumption
<1>3. ASSUME NEW t \in Frames, call.n > 0
      PROVE  ~(Run(t, call.n) \subseteq FreeFrames)
  <2>1. CASE t < call.f - call.run
    BY <2>1, <1>1, <1>3 DEF ScanInv, FreeFrames
  <2>2. CASE t >= call.f - call.run
    <3>1. t + call.n - 1 >= total_frames /\ t + call.n - 1 \in Run(t, call.n)
      BY <2>2, <1>1, <1>3 DEF ScanInv, Run, Frames
    <3>2. t + call.n - 1 \notin FreeFrames
      BY <3>1, <1>1 DEF NothingStranded, Frames, FreeFrames
    <3> QED BY <3>1, <3>2
  <2> QED BY <2>1, <2>2 DEF Frames
<1>4. \A t \in Frames : ~FA!Fits(t, call.n)
  BY <1>1, <1>3 DEF FA!Fits, FA!Run, Run
<1> QED BY <1>1, <1>2, <1>4 DEF FA!Refuse, FA!Refused, FreeFrames

(* Every step of pmm.c is a step of FrameAllocator or changes nothing it   *)
(* shows.                                                                  *)
LEMMA NextRefines ==
  ASSUME IInv, IInv', [Next]_vars
  PROVE  [FA!Next]_(FA!vars)
<1> USE DEF FA!vars
<1>1. ASSUME NEW m \in Maps, SetMap(m) PROVE UNCHANGED FA!vars
  BY <1>1 DEF SetMap, Ready
<1>2. CASE PmmInit
  BY <1>2, ProvideRefines DEF FA!Next
<1>3. ASSUME NEW n \in Requests, AllocCall(n) PROVE UNCHANGED FA!vars
  BY <1>3 DEF AllocCall, Ready, FreeFrames
<1>4. CASE ScanUsed
  BY <1>4 DEF ScanUsed, Scanning, Ready, FreeFrames
<1>5. CASE ScanFree
  BY <1>5 DEF ScanFree, Scanning, Ready, FreeFrames
<1>6. CASE ScanFound
  BY <1>6, GrantRefines DEF FA!Next
<1>7. CASE ScanEnd
  BY <1>7, RefuseRefines DEF FA!Next
<1>8. ASSUME NEW s \in Frames, NEW n \in Requests, FreePages(s, n)
      PROVE  FA!GiveBack(s, n)
  <2>1. /\ Ready /\ Ready' /\ Run(s, n) \subseteq owned /\ Run(s, n) \subseteq Frames
        /\ used' = used \ Run(s, n) /\ owned' = owned \ Run(s, n) /\ ret' = ret
    BY <1>8 DEF FreePages, Ready, IInv, TypeOK
  <2>2. FreeFrames' = FreeFrames \cup Run(s, n)
    BY <2>1 DEF FreeFrames
  <2> QED BY <2>1, <2>2 DEF FA!GiveBack, FA!Run, Run
<1>9. CASE UNCHANGED vars
  BY <1>9 DEF vars, Ready, FreeFrames
<1> QED BY <1>1, <1>2, <1>3, <1>4, <1>5, <1>6, <1>7, <1>8, <1>9 DEF Next, Scan, FA!Next

(* The bitmap scan of pmm.c implements the lowest-fit allocator: each call *)
(* is granted the lowest fitting run, and is refused only when none fits.  *)
THEOREM Implementation == Spec => ImplementsAllocator
BY Invariance, InitRefines, NextRefines, PTL DEF Spec, ImplementsAllocator, FA!Spec
============================================================================
