--------------------------- MODULE FrameAllocator ---------------------------
(***************************************************************************)
(* What the physical memory manager promises its clients (hal.h declares   *)
(* hal_mem_alloc_pages and hal_mem_free_pages): a set of page frames is    *)
(* made available once, at boot; an allocation of n frames takes the       *)
(* LOWEST run of n consecutive free frames, and is refused only when there *)
(* is no such run; a client may hand back part of what it holds.  Every    *)
(* operation is one step.                                                  *)
(***************************************************************************)
EXTENDS Integers

CONSTANTS Frames,    \* the frame numbers the manager can describe
          Requests   \* the numbers of frames clients ask for

VARIABLES ready,    \* the frames have been made available
          free,     \* frames nobody holds
          lent,     \* frames held by clients
          ret       \* the last allocation: how many were asked, what came back

vars == <<ready, free, lent, ret>>

(***************************************************************************)
(* Frame 0 is never available: its address is the answer "out of memory".  *)
(***************************************************************************)
Refused == 0

Run(s, n) == s .. (s + n - 1)

Fits(s, n) == n > 0 /\ Run(s, n) \subseteq free

LowestFit(s, n) == Fits(s, n) /\ \A t \in Frames : t < s => ~Fits(t, n)

Init == /\ ready = FALSE
        /\ free = {}
        /\ lent = {}
        /\ ret = [n |-> 0, start |-> Refused]

Provide == /\ ~ready
           /\ ready' = TRUE
           /\ free' \in SUBSET (Frames \ {Refused})
           /\ UNCHANGED <<lent, ret>>

Grant(s, n) == /\ ready
               /\ LowestFit(s, n)
               /\ free' = free \ Run(s, n)
               /\ lent' = lent \cup Run(s, n)
               /\ ret' = [n |-> n, start |-> s]
               /\ UNCHANGED ready

Refuse(n) == /\ ready
             /\ \A s \in Frames : ~Fits(s, n)
             /\ ret' = [n |-> n, start |-> Refused]
             /\ UNCHANGED <<ready, free, lent>>

GiveBack(s, n) == /\ ready
                  /\ Run(s, n) \subseteq lent
                  /\ free' = free \cup Run(s, n)
                  /\ lent' = lent \ Run(s, n)
                  /\ UNCHANGED <<ready, ret>>

Next == \/ Provide
        \/ \E n \in Requests : \/ Refuse(n)
                               \/ \E s \in Frames : Grant(s, n) \/ GiveBack(s, n)

Spec == Init /\ [][Next]_vars
=============================================================================
