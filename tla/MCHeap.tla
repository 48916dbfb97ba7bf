------------------------------- MODULE MCHeap -------------------------------
(***************************************************************************)
(* Heap with a two-page heap after a kernel that ends inside page 1: maps  *)
(* on which it fits, does not fit, or fits only elsewhere; increments that *)
(* are negative, zero, odd, exactly the heap, too large, and the largest   *)
(* an intptr_t holds.  A module image follows the heap's last page, or     *)
(* (ModuleNext) the kernel.                                                *)
(***************************************************************************)
EXTENDS Heap

Ram(b, l) == [base |-> b, length |-> l, type |-> 1]
Rom(b, l) == [base |-> b, length |-> l, type |-> 2]

MCMaps == { << Ram(0, 28) >>,
            << Ram(0, 18), Rom(18, 3), Ram(21, 10) >>,
            << Ram(17, 14), Ram(3, 8) >>,
            << Ram(0, 3), Ram(6, 60) >>,
            << Ram(0, 12), Ram(12, 8) >>,
            << Rom(0, 32) >>,
            << >> }

MCRequests == {2}
MCIncrements == {-128, -1, 0, 1, 3, 8, 9, 127}
ModuleAfterHeap == { [start |-> 20, end |-> 23] }
ModuleNext == { [start |-> 8, end |-> 14] }
============================================================================
