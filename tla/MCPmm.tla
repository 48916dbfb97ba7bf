------------------------------- MODULE MCPmm -------------------------------
(***************************************************************************)
(* Pmm on a machine of eight 4-byte pages with a kernel that ends inside   *)
(* page 1.  The maps cover the cases pmm_init distinguishes: one region,   *)
(* regions that do not start or end on a page, a hole, regions in          *)
(* descending order, memory beyond the bitmap, more regions than the       *)
(* kernel keeps, no usable memory.                                         *)
(***************************************************************************)
EXTENDS Pmm

Ram(b, l) == [base |-> b, length |-> l, type |-> 1]
Rom(b, l) == [base |-> b, length |-> l, type |-> 2]

MCMaps == { << Ram(0, 28) >>,
            << Ram(0, 18), Rom(18, 3), Ram(21, 10) >>,
            << Ram(17, 14), Ram(3, 12) >>,
            << Ram(0, 3), Ram(6, 60) >>,
            << Ram(8, 6), Ram(16, 4), Ram(24, 4), Ram(28, 4) >>,
            << Rom(0, 32) >>,
            << >> }

MCRequests == 0 .. 3
============================================================================
