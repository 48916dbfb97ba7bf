--------------------------- MODULE MCExcRecovery ---------------------------
(***************************************************************************)
(* ExcRecovery with one exception without an error code (#DE), one with    *)
(* (#PF), and a program that faults on the shell's stack, on a deeper one, *)
(* or with no stack at all.                                                *)
(***************************************************************************)
EXTENDS ExcRecovery

MCFaults == {0, 14}
MCProgRsps == {3, 4, NoStack}
============================================================================
