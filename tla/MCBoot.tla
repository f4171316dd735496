------------------------------- MODULE MCBoot -------------------------------
(***************************************************************************)
(* Two polls, one stale byte, two keys (of which the firmware may have     *)
(* left one) and two bytes from the mouse.                                 *)
(***************************************************************************)
EXTENDS Boot
=============================================================================
