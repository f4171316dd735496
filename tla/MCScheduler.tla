---------------------------- MODULE MCScheduler ----------------------------
(***************************************************************************)
(* Two addresses for process structs, so that a run may reuse the struct   *)
(* of an earlier one or take a fresh block; four frames per kernel stack:  *)
(* the task, a yield and two nested timer interrupts.                      *)
(***************************************************************************)
EXTENDS Scheduler
=============================================================================
