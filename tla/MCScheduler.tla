---------------------------- MODULE MCScheduler ----------------------------
(***************************************************************************)
(* A small instance of Scheduler.                                          *)
(***************************************************************************)
EXTENDS Scheduler
============================================================================
