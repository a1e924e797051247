---------------------------- MODULE MCLeaderTask ----------------------------
(***************************************************************************)
(* Model checking of LeaderTask: teammates and messages are interchangeable *)
(* in the safety runs.                                                     *)
(***************************************************************************)
EXTENDS LeaderTask, TLC

Symmetry == Permutations(Teammates) \cup Permutations(Messages)
==============================================================================
