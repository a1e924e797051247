----------------------------- MODULE MCApplyLock -----------------------------
(***************************************************************************)
(* Model checking of ApplyLock: attempts are interchangeable.              *)
(***************************************************************************)
EXTENDS ApplyLock, TLC

Symmetry == Permutations(Attempts)
==============================================================================
