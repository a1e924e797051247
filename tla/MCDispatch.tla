----------------------------- MODULE MCDispatch -----------------------------
(***************************************************************************)
(* A small instance of Dispatch.                                           *)
(***************************************************************************)
EXTENDS Dispatch

CONSTANT d1
=============================================================================
