-------------------------- MODULE MCCommandApproval -------------------------
(***************************************************************************)
(* A small instance of CommandApproval.                                    *)
(***************************************************************************)
EXTENDS CommandApproval

CONSTANTS c1, c2, k1, k2
=============================================================================
