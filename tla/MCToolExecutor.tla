--------------------------- MODULE MCToolExecutor ---------------------------
(***************************************************************************)
(* A small instance of ToolExecutor.                                       *)
(***************************************************************************)
EXTENDS ToolExecutor
============================================================================
