---------------------------- MODULE MCChangeReview ----------------------------
(***************************************************************************)
(* A small instance of ChangeReview.  All leader calls come from one       *)
(* leader runtime, so that they share their decidedBy: the case the        *)
(* claim's changes-count is there for.                                     *)
(***************************************************************************)
EXTENDS ChangeReview

CONSTANT leader1

MCLeaders == {leader1}
MCIdOf    == [c \in LeaderCalls |-> leader1]

\* Every review touches a file of its own.
MCFilesOf == [r \in Reviews |-> {r}]
==============================================================================
