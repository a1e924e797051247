-------------------------- MODULE MCChannelOutbound --------------------------
(***************************************************************************)
(* A small instance of ChannelOutbound: calls are interchangeable.         *)
(***************************************************************************)
EXTENDS ChannelOutbound, TLC

Symmetry == Permutations(Workers)
==============================================================================
