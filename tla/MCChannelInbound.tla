--------------------------- MODULE MCChannelInbound ---------------------------
(***************************************************************************)
(* A small instance of ChannelInbound: message m1 comes under two event    *)
(* ids (app_mention and message.im of one direct message), m2 under one.   *)
(***************************************************************************)
EXTENDS ChannelInbound, TLC

CONSTANTS e1, e2, e3, m1, m2

MCMsgOf      == (e1 :> m1) @@ (e2 :> m1) @@ (e3 :> m2)
MCOccurredAt == (m1 :> 3) @@ (m2 :> 2)

Symmetry == Permutations(Handlers)
==============================================================================
