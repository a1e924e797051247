---------------------------- MODULE MCAgentLoop ----------------------------
(* A small instance of AgentLoop for TLC.                                  *)
EXTENDS AgentLoop

MCPrompts == {"approve", "cancel", "revise"}
MCMcpPrompts == {[before |-> <<>>, blocks |-> <<>>],
                 [before |-> <<Assistant(<<Block("said")>>, <<>>)>>, blocks |-> <<Block("said")>>]}
MCReplies == {[text |-> <<Block("said")>>, tools |-> <<"work">>],
              [text |-> <<>>, tools |-> <<"enter", "exit">>]}
=============================================================================
