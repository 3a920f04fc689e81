------------------------------- MODULE MCAgentLoop -------------------------------
(***************************************************************************)
(* An instance of AgentLoop for TLC.                                       *)
(***************************************************************************)
EXTENDS AgentLoop

OneToken == {1}
OneOrTwo == {1, 2}

=============================================================================
