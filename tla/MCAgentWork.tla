----------------------------- MODULE MCAgentWork -----------------------------
(* A small instance of AgentWork: two agents, one with three turns in the    *)
(* same conversation, of which one is not named by its frames: a turn more   *)
(* than the table holds.                                                     *)
EXTENDS AgentWork

MCTurnAgent == <<1, 1, 1, 2>>
MCTurnChannel == <<1, 1, 1, 1>>
=============================================================================
