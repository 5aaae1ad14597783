----------------------------- MODULE MCAgentWs -----------------------------
(* Model values for AgentWs: two connections compete for one name, one after *)
(* the other or at once; more messages than the queue and the socket hold.   *)
EXTENDS AgentWs
=============================================================================
