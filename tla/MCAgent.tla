------------------------------ MODULE MCAgent ------------------------------
(* Agent with small channels and pipes: two messages fill one direction.     *)
EXTENDS Agent
=============================================================================
