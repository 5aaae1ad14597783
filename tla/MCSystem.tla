----------------------------- MODULE MCSystem ------------------------------
(* System with small channels, pipes and sockets: either cycle can close.    *)
EXTENDS System

CONSTANTS m1, m2
TwoSends == <<m1, m2>>
\* A call of the reply tool, which is answered and relayed, then a permission
\* request, which is only relayed.
TwoLines == <<{"call"}, {"note"}>>
=============================================================================
