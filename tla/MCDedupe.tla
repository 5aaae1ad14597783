------------------------------ MODULE MCDedupe ------------------------------
(* Model values for Dedupe: more ids than the capacity, so that evicted ids *)
(* come back, and enough acceptances to turn the queue over three times.    *)
EXTENDS Dedupe
=============================================================================
