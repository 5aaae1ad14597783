----------------------------- MODULE MCPosting -----------------------------
(* One agent sends a text of any form up to four characters, cut at two, and *)
(* then a short one; another agent posts a short one into the same thread.   *)
EXTENDS Posting, SequencesExt

CONSTANTS c1, c2
Every == BoundedSeq(Char, 4)
Short == {<<"other">>}
Texts == [c \in Conn |-> IF c = c1 THEN <<Every, Short>> ELSE <<Short>>]
=============================================================================
