------------------------------ MODULE MCLogin ------------------------------
(* Model values for Login: one administrator, one binding in play.           *)
EXTENDS Login, TLC

CONSTANTS admin, other
OneThread == {<<1, admin, 1>>}
FirstStart == Nothing
Symmetry == Permutations(Callback) \cup Permutations(St)
=============================================================================
