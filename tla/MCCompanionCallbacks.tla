------------------------ MODULE MCCompanionCallbacks ------------------------
(* Three callers: an execution, a delivery and a re-ask or recovery.        *)
EXTENDS CompanionCallbacks, TLC
CONSTANTS c1, c2, c3
Sym == Permutations(Callers)
=============================================================================
