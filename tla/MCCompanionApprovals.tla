------------------------ MODULE MCCompanionApprovals ------------------------
(* Three callers, so that two answers or executions race with a third call. *)
EXTENDS CompanionApprovals, TLC
CONSTANTS c1, c2, c3
Sym == Permutations(Callers)
=============================================================================
