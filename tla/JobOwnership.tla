--------------------------- MODULE JobOwnership ---------------------------
(***************************************************************************)
(* What a companion job promises about who works on it, free of records,   *)
(* leases, callers and revisions: it is offered to one attempt at a time,  *)
(* and every offer is a new attempt.  CompanionJobs implements it;         *)
(* CompanionCallbacks, where the job is seen only through its current      *)
(* attempt, is built on it.                                                *)
(***************************************************************************)
EXTENDS Integers

VARIABLES
  offered,   \* attempts are numbered as they are offered
  owner      \* the current attempt, 0 when there is none

vars == <<offered, owner>>

Init == offered = 0 /\ owner = 0

Offer == owner = 0 /\ offered' = offered + 1 /\ owner' = offered'

(* Rejected, reclaimed, finished, cancelled, expired or taken over.         *)
Lose == owner # 0 /\ owner' = 0 /\ UNCHANGED offered

Next == Offer \/ Lose

Spec == Init /\ [][Next]_vars

-----------------------------------------------------------------------------
(* An attempt that lost the job never owns it again, so that whoever saw it *)
(* lost may act on that however much later.                                 *)
LostForGood == [][\A a \in 1..offered : owner # a => owner' # a]_vars
=============================================================================
