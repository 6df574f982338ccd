---------------------------- MODULE LeasedWork ----------------------------
(***************************************************************************)
(* What the durable engine promises about each unit of work, free of       *)
(* records, listings and workers: work is claimed by one claimant at a     *)
(* time, a claim can be taken over only after it lapsed or failed, claims  *)
(* are bounded by a budget, and work recorded as done is never reopened.   *)
(* DurablePlan implements it: a lease is a claim, the idempotency key of a *)
(* step is the unit of work.                                               *)
(***************************************************************************)
EXTENDS Integers

CONSTANTS
  Work,     \* units of work, one per idempotency key
  Budget    \* how many claims each unit may have

VARIABLES
  state,    \* "open", "claimed" or "done"
  claims    \* claims granted so far

vars == <<state, claims>>

Init ==
  /\ state = [k \in Work |-> "open"]
  /\ claims = [k \in Work |-> 0]

Claim(k) ==
  /\ state[k] = "open"
  /\ claims[k] < Budget[k]
  /\ state' = [state EXCEPT ![k] = "claimed"]
  /\ claims' = [claims EXCEPT ![k] = @ + 1]

(* The claim lapses, or its holder reports a failure.                       *)
Release(k) ==
  /\ state[k] = "claimed"
  /\ state' = [state EXCEPT ![k] = "open"]
  /\ UNCHANGED claims

(* The last claimant reports success, possibly after its claim lapsed.      *)
Finish(k) ==
  /\ state[k] \in {"claimed", "open"} /\ claims[k] > 0
  /\ state' = [state EXCEPT ![k] = "done"]
  /\ UNCHANGED claims

Next == \E k \in Work : Claim(k) \/ Release(k) \/ Finish(k)

Spec == Init /\ [][Next]_vars
=============================================================================
