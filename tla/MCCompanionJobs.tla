-------------------------- MODULE MCCompanionJobs --------------------------
(* Two callers race on a job that may be offered twice, to two sessions.    *)
EXTENDS CompanionJobs

CONSTANTS a1, a2, s1, s2, c1, c2

MCSessionOf == (a1 :> s1) @@ (a2 :> s2)

(* The callers are alike, and so are the two attempts with their sessions.  *)
Offer(a, b, s, t) == (a1 :> a) @@ (a2 :> b) @@ (s1 :> s) @@ (s2 :> t)
Sym == {p @@ q : p \in Permutations({c1, c2}),
                 q \in {Offer(a1, a2, s1, s2), Offer(a2, a1, s2, s1)}}
=============================================================================
