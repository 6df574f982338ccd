--------------------------- MODULE MCDurablePlan ---------------------------
(* Two steps that may share a wave, and the compensation of the first, which *)
(* needs the resource of the first.                                          *)
EXTENDS DurablePlan, TLC
CONSTANTS w1, w2
MCKind == <<"tool", "verification", "compensation">>
MCDeps == <<{}, {}, {}>>
MCResources == <<{"a"}, {"b"}, {"a"}>>
MCMaxAttempts == <<1, 2, 1>>
MCSource == <<0, 0, 1>>
(* Workers differ in nothing but their name. *)
Sym == Permutations(Workers)
=============================================================================
