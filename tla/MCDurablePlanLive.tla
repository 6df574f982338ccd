------------------------- MODULE MCDurablePlanLive -------------------------
EXTENDS DurablePlan, TLC
CONSTANTS w1, w2
MCKind == <<"timer", "question", "tool">>
MCDeps == <<{}, {1}, {2}>>
MCResources == <<{"a"}, {"b"}, {"a"}>>
MCMaxAttempts == <<1, 1, 2>>
MCSource == <<0, 0, 0>>
(* The default of PlanStepRecord.max_attempts. *)
MCOneAttempt == <<1, 1, 1>>
=============================================================================
