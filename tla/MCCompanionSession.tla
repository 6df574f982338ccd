------------------------- MODULE MCCompanionSession -------------------------
(* A turn that prefers the phone races with one that runs on both.           *)
EXTENDS CompanionSession, TLC
CONSTANTS t1, t2
MCMode == (t1 :> "companion_preferred") @@ (t2 :> "both")
MCCallbacks == (t1 :> 1) @@ (t2 :> 0)
=============================================================================
