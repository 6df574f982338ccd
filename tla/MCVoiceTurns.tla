----------------------------- MODULE MCVoiceTurns -----------------------------
(* Three turns of one satellite race with a turn of another.                 *)
EXTENDS VoiceTurns
CONSTANTS a, b
MCTurns == 1..4
MCSource == <<a, a, a, b>>
=============================================================================
