------------------------------- MODULE MCTone -------------------------------
(* Tone with short tones, for TLC. *)
EXTENDS Tone

MCCounts == {-1, 0, 1, 2}
=============================================================================
