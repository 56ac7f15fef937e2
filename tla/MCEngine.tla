------------------------------- MODULE MCEngine -------------------------------
(* Small instances of Engine for TLC. *)
EXTENDS EngineProperties, TLC

CONSTANTS tick, tock, slotA, slotB

\* Ticks that run the same command may change places (safety runs only).
LikeTicks == Permutations(RealClaude)
=============================================================================
