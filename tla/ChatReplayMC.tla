---------------------------- MODULE ChatReplayMC ----------------------------
(***************************************************************************)
(* ChatReplay for TLC: a session of three turns beside one of one turn.       *)
(***************************************************************************)
EXTENDS ChatReplay

CONSTANTS long, short

MCTurns == [s \in Sessions |-> IF s = long THEN 3 ELSE 1]
=============================================================================
