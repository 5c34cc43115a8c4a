---------------------------- MODULE RoomRoundsMC ----------------------------
(* Values of the constants of RoomRounds for TLC.                          *)
EXTENDS RoomRounds

CONSTANTS a, b

ToFirst == {{a}}
ToBoth == {{a, b}}
=============================================================================
