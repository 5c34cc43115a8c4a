--------------------------- MODULE InputQueueLogMC ---------------------------
(***************************************************************************)
(* Instances of InputQueueLog for TLC: three ids and one round that        *)
(* guidance may be meant for.  The files are of any length.                *)
(***************************************************************************)
EXTENDS InputQueueLog

CONSTANTS i1, i2, i3

IdLists == {<<i3, i1>>, <<i2, i1, i2>>, <<>>}
=============================================================================
