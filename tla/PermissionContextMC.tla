------------------------ MODULE PermissionContextMC ------------------------
(***************************************************************************)
(* Instances of PermissionContext for TLC.  Calls of BindSession, answers  *)
(* and cancellations start again when they end: Binders, Answers and       *)
(* Cancellers bound how many run at the same time, not how many there are. *)
(***************************************************************************)
EXTENDS PermissionContext
=============================================================================
