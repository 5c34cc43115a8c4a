-------------------------- MODULE RuntimeManagerMC --------------------------
(***************************************************************************)
(* Instances of RuntimeManager for TLC.  Two rounds may run at once in one *)
(* session (a check and a StartRound are not atomic); one interrupt and    *)
(* two closes let a waiter meet a dropped round, a recreated session and a *)
(* second drop.                                                            *)
(***************************************************************************)
EXTENDS RuntimeManager
=============================================================================
