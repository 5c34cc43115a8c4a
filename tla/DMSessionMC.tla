----------------------------- MODULE DMSessionMC -----------------------------
(***************************************************************************)
(* Instances of DMSession for TLC.                                         *)
(***************************************************************************)
EXTENDS DMSession, TLC

\* Dispatchers differ in nothing but their names, nor do messages.
DispatcherSymmetry == Permutations(Dispatchers) \cup Permutations(Messages)
=============================================================================
