-------------------------- MODULE MCFinalityMonitor --------------------------
(***************************************************************************)
(* FinalityMonitor for model checking.                                     *)
(***************************************************************************)
EXTENDS FinalityMonitor, TLC

\* Which subscription is which matters to no action and no safety property.
Symmetry == Permutations(Subs)
=============================================================================
