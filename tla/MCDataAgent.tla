---------------------------- MODULE MCDataAgent -----------------------------
(* Instances of DataAgent for TLC.  Windows and keys are interchangeable. *)
EXTENDS DataAgent, TLC

MCSymmetry == Permutations(Key) \cup Permutations(Window)
=============================================================================
