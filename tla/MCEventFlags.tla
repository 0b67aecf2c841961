---------------------------- MODULE MCEventFlags ----------------------------
(* Instances of EventFlags for TLC. *)
EXTENDS EventFlags, TLC

MCSymmetry == Permutations(Tasks) \cup Permutations(Blocks) \cup Permutations(Flags)
=============================================================================
