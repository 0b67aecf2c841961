------------------------------- MODULE MCPsm -------------------------------
(* Instances of Psm for TLC. *)
EXTENDS Psm, TLC

\* Partition keys are longer than "last_used", as "common_part" is.
MCEntrySize == [x \in Names |-> IF x \in Keys THEN 2 ELSE 1]

\* Partition keys that are shorter.
MCShortKeys == [x \in Names |-> IF x = LastUsed THEN 5 ELSE 1]

MCSymmetry == Permutations(Tasks)
============================================================================
