---------------------------- MODULE MCSplitDeque ----------------------------
(* SplitDeque for TLC: model values for thieves and tasks, which are       *)
(* interchangeable.                                                        *)
EXTENDS SplitDeque, TLC

Symmetry == Permutations(Thieves) \cup Permutations(Tasks)
==============================================================================
