--------------------------- MODULE MCApplyPolicy ---------------------------
(* ApplyPolicy for TLC. *)
EXTENDS ApplyPolicy, TLC

Interchangeable == Permutations(OptIns) \cup Permutations(Calls \ OptIns) \cup Permutations(EditIds)
=============================================================================
