------------------------- MODULE MCDiagnosticsStore -------------------------
(* DiagnosticsStore for TLC. *)
EXTENDS DiagnosticsStore, TLC

Interchangeable == Permutations(Waiters) \cup Permutations(Contents) \cup Permutations(Uris)
=============================================================================
