------------------------ MODULE MCDiagnosticsLookup ------------------------
(* DiagnosticsLookup for TLC. *)
EXTENDS DiagnosticsLookup, TLC

\* A server that pushes, or one that can be asked.
Offers == {{}, {"pullDiagnostics"}}
Interchangeable == Permutations(Callers)
=============================================================================
