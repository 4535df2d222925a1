--------------------------- MODULE MCDocumentSync ---------------------------
(* DocumentSync for TLC. *)
EXTENDS DocumentSync, TLC

\* A server that offers code actions and symbols, or the resolution of actions too.
Offers == {{"codeAction", "workspaceSymbol"}, {"codeAction", "codeActionResolve"}}
Interchangeable == Permutations(Callers)
=============================================================================
