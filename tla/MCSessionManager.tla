-------------------------- MODULE MCSessionManager --------------------------
(* SessionManager for TLC: two aliases of one configured language, another  *)
(* configured language, and one nobody configured.                          *)
EXTENDS SessionManager, TLC

MCCanonical == [n \in Names |-> IF n = "py" THEN "python" ELSE n]
MCLanguages == {MCCanonical[n] : n \in Names}

Interchangeable == Permutations(Callers) \cup Permutations(Sessions) \cup Permutations(Closers)
=============================================================================
