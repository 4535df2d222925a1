----------------------------- MODULE MCTextEdits -----------------------------
(* TextEdits for TLC: a document whose first line holds a wide character    *)
(* and ends with a carriage return; one with nothing but a carriage return. *)
EXTENDS TextEdits

MCTexts == {<<Wide, CR, NL, "a", "b">>, <<CR>>}
MCNewTexts == {<<"x", "y">>, <<"z">>}
=============================================================================
