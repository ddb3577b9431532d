--------------------------- MODULE MCInlineBuffer ---------------------------
(* Strings of no, one, two and five characters around an array of three:   *)
(* the last one alone does not fit.                                        *)
EXTENDS InlineBufferObject

CONSTANTS a, b

Strings == {<< >>, <<a>>, <<b>>, <<a, b>>, <<b, a, b, b, a>>}
=============================================================================
