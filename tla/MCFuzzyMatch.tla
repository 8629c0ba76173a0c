---------------------------- MODULE MCFuzzyMatch ----------------------------
(* Words of up to four runes and texts of up to six over two runes.      *)
EXTENDS FuzzyMatch

CONSTANTS a, b

MCLetters == {a, b}
MCWords == {<<>>, <<a>>, <<a, b>>, <<a, a, a>>, <<a, a, b>>, <<a, b, a>>, <<a, b, b, a>>}
MCTexts == BoundedSeq(MCLetters, 6)
=============================================================================
