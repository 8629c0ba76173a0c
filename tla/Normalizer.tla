----------------------------- MODULE Normalizer -----------------------------
(***************************************************************************)
(* internal/normalize: what is left of a text when case, white space and   *)
(* invisible runes are dropped.  A text is a sequence of runes; a rune is  *)
(* a string, "A" and "B" standing for the upper-case letters.              *)
(***************************************************************************)
EXTENDS SequencesExt

Lowered(rune) == IF rune = "A" THEN "a" ELSE IF rune = "B" THEN "b" ELSE rune

ZeroWidth == {"zwsp", "bom"}
Spaces == {" ", "\n", "ideographic space"}

\* Service.Normalize: the lowered text, rune by rune.
Normalize(text) ==
  LET Write(written, rune) ==
        IF Lowered(rune) \in ZeroWidth \cup Spaces THEN written
        ELSE Append(written, Lowered(rune))
  IN  FoldLeft(Write, <<>>, text)
=============================================================================
