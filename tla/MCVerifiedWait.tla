--------------------------- MODULE MCVerifiedWait ---------------------------
(* VerifiedWait with bounds below and above the default, 0, a negative one,  *)
(* one too long for a JavaScript timer and one too long for a word.          *)
EXTENDS VerifiedWait

SomeBounds == {-3, 0, 1, 4, 7, 11}
=============================================================================
