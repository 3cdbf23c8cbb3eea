------------------------- MODULE MCRendererDocument -------------------------
(* Two documents.  A page grows by one place when its images and style      *)
(* sheets are there, in its one second feed.                                *)
EXTENDS RendererDocument, TLC

CONSTANTS d1, d2

MCDoc == {d1, d2}
DocSymmetry == Permutations(MCDoc)
=============================================================================
