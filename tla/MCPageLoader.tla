---------------------------- MODULE MCPageLoader ----------------------------
(* A page with a style sheet, a script, an image and a font, and a cap that *)
(* the style sheet's own references can exceed.                             *)
EXTENDS PageLoader

CONSTANTS sheet, script, image, font

MCRes  == {sheet, script, image, font}
MCCss  == {sheet}
MCJs   == {script}
MCFont == {font}
=============================================================================
