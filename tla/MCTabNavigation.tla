-------------------------- MODULE MCTabNavigation --------------------------
(* Three addresses, one of which redirects to another.                      *)
EXTENDS TabNavigation

CONSTANTS a, b, c

MCUrl == {a, b, c}
MCRedirect == [u \in MCUrl |-> IF u = c THEN b ELSE u]
=============================================================================
