------------------------- MODULE MCFrameTransport -------------------------
(* A viewport of three rows in two tiles over a page that scrolls by one    *)
(* row, with a fixed header of one row, in two colours.  A new document is  *)
(* blank or striped, with or without a visible header.                      *)
EXTENDS FrameTransport

CONSTANTS white, ink

MCFixed == {0}
MCPixel == {white, ink}
MCDocuments ==
  {[page |-> [p \in 0..3 |-> IF p % 2 = k THEN ink ELSE white],
    pinned |-> [r \in MCFixed |-> x]] : k \in {0, 2}, x \in MCPixel}
=============================================================================
