----------------------------- MODULE MCTabStrip -----------------------------
(* Three tabs: a crashed or recovering one can have a neighbour on both     *)
(* sides.  Nothing is claimed once the strip is derailed, and m_tabBar may  *)
(* then grow without bound: the exploration stops there.                    *)
EXTENDS TabStrip, TLC

CONSTANTS a, b, c

MCTab == {a, b, c}
TabSymmetry == Permutations(MCTab)
UntilDerailed == ~derailed
=============================================================================
