--------------------------- MODULE MCScriptBridge ---------------------------
(* A page with one frame inside, and two places in memory that nodes take   *)
(* in turn.                                                                 *)
EXTENDS ScriptBridge, TLC

CONSTANTS main, child, a1, a2

MCFrame == {main, child}
MCAddr == {a1, a2}
AddrSymmetry == Permutations(MCAddr)
=============================================================================
