--------------------------- MODULE MCChildMonitor ---------------------------
(* Small instances of ChildMonitor for TLC.                                *)
EXTENDS ChildMonitor, TLC

CONSTANTS c1, c2, c3

ChildSymmetry == Permutations(Children)
=============================================================================
