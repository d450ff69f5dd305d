---------------------------- MODULE MCDiskCache ----------------------------
(* Small instances of DiskCache for TLC.                                   *)
EXTENDS DiskCache, TLC

CONSTANTS k1, k2, k3, empty, small, big

MCKeys2 == {k1, k2}
MCKeys3 == {k1, k2, k3}

(* Values of no, one and two bytes.                                        *)
MCSize == (small :> 1) @@ (big :> 2) @@ (empty :> 0)
MCSizeUsed == [v \in Values |-> MCSize[v]]

(* Keys are added again, RAM copies are kept, or both.                     *)
MCEither == {{"readd"}, {"ram"}}
MCReAdd == {{"readd"}}
MCBoth == {{"readd", "ram"}}

KeySymmetry == Permutations(Keys)
=============================================================================
