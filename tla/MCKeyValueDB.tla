---------------------------- MODULE MCKeyValueDB ----------------------------
(* Instances of KeyValueDB for TLC: two keys share a file, one is alone. *)
EXTENDS KeyValueDB, TLC

CONSTANTS k1, k2, k3, f1, f2

MCKeys == {k1, k2, k3}
MCFiles == {f1, f2}
MCFilesAtStart == {f1}
MCFileOf == [k \in MCKeys |-> IF k = k3 THEN f2 ELSE f1]

MCSymmetry == Permutations(Cullers) \cup Permutations(Vals)
=============================================================================
