---------------------------- MODULE MCCaseStore ----------------------------
(* Small instances of CaseStore: two processes, two snapshots that share a  *)
(* blob, two or three commit records.                                       *)
EXTENDS CaseStore, TLC

CONSTANTS s1, s2, b1

MCBlobsOf == s1 :> {b1} @@ s2 :> {b1}

Symmetry == Permutations(Proc) \cup Permutations(Snap)
==============================================================================
