---------------------------- MODULE MCCoordinator ----------------------------
(* Small instances of Coordinator: two callers of one case.                 *)
EXTENDS Coordinator, TLC

(* Evidence ids are hashes: a later topology may well sort first.           *)
MCRank == [n \in 0..MaxCommits |-> MaxCommits - n]

Symmetry == Permutations(Client)

(* What was answered last has no influence on what happens next; the        *)
(* properties about answers are action properties.                          *)
View == <<log, safe, pc, job>>
==============================================================================
