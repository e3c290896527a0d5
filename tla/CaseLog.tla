------------------------------- MODULE CaseLog -------------------------------
(***************************************************************************)
(* What a recovery case promises to the coordinator: an append-only log of *)
(* snapshots with one writer at a time.  A suffix that nobody was told is  *)
(* committed may disappear when the machine loses power; an acknowledged   *)
(* entry never does, and the same snapshot is never appended twice in a    *)
(* row, however often a client repeats its commit.                         *)
(***************************************************************************)
EXTENDS Naturals, Sequences

CONSTANT Snap   \* the snapshots (contents of a case) clients may commit

VARIABLES log,  \* the committed snapshots, oldest first
          safe  \* how many of them some client was told are committed

vars == <<log, safe>>

TypeOK == /\ log \in Seq(Snap)
          /\ safe \in 0..Len(log)

Init == /\ log = <<>>
        /\ safe = 0

(* A new snapshot becomes the head: never the one that is the head already. *)
AppendSnapshot(s) ==
  /\ log # <<>> => log[Len(log)] # s
  /\ log' = Append(log, s)
  /\ UNCHANGED safe

(* A client is told that the first n entries are committed. *)
Acknowledge(n) ==
  /\ n \in safe + 1 .. Len(log)
  /\ safe' = n
  /\ UNCHANGED log

(* Power loss: entries nobody was told about may be gone. *)
Lose(n) ==
  /\ n \in safe .. Len(log)
  /\ log' = SubSeq(log, 1, n)
  /\ UNCHANGED safe

Next == \/ \E s \in Snap : AppendSnapshot(s)
        \/ \E n \in 0 .. Len(log) : Acknowledge(n) \/ Lose(n)

Spec == Init /\ [][Next]_vars
==============================================================================
