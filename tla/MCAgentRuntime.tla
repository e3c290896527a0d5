--------------------------- MODULE MCAgentRuntime ---------------------------
(* A run, and another client that moves the case and runs the same request. *)
EXTENDS AgentRuntime, TLC

MCRank == [n \in 0..MaxCommits |-> n]
MCAcqReq == {ReadReq(q, n, k) : q \in ConsultReq, n \in 1..MaxRounds, k \in Key}

Symmetry == Permutations(Key)

(* The last answer, and what a run reported last, have no influence on what *)
(* happens next; the properties that speak of them are action properties.   *)
View == <<log, safe, pc, job,
          [a \in Agent |-> IF run[a].phase = "idle" THEN NoRun ELSE run[a]]>>
=============================================================================
