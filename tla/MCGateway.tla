----------------------------- MODULE MCGateway -----------------------------
(* Two clients with a device each; the limits on jobs, the queue and the    *)
(* lifetime of a job are all reached.                                       *)
EXTENDS Gateway, TLC

CONSTANTS a, b
MCTokenOf == a :> "d1" @@ b :> "d2"

Asked(fits) == [call |-> 0, approved |-> TRUE, fits |-> fits, refs |-> Ref, answered |-> Question]
MCContent == {Asked(TRUE), Asked(FALSE), [Asked(TRUE) EXCEPT !.approved = FALSE]}
=============================================================================
