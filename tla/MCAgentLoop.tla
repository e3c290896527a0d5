---------------------------- MODULE MCAgentLoop ----------------------------
(* Two operations, one of a class that must not be uploaded, and two        *)
(* targets, one of them with two spellings.                                 *)
EXTENDS AgentLoop, TLC

MCOps == {"storage", "bitlocker"}
MCFact == {"health", "serial"}
MCReport == {<<"report", "disk">>, <<"report", "hostname">>}
MCPrivate == {<<"report", "hostname">>}
MCRef == MCReport \cup {EvidenceRef(op, f) : op \in MCOps, f \in MCFact}
MCCanonical == "c:/" :> "C:" @@ "C:" :> "C:" @@ "D:" :> "D:" @@ "X:" :> NoTarget
MCSchema == [op \in MCOps |-> {"health"}]
MCRedacted == "storage" :> {"serial"} @@ "bitlocker" :> {}
MCAsked == [call |-> 1, approved |-> TRUE, fits |-> TRUE, refs |-> MCReport, answered |-> {"q1"}]
=============================================================================
