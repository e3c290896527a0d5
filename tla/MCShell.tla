------------------------------- MODULE MCShell -------------------------------
(* Two runs: the second finds what the first left in files, queue, posted   *)
(* messages and goroutines.                                                 *)
EXTENDS Shell
=============================================================================
