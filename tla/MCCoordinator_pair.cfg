SPECIFICATION Spec
CONSTANTS
  Client = {c1, c2}
  Actor = {"system", "llm_advisor"}
  BootReq = {r1}
  Body = {x}
  NoId = NoId
  Plan = {pl1}
  Rank <- MCRank
  AcqReq = {a1}
  ConsultReq = {q1}
  Command = {}
  MaxTime = 0
  MaxCommits = 4
  Faults = {"unknown", "crash", "power"}
SYMMETRY Symmetry
VIEW View
INVARIANTS NothingLost AuditMatchesChain TerminalIsFinal
PROPERTY ReplyExact
CHECK_DEADLOCK FALSE
