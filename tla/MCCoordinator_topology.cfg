SPECIFICATION Spec
CONSTANTS
  Client = {c1}
  Actor = {"system", "llm_advisor"}
  BootReq = {r1}
  Body = {x}
  NoId = NoId
  Plan = {pl1}
  Rank <- MCRank
  AcqReq = {a1, a2}
  ConsultReq = {}
  Command = {}
  MaxTime = 0
  MaxCommits = 4
  Faults = {}
VIEW View
INVARIANT LatestTopology
CHECK_DEADLOCK FALSE
