SPECIFICATION Spec
CONSTANTS
  Client = {c1}
  Actor = {"system", "llm_advisor"}
  BootReq = {r1}
  Body = {x}
  NoId = NoId
  Plan = {pl1}
  Rank <- MCRank
  AcqReq = {a1, a2}
  ConsultReq = {q1}
  Command = {cmd}
  MaxTime = 1
  MaxCommits = 5
  Faults = {"unknown", "power"}
VIEW View
PROPERTY NeverInvalid
CHECK_DEADLOCK FALSE
