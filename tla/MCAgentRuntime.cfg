SPECIFICATION RSpec
CONSTANTS
  Client = {g, t}
  Agent = {g}
  Actor = {"system", "llm_advisor"}
  BootReq = {}
  ConsultReq = {q1}
  AcqReq <- MCAcqReq
  Body <- Advice
  Text = {x}
  Malformed = Malformed
  Command = {}
  NoId = NoId
  Plan = {}
  Rank <- MCRank
  Key = {k1, k2}
  MaxRounds = 2
  MaxPerRound = 2
  MaxReads = 2
  MaxTime = 0
  MaxCommits = 4
  Faults = {"unknown", "crash", "power"}
SYMMETRY Symmetry
VIEW View
INVARIANTS RTypeOK Grounded AdvisoryOnly
PROPERTIES NoSelfConflict ReportedIsRecorded RunAdvances DeadlineHolds
CHECK_DEADLOCK FALSE
