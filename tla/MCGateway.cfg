SPECIFICATION GSpec
CONSTANTS
  a = a
  b = b
  Client = {a, b}
  Device = {"d1", "d2"}
  TokenOf <- MCTokenOf
  Content <- MCContent
  Ref = {"hostname"}
  Private = {"hostname"}
  Question = {"q"}
  Operation = {}
  ReadOnly = {}
  Source = {}
  Official = {}
  MaxLimitations = 1
  MaxJobs = 1
  MaxJobsPerDevice = 1
  MaxConcurrent = 1
  TTL = 1
  MaxTime = 2
  MaxCalls = 2
INVARIANTS GTypeOK OwnResult ContextDiscarded WithinLimits
PROPERTIES JobsGoForward CallEnds
CHECK_DEADLOCK FALSE
