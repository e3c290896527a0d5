SPECIFICATION LSpec
CONSTANTS
  EvidenceOp <- MCOps
  Spelling = {"c:/", "C:", "D:", "X:"}
  Canonical <- MCCanonical
  NoTarget = NoTarget
  Fact <- MCFact
  Schema <- MCSchema
  Redacted <- MCRedacted
  Uploadable = {"storage"}
  Asked <- MCAsked
  Ref <- MCRef
  Private <- MCPrivate
  Question = {"q1"}
  Operation = {"inspect", "repair"}
  ReadOnly = {"inspect"}
  Source = {"vendor"}
  Official = {"vendor"}
  MaxLimitations = 1
  MaxRounds = 3
  MaxRequests = 2
INVARIANTS LTypeOK EvidenceShown ReadOnce AuditTells
PROPERTIES LoopEnds
