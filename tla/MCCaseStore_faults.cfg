SPECIFICATION Spec
CONSTANTS
  Proc = {p1, p2}
  NoProc = NoProc
  s1 = s1
  s2 = s2
  b1 = b1
  Snap = {s1, s2}
  NoSnap = NoSnap
  Blob = {b1}
  NoBlob = NoBlob
  BlobsOf <- MCBlobsOf
  Faults = {"crash", "sync", "rot"}
  FreshCase = TRUE
  MaxId = 2
SYMMETRY Symmetry
INVARIANTS TypeOK ChainIntact NoDuplicateHead ScratchSafe
PROPERTIES ExpectationHonoured ErrorMeansNotCommitted
CHECK_DEADLOCK FALSE
