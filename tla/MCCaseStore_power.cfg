SPECIFICATION FairSpec
CONSTANTS
  Proc = {p1, p2}
  NoProc = NoProc
  s1 = s1
  s2 = s2
  b1 = b1
  Snap = {s1, s2}
  NoSnap = NoSnap
  Blob = {b1}
  NoBlob = NoBlob
  BlobsOf <- MCBlobsOf
  Faults = {"power"}
  FreshCase = FALSE
  MaxId = 3
INVARIANTS CommittedComplete AckedDurable
PROPERTIES ImplementsCaseLog LockReleased
CHECK_DEADLOCK FALSE
