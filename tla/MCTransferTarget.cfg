CONSTANTS
  t1 = t1
  t2 = t2
  s1 = s1
  s2 = s2
  Original = Original
  NoFile = NoFile
  Hole = Hole
  Transfers <- MCTransfers
  Sessions <- MCSessions
  SessionOf <- MCSessionOf
  Size <- MCSize
  MaxDrops = 1
SPECIFICATION FairSpec
INVARIANTS
  CompletedIsWhole
  FailedLeavesNothing
  HandlesClosed
PROPERTIES
  SparesUntouched
  FailureIsReported
