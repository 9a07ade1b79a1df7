SPECIFICATION Spec
CONSTANTS
  a = a
  b = b
  c = c
  Machines <- MCMachines
  Recipients <- MCRecipients
  Admins <- MCAdmins
  Creator = a
  FirstFormat = 1
  MaxEdits = 2
  MaxWrites = 3
  MaxTroubles = 1
  MaxOldWrites = 1
  NoFile = NoFile
  NoKey = NoKey
  Unknown = Unknown
INVARIANTS
  KeysAgree
  HonestPullAccepted
PROPERTIES
  PushKeepsEdits
  UnpushedNeedForce
CHECK_DEADLOCK FALSE
