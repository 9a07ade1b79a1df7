\* Two cards, so that a session can be replaced by one with another path.
CONSTANTS
  Cards = {c1, c2}
  Memory = Memory
  NoSession = NoSession
  MaxOps = 3
  MaxTroubles = 2
SPECIFICATION FairSpec
INVARIANTS NothingLeft SessionIsLoaded TimerHasSession
PROPERTIES LogoutCancels OperationsEnd RefinesSession
CHECK_DEADLOCK FALSE
