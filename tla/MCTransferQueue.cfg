\* Two jobs and every limit from "stopped" to two slots. No symmetry: it would be
\* unsound for liveness.
CONSTANTS
  Jobs = {j1, j2}
  ConcurrencyLevels = {0, 1, 2}
  MaxRetries = 2
SPECIFICATION FairSpec
INVARIANTS SlotsMatchRuns NoLostWakeup HeldIffPaused WaitersAreTold
PROPERTIES RefinesLifecycle CancelIsFinalised PendingIsServed
