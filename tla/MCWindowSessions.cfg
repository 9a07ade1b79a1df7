\* Sessions share nothing but the windows; three moves take one to a window,
\* back and there again, while the timer of the first move still runs.  The
\* third window is there to be asked, to be moved to, or to be closed.
CONSTANTS
  Windows = {m, w1, w2}
  Main = m
  Sessions = {s1}
  MaxMoves = 3
  MaxAsks = 1
  NoWindow = NoWindow
SPECIFICATION FairSpec
INVARIANTS NoOrphan ShownIsOwned
PROPERTIES ClosingSparesOthers LostPromptsSettle
CHECK_DEADLOCK FALSE
