SPECIFICATION FairTunnelSpec
CONSTANTS
  Tunnels = {t1, t2}
INVARIANTS ShownIsSo PortFreed AskpassStops ExitLeavesNone
PROPERTY StopsEnd
CHECK_DEADLOCK FALSE
