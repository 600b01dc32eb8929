SPECIFICATION Spec
CONSTANTS
  Networks = {wifi, cell}
  MaxStarts = 2
  MaxChanges = 3
INVARIANTS
  LinksFollowNetworks
  OneRelayRuns
  OneRelayListens
  StoppedShowsNothing
PROPERTIES
  NetworksAreUsed
CHECK_DEADLOCK FALSE
VIEW
  View
