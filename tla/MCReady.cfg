\* A behaviour ends when it has used up MaxFetches, or where Hung says.
CHECK_DEADLOCK FALSE
SPECIFICATION Spec
CONSTANTS
  s1 = s1
  s2 = s2
  Sockets <- MCSockets
  NoSocket = NoSocket
  Timeout = 1
  MaxRedirects = 1
  MaxFetches = 3
  MaxBlocks = 2
INVARIANT ReadyMeansInitialised
