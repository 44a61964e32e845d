SPECIFICATION Spec
CONSTANTS
  PlayCount = 2
  ConnectionCount = 2
  MaxConnections = 1
  IdleTimeout = 1
  MaxLifetime = 2
INVARIANTS TypeOK EndedProxyIsQuiet OnlyThePlayerIsServed
PROPERTIES IdleStopsAreIdle EveryProxyEnds
CHECK_DEADLOCK FALSE
