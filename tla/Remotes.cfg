SPECIFICATION RemotesFairSpec
CONSTANTS
  Conn = {p1, p2}
  NoConn = NoConn
  MaxWatchers = 1
  Redialer = {d1, d2}
  Free = Free
  MaxAttempts = 2
  MaxConnects = 1
INVARIANTS
  RemotesTypeOK
  DisabledIsRedialed
  ConnectedIsPrepared
PROPERTIES
  ReconnectionEnds
CHECK_DEADLOCK FALSE
