SPECIFICATION ServiceSpec
CONSTANTS
  Ips = {ip1}
  UserIds = {u1}
  EmptyIp = EmptyIp
  NoEntry = NoEntry
  Tasks = {t1, t2}
  TaskIds = {id1}
  Numbers = {n1}
  NoTask = NoTask
  NoParam = NoParam
  NoHandle = NoHandle
  NoStream = NoStream
  NoReply = NoReply
  TASK_TIMEOUT = 1
  Ports = {p1}
  NoPort = NoPort
  Retries = 1
SYMMETRY Symmetry
CHECK_DEADLOCK FALSE
INVARIANTS
  LostWithItsStream
  PlayingIsServed
PROPERTIES
  RefinesStream
