SPECIFICATION Spec
CONSTANTS
  Ips = {ip1, ip2}
  UserIds = {u1}
  EmptyIp = EmptyIp
  NoEntry = NoEntry
  Tasks = {t1, t2}
  TaskIds = {id1, id2}
  Numbers = {n1, n2}
  NoTask = NoTask
  NoParam = NoParam
  NoHandle = NoHandle
  NoStream = NoStream
  NoReply = NoReply
  TASK_TIMEOUT = 2
SYMMETRY Symmetry
CHECK_DEADLOCK FALSE
INVARIANTS
  TypeOK
  StartedIsStreaming
  NoUseAfterFree
  DanglingOnlyIfLost
  StreamAccounted
  OneStreamPerId
  LoginBacked
  SessionAccounted
PROPERTIES
  ClosedByItsStop
  RefinesRegistry
