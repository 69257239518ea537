SPECIFICATION FairHttpSpec
CONSTANTS
  Ips = {ip1}
  UserIds = {u1}
  EmptyIp = EmptyIp
  NoEntry = NoEntry
  Tasks = {t1}
  TaskIds = {id1}
  Numbers = {n1}
  NoTask = NoTask
  NoParam = NoParam
  NoHandle = NoHandle
  NoStream = NoStream
  NoReply = NoReply
  TASK_TIMEOUT = 1
CHECK_DEADLOCK FALSE
PROPERTIES
  MustReply
