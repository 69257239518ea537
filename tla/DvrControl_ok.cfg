SPECIFICATION Spec
CONSTANTS
  Ips = {ip1}
  UserIds = {u1}
  EmptyIp = EmptyIp
  NoEntry = NoEntry
  Tasks = {t1, t2}
  TaskIds = {id1}
  Numbers = {n1, n2}
  NoTask = NoTask
  NoParam = NoParam
  NoHandle = NoHandle
  NoStream = NoStream
  NoReply = NoReply
  TASK_TIMEOUT = 2
SYMMETRY Symmetry
CHECK_DEADLOCK FALSE
INVARIANT OkMeansClosed
