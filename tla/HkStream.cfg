SPECIFICATION Spec
CONSTANTS
  t1 = t1
  t2 = t2
  p1 = p1
  p2 = p2
  Tasks = {t1, t2}
  Ports = {p1, p2}
  NoTask = NoTask
  NoPort = NoPort
  Retries = 2
SYMMETRY Symmetry
CHECK_DEADLOCK FALSE
INVARIANTS
  PortAccounted
  CallbackOwnsPort
  NoLateLeak
  FramesOfOwner
  NoDanglingDecoder
PROPERTIES
  RefinesLease
