CONSTANTS
  Viewer = {u, v}
  Watcher = {w}
  u = u  v = v  w = w
  Audience <- MCAudience
  Stream = {s1, s2}
  None = None
  Refused = Refused
  MaxConnections = 2
  MaxChanges = 1
  MaxQueue = 1
  MaxPolls = 2
  MaxFaults = 1
SPECIFICATION Spec
INVARIANTS TypeOK ActiveExact OneSource
PROPERTIES NoGoingBack CatchesUp StreamsEnd
CHECK_DEADLOCK FALSE
