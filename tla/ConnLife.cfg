SPECIFICATION MCSpec
CHECK_DEADLOCK FALSE
CONSTANTS
  c1 = c1
  c2 = c2
  c3 = c3
  p1 = p1
  p2 = p2
  x1 = x1
  x2 = x2
  y1 = y1
  y2 = y2
  k0 = k0
  k1 = k1
  Conn = {c1, c2, c3}
  Ip = {p1, p2}
  Auth = {x1, x2}
  Connect = {y1, y2}
  Class = {k0, k1}
  Default = k0
  Exempt = {}
  MaxTotal = 2
  PerIp = 1
  Throttle = 2
  FdLimit = 6
  Reserve = 1
  Worlds = {"clients", "lookups", "server", "rehash"}
INVARIANTS CountsHold NoDangling WatchedOver
PROPERTIES ExitedOnce
