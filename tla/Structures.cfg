SPECIFICATION MCSpec
CHECK_DEADLOCK FALSE
CONSTANTS
  ca = ca
  cb = cb
  cv = cv
  uv = uv
  uw = uw
  Client = {ca, cb, cv}
  Server = {cv}
  Opers <- OperList
  Users <- UserList
  Channels <- Rooms
  Servers <- ServerList
  From <- FromOf
  Timed = {ca}
  CanFlood = {cb}
  Texts = {1, 2, 3}
  BlockSize = 2
  SendQ = 3
  RecvQ = 4
  LineSize = 2
  MaxFlood = 1
  FloodBurst = 2
  MaxBlocks = 14
  MaxBytes = 7
  Address <- Addresses
  Bits = 3
  PerPrefix = 1
  MaxNodes = 8
  Event = {e1, e2, e3}
  When <- Periods
  OneShot = {e3}
  MaxClock = 6
  MaxTouch = 3
  e1 = e1
  e2 = e2
  e3 = e3
  Worlds = {"send", "said", "flood", "trie", "events"}
INVARIANTS Metered EventsRun
PROPERTIES StreamsKept PrefixesCounted LinesParsed
