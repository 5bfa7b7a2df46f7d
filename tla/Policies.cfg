SPECIFICATION MCSpec
CHECK_DEADLOCK FALSE
CONSTANTS
  s1 = s1
  s2 = s2
  w1 = w1
  w2 = w2
  Slot = {s1, s2}
  Who = {w1, w2}
  Addressed <- Addresses
  Wide <- TooWide
  MaxNow = 2
  MaxBans = 5
  u1 = u1
  u2 = u2
  u3 = u3
  n1 = n1
  n2 = n2
  k1 = k1
  k2 = k2
  h1 = h1
  h2 = h2
  User = {u1, u2, u3}
  Nick = {n1, n2}
  Channel = {k1, k2}
  Cell = {h1, h2}
  OperOnly = {"w"}
  OperModes = {"w"}
  MaxWatch = 1
  MaxInvites = 1
  InviteExpire = 1
  PaceCount = 0
  PaceTime = 1
  MaxTime = 2
  r1 = r1
  r2 = r2
  Holder = {r1, r2}
  Files <- ConfFiles
  Default <- ConfDefaults
  Bounds <- ConfBounds
  Adds <- ConfAdds
  Texts = {"description", "email"}
  Once = {"name"}
  Module = {"m1", "m2", "m3"}
  Resident = {"m3"}
  Core <- ConfCore
  IncludeDepth = 2
  t1 = t1
  t2 = t2
  t3 = t3
  q1 = q1
  q2 = q2
  Order <- SpeechOrder
  Room = {q1, q2}
  Buckets <- RoomTable
  Reserved = {}
  BanLimit <- ListLimit
  Burst = 1
  Window = 1
  MaxTargets = 2
  WhoLimit = 3
  Ends = 4
  Fds = 2
  Pending = 3
  MaxMoves = 3
  MaxSeconds = 2
  Lower <- Cases
  Names <- SomeNames
  Masks <- SomeMasks
  Lines <- SomeLines
  MaxParams = 3
  Letters <- AtoZ
  Digits <- Zero9
  Places = 2
  MaxUsers = 2
  Worlds = {"loop", "texts", "ids", "enforce", "database", "modes", "watch", "history", "invites", "config", "talk", "flood", "ask"}
INVARIANTS FdsServed TextsRead BansEnforced UsersAgree Remembered ConfigStands Conversation
PROPERTIES DatabaseKept
