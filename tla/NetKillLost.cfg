SPECIFICATION MCSpec
CHECK_DEADLOCK FALSE
CONSTANTS
  a = a
  b = b
  c = c
  d = d
  u1 = u1
  u2 = u2
  u3 = u3
  m1 = m1
  M1 = M1
  m2 = m2
  m3 = m3
  NoNick = NoNick
  Server = {a, b, c}
  Uid = {u1, u2, u3}
  Nick = {m1, M1, m2, m3}
  Hub = {a, b, c}
  Worlds = {"killed"}
  Home <- MCHome
  Ident <- Strangers
  HubMask <- HubMasks
  LeafMask <- LeafMasks
  Clock <- MCClock
  Fold <- MCFold
INVARIANTS UserExitsSpread
