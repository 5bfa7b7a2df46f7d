SPECIFICATION MCSpec
CHECK_DEADLOCK FALSE
CONSTANTS
  a = a
  b = b
  c = c
  d = d
  u1 = u1
  u2 = u2
  u3 = u3
  m1 = m1
  M1 = M1
  m2 = m2
  m3 = m3
  NoNick = NoNick
  Server = {a, b, c, d}
  Uid = {u1, u2, u3}
  Nick = {m1, M1, m2, m3}
  Hub = {a, b, c}
  Worlds = {"kin", "strangers", "star", "rivals", "squit", "triangle", "masks"}
  Home <- MCHome
  Ident <- Same12
  HubMask <- HubMasks
  LeafMask <- LeafMasks
  Clock <- MCClock
  Fold <- MCFold
INVARIANTS TypeOK NickUnique UserAgreement RoutingTree Routes Masked
PROPERTIES RightfulOwners
