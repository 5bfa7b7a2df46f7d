SPECIFICATION MCSpec
CHECK_DEADLOCK FALSE
CONSTANTS
  a = a
  b = b
  c = c
  u1 = u1
  u2 = u2
  u3 = u3
  u4 = u4
  nt = nt
  i = i
  k1 = k1
  k2 = k2
  Server = {a, b, c}
  Uid = {u1, u2, u3, u4}
  Mode = {nt, i}
  Mask = {k1}
  Limits = {2}
  Worlds = {"splits", "kicks", "members", "relink"}
  Initial = {nt}
  Shut = {i}
  Side <- Line
  Banned <- Bans
  Home <- MCHome
  Clock <- MCClock
INVARIANTS TypeOK MembersSound OpsEarned MembersAgree
PROPERTIES TsFalls
