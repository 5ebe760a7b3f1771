SPECIFICATION Spec
CONSTANTS
  Req = {q1, q2}
  Token = {k1, k2}
  NoToken = NoToken
  NoRow = NoRow
  MaxCrashes = 0
INVARIANT
  LinksCanBeRevoked
CHECK_DEADLOCK FALSE
