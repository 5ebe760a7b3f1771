SPECIFICATION Spec
CONSTANTS
  Req = {q1, q2}
  Token = {k1, k2}
  NoToken = NoToken
  NoRow = NoRow
  MaxCrashes = 1
SYMMETRY Symmetry
CONSTRAINT Unsettled
INVARIANTS
  TypeOK
  LinksAreNamed
  NothingOutlivesItsRow
  AnswersResolve
CHECK_DEADLOCK FALSE
