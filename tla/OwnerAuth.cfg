SPECIFICATION Spec
CONSTANTS
  Browser = {b1, b2}
  Client = {c1, c2}
  Request = {r1, r2}
  None = None
  Lifetime = 3
  MaxSessions = 1
  Window = 2
  Block = 2
  MaxFailures = 2
  MaxWindows = 1
  MaxTries = 3
  MaxTime = 3
SYMMETRY Symmetry
CHECK_DEADLOCK FALSE
INVARIANT BlocksAreEarnedAndKept
PROPERTY VerdictsAreTrue
PROPERTY SessionsEndOnce
