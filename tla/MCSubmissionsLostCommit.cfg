SPECIFICATION Spec
CONSTANTS
  Payloads = {e}
  EarlyAccess = {e}
  Handlers = {h1, h2}
  Tokens = {t1, t2, t3}
  Window = 2
  ReviewLifetime = 2
  Skew = 1
  AmbiguousCommit = TRUE
  MayStop = FALSE
  MaxClock = 3
  MaxFaults = 1
  NoToken = NoToken
  Idle = Idle
SYMMETRY Symmetry
INVARIANT
  AcceptedIsNotified
CHECK_DEADLOCK FALSE
