SPECIFICATION Spec
CONSTANTS
  Payloads = {e, w}
  EarlyAccess = {e}
  Handlers = {h1, h2}
  Tokens = {t1, t2}
  Window = 2
  ReviewLifetime = 2
  Skew = 1
  AmbiguousCommit = FALSE
  MayStop = TRUE
  MaxClock = 2
  MaxFaults = 1
  NoToken = NoToken
  Idle = Idle
SYMMETRY Symmetry
INVARIANTS
  TypeOK
  DuplicatesApart
  AcceptedIsStored
  FilesMatchRows
PROPERTIES
  ImplementsIntake
CHECK_DEADLOCK FALSE
