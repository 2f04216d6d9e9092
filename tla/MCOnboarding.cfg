SPECIFICATION OSpec
CONSTANTS
  Grants = {g1}
  Claims = {c1, c2}
  Procs = {p1}
  Handlers = {h1, h2}
  Tokens = {t1, t2}
  GrantLifetime = 2
  ClaimLifetime = 1
  ReviewLifetime = 1
  Skew = 1
  AmbiguousCommit = FALSE
  MaxClock = 2
  MaxFaults = 1
  NoClaim = NoClaim
  NoGrant = NoGrant
  NoCall = NoCall
  Idle = Idle
SYMMETRY Symmetry
INVARIANTS
  FarmForApproved
PROPERTIES
  FarmRespectsOthers
  ImplementsApprovals
CHECK_DEADLOCK FALSE
