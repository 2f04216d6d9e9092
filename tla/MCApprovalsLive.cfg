SPECIFICATION FairSpec
CONSTANTS
  Apps = {a1}
  Handlers = {h1, h2}
  Tokens = {t1, t2, t3, t4}
  ReviewLifetime = 2
  GrantLifetime = 1
  Skew = 1
  AmbiguousCommit = FALSE
  MaxClock = 1
  MaxFaults = 1
  NoClaim = NoClaim
  NoGrant = NoGrant
  Idle = Idle
PROPERTIES
  ApprovedIsMailed
  SpentIsSwept
CHECK_DEADLOCK FALSE
