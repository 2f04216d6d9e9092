SPECIFICATION PSpec
CONSTANTS
  Grants = {g1}
  Claims = {c1, c2}
  Procs = {p1, p2}
  GrantLifetime = 4
  ClaimLifetime = 2
  Skew = 0
  MaxClock = 5
  NoClaim = NoClaim
  NoGrant = NoGrant
  NoCall = NoCall
SYMMETRY Symmetry
INVARIANT
  OneFarm
CHECK_DEADLOCK FALSE
