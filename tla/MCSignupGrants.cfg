SPECIFICATION Spec
CONSTANTS
  Grants = {g1}
  Claims = {c1, c2}
  Procs = {p1, p2}
  GrantLifetime = 4
  ClaimLifetime = 2
  Skew = 1
  MaxClock = 5
  NoClaim = NoClaim
  NoGrant = NoGrant
  NoCall = NoCall
SYMMETRY Symmetry
INVARIANTS
  TypeOK
  RowsSatisfyCheck
  ReadsForetell
  LeasesDisjoint
  OneConsumer
PROPERTIES
  LeaseHeld
  TerminalFinal
  RefusalFinal
  ImplementsLifecycle
CHECK_DEADLOCK FALSE
