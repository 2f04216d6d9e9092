SPECIFICATION Spec
CONSTANTS
  Apps = {a1, a2}
  Handlers = {h1, h2}
  Tokens = {t1, t2, t3, t4, t5}
  ReviewLifetime = 2
  GrantLifetime = 1
  Skew = 1
  AmbiguousCommit = FALSE
  MaxClock = 2
  MaxFaults = 2
  NoClaim = NoClaim
  NoGrant = NoGrant
  Idle = Idle
SYMMETRY Symmetry
INVARIANTS
  TypeOK
  ReviewForetells
  MailedItsGrant
  TokenKept
  NoStrayFiles
PROPERTIES
  DecisionStands
  ImplementsApplicationLife
CHECK_DEADLOCK FALSE
