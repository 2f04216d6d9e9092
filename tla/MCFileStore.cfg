SPECIFICATION Spec
CONSTANTS
  Tokens = {t1}
  Calls = {c1, c2}
  TempNames = {x1, x2, x3}
  MaxFaults = 3
  NoFile = NoFile
  NoAnswer = NoAnswer
  Idle = Idle
SYMMETRY Symmetry
INVARIANTS
  TypeOK
  PublishedWhole
  TempsAccounted
PROPERTIES
  ImplementsTokenStore
CHECK_DEADLOCK FALSE
