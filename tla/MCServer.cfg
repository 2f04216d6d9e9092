SPECIFICATION FairSpec
CONSTANTS
  Unset = Unset
  Blank = Blank
  Word = 32
  Second = 4
  Default <- Defaults
  Environments <- MCEnvironments
  Dotenvs <- MCDotenvs
  Conns = {c1, c2}
  Running = Running
INVARIANTS
  TypeOK
  ClosedDelivers
  LifetimesSound
  ExitHonest
PROPERTIES
  GraceGiven
  SignalEnds
CHECK_DEADLOCK FALSE
