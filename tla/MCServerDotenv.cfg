SPECIFICATION Spec
CONSTANTS
  Unset = Unset
  Blank = Blank
  Word = 32
  Second = 4
  Default <- Defaults
  Environments <- MCEnvironments
  Dotenvs <- MCDotenvs
  Conns = {c1, c2}
  Running = Running
INVARIANT
  DotenvSkipped
CHECK_DEADLOCK FALSE
