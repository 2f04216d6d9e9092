SPECIFICATION FairSpec
CONSTANTS
  Pages = {landing}
  Visitors = {v1, v2}
  Anonymous = Anonymous
  Handlers = {h1, h2, h3}
  MaxVisits = 3
  NoCounter = NoCounter
  Idle = Idle
INVARIANTS
  CountersExact
  WaitsAhead
PROPERTIES
  ImplementsVisitCounter
  VisitEnds
CHECK_DEADLOCK FALSE
