\* The predicate of SaveIf is read before a concurrent Save commits.
SPECIFICATION Spec
CONSTANTS
  r1 = r1
  m1 = m1
  g1 = g1
  None = None
  n1 = n1
  Reqs = {r1}
  Sns = {}
  Loads <- OneLoad
  BlockSizes = {1}
  MaxHeight = 2
  MaxFork = 1
  MaxTx = 1
  Losable = {}
  Monitors = {m1}
  Results = {g1}
  MaxRows = 1
  MaxCrashes = 0
  Serializable = FALSE
PROPERTIES DoneStays
CHECK_DEADLOCK FALSE
