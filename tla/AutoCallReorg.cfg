\* One call or one rollback, replaced blocks, failing requests and saves, and the second
\* monitor that dropBlock starts; SaveIf reads first and writes later.
SPECIFICATION Spec
CONSTANTS
  r1 = r1
  m1 = m1
  m2 = m2
  g1 = g1
  None = None
  n1 = n1
  Reqs = {r1}
  Sns = {n1}
  Loads <- ReorgLoads
  BlockSizes = {1}
  MaxHeight = 3
  MaxFork = 2
  MaxTx = 1
  Losable = {}
  Monitors = {m1, m2}
  Results = {g1}
  MaxRows = 2
  MaxCrashes = 0
  Serializable = FALSE
SYMMETRY Symmetry
INVARIANTS FinalEventsOnChain
CHECK_DEADLOCK FALSE
