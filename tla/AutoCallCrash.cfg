\* A call and a rollback, a crash, reconnections and lost transactions; no reorg.
SPECIFICATION Spec
CONSTANTS
  r1 = r1
  m1 = m1
  g1 = g1
  g2 = g2
  None = None
  n1 = n1
  Reqs = {r1}
  Sns = {n1}
  Loads <- CrashLoads
  BlockSizes = {1, 2}
  MaxHeight = 2
  MaxFork = 1
  MaxTx = 2
  Losable = {1}
  Monitors = {m1}
  Results = {g1, g2}
  MaxRows = 3
  MaxCrashes = 1
  Serializable = TRUE
SYMMETRY Symmetry
INVARIANTS TypeOK OneRowPerRequest OnlyOlderForgotten PanicNeedsReorg
PROPERTIES DoneStays
CHECK_DEADLOCK FALSE
