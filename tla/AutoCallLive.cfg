\* Two calls, or a rollback, with a lost transaction and a crash, under fair scheduling.
SPECIFICATION FairSpec
CONSTANTS
  r1 = r1
  r2 = r2
  m1 = m1
  g1 = g1
  g2 = g2
  None = None
  n1 = n1
  Reqs = {r1, r2}
  Sns = {n1}
  Loads <- LiveLoads
  BlockSizes = {1}
  MaxHeight = 3
  MaxFork = 1
  MaxTx = 5
  Losable = {1}
  Monitors = {m1}
  Results = {g1, g2}
  MaxRows = 2
  MaxCrashes = 1
  Serializable = TRUE
PROPERTIES ExecutedIsRecorded LostIsRetried
CHECK_DEADLOCK FALSE
