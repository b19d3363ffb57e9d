\* As FinalityConsumer.cfg, an Ethereum-type supplier, the property unguarded.
SPECIFICATION SpecC
CONSTANTS
  s1 = s1
  s2 = s2
  x1 = x1
  c1 = c1
  None = None
  Subs = {s1, s2, x1}
  ClientSubs = {x1}
  Queries = {c1}
  BufferSize = 1
  Suppliers = {FALSE}
  ServesOrphans = TRUE
  MaxHeight = 3
  MaxEpochs = 2
  MaxNotices = 2
INVARIANTS StateIsValid
CHECK_DEADLOCK FALSE
