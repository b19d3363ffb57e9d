\* Two subscriptions, two epochs, both kinds of supplier.
SPECIFICATION Spec
CONSTANTS
  s1 = s1
  s2 = s2
  None = None
  Subs = {s1, s2}
  Queries = {}
  BufferSize = 1
  Suppliers = {TRUE, FALSE}
  ServesOrphans = TRUE
  MaxHeight = 2
  MaxEpochs = 2
  MaxNotices = 2
SYMMETRY Symmetry
INVARIANTS TypeOK RegisteredIffOpen NoSilentLoss
PROPERTIES SameServerOrder FeedSpec
CHECK_DEADLOCK FALSE
