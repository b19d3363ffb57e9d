\* One consumer, one independent client, both types of supplier.
SPECIFICATION SpecC
CONSTANTS
  s1 = s1
  s2 = s2
  x1 = x1
  c1 = c1
  None = None
  Subs = {s1, s2, x1}
  ClientSubs = {x1}
  Queries = {c1}
  BufferSize = 1
  Suppliers = {TRUE, FALSE}
  ServesOrphans = TRUE
  MaxHeight = 2
  MaxEpochs = 2
  MaxNotices = 2
INVARIANTS AnswersSound StateIsValidWhileStartedOnce
CHECK_DEADLOCK FALSE
