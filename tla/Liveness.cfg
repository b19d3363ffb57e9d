\* Fair goroutines: a monitor with one subscription, two epochs and requests that may
\* fail, and a websocket session with either kind of source.
SPECIFICATION SpecLiveness
CONSTANTS
  s1 = s1
  None = None
  Subs = {s1}
  Queries = {}
  BufferSize = 1
  Suppliers = {FALSE}
  ServesOrphans = TRUE
  MaxHeight = 3
  MaxEpochs = 2
  MaxNotices = 6
  Sources = {TRUE, FALSE}
  MaxEvents = 2
INVARIANTS AnswerThenEvents
PROPERTIES CancelledEnds CatchesUp SessionEnds
CHECK_DEADLOCK FALSE
