\* A two-way message between two networks; nothing fails.
SPECIFICATION Spec
CONSTANTS
  A = A
  B = B
  m1 = m1
  None = None
  Networks = {A, B}
  Messages = {m1}
  Journey <- Journeys
  Loads <- NoFault
  MaxKeys = 2
  MaxBlockSize = 1
PROPERTIES CompletedStays
CHECK_DEADLOCK FALSE
