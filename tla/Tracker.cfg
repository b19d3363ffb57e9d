\* A two-way message between two networks; RECEIVE and REPLY may share a block.
SPECIFICATION Spec
CONSTANTS
  A = A
  B = B
  m1 = m1
  None = None
  Networks = {A, B}
  Messages = {m1}
  Journey <- Journeys
  Loads <- AnyFault
  MaxKeys = 2
  MaxBlockSize = 2
INVARIANTS TypeOK RecordedOnce NoBlockSkipped StatusShared FinalInFinalBlock LinksFollowJourney
CHECK_DEADLOCK FALSE
