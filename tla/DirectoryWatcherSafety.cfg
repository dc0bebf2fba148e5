CONSTANTS
  p1 = p1
  p2 = p2
  p3 = p3
  c1 = c1
  c2 = c2
  Path <- MCPath
  Matching <- MCMatching
  Deletable <- MCDeletable
  Content <- MCContent
  Size <- MCSize
  None = None
  QueueLimit = 2
  MaxChanges = 3
  MaxRestarts = 1
SPECIFICATION FairSpec
INVARIANTS TypeOK WaitListInv
PROPERTIES ImplementsSettleQueue WaitingFilesSettle EventsAreTaken
CHECK_DEADLOCK FALSE
