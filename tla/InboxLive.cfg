CONSTANTS
  p1 = p1
  p2 = p2
  p3 = p3
  c1 = c1
  c2 = c2
  Path <- TwoFiles
  Matching <- TwoFiles
  Deletable <- Files1
  Content <- TwoContents
  Size <- SameSize
  None = None
  Partial = Partial
  NoExtension <- None_
  Unsupported <- Files1
  QueueLimit = 4
  MaxChanges = 2
  MaxRestarts = 1
SPECIFICATION InboxFairSpec
PROPERTY InboxCatchesUp
CHECK_DEADLOCK FALSE
