CONSTANTS
  p1 = p1
  p2 = p2
  p3 = p3
  c1 = c1
  c2 = c2
  Path <- TwoFiles
  Matching <- TwoFiles
  Deletable <- Files1
  Content <- TwoContents
  Size <- SameSize
  None = None
  Partial = Partial
  NoExtension <- None_
  Unsupported <- None_
  QueueLimit = 4
  MaxChanges = 3
  MaxRestarts = 0
SPECIFICATION InboxSpec
INVARIANT SeenHasSource
SYMMETRY Interchangeable
CHECK_DEADLOCK FALSE
