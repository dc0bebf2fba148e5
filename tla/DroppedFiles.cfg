CONSTANTS
  p1 = p1
  p2 = p2
  p3 = p3
  c1 = c1
  c2 = c2
  Path <- MCPath
  Matching <- MCMatching
  Deletable <- MCDeletable
  Content <- MCContent
  Size <- MCSize
  None = None
  QueueLimit = 4
  MaxChanges = 4
  MaxRestarts = 0
SPECIFICATION Spec
PROPERTY DroppedFilesAreGone
CHECK_DEADLOCK FALSE
