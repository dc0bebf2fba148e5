CONSTANTS
  p1 = p1
  p2 = p2
  p3 = p3
  c1 = c1
  c2 = c2
  Path <- ThreeFiles
  Matching <- ThreeFiles
  Deletable <- Files1
  Content <- TwoContents
  Size <- SameSize
  None = None
  Partial = Partial
  NoExtension <- Files3
  Unsupported <- None_
  QueueLimit = 4
  MaxChanges = 2
  MaxRestarts = 1
SPECIFICATION InboxSpec
INVARIANTS InboxTypeOK SeenIsCataloged SourceIsWhole InboxIsUpToDate NoSecondImport
PROPERTY ImplementsDocumentInbox
SYMMETRY Interchangeable
CHECK_DEADLOCK FALSE
