CONSTANTS
  i1 = i1
  i2 = i2
  i3 = i3
  i4 = i4
  Input = {1, 2}
  Item <- MCItem
  Text <- MCText
  NoText = ""
  NoValue = NoValue
  Label <- MCLabel
  Within <- MCWithin
  Lists <- MCLists
SPECIFICATION Spec
PROPERTY ClosedByOutsideClick
CHECK_DEADLOCK FALSE
