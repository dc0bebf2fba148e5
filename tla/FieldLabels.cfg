CONSTANTS
  amount1 = amount1
  amount2 = amount2
  date = date
  percent = percent
  dividend = dividend
  credit = credit
  other = other
  declared = declared
  Segment <- MCSegment
  Field <- MCField
  DocFields <- MCDocFields
  Applies <- MCApplies
  NoSegment = NoSegment
  NoField = NoField
SPECIFICATION Spec
INVARIANTS TypeOK LabelsAsked
CHECK_DEADLOCK FALSE
