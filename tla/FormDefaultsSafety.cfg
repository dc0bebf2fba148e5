CONSTANTS
  Item <- MCItem
  Value <- MCValue
  Null = ""
  Valid <- MCValid
  Source <- MCSource
  Text <- MCText
  Parse <- MCParse
  Bad = "bad"
  Provider <- MCProvider
  AppliesTo <- MCAppliesTo
  DependsOn <- MCDependsOn
  DefaultOf <- MCDefaultOf
  Embedded = TRUE
  NewInstance <- MCNew
  Settable <- MCSettable
  Nested = TRUE
  MaxCalls = 3
SPECIFICATION Spec
INVARIANTS TypeOK FieldHoldsValue ComputedFieldsFollow ValueEqualityTold
CHECK_DEADLOCK FALSE
