CONSTANTS
  Item <- MCItem
  Value <- MCValue
  Null = ""
  Valid <- MCValid
  Source <- MCSource
  Text <- MCText
  Parse <- MCParse
  Bad = "bad"
  Provider <- MCProvider
  AppliesTo <- MCAppliesTo
  DependsOn <- MCDependsOn
  DefaultOf <- MCDefaultOf
  Embedded = FALSE
  NewInstance <- MCNew
  Settable <- MCAssigned
  Nested = FALSE
  MaxCalls = 1
SPECIFICATION Spec
INVARIANT AssignedValuesKept
CHECK_DEADLOCK FALSE
