CONSTANTS
  e = e
  i = i
  j = j
  f = f
  g = g
  h = h
  Node <- MCNode
  Root = e
  Container <- MCContainer
  Parent <- MCParent
  Name <- MCName
  PlanMode <- MCPlanMode
  UserModes <- MCUserModes
  ReactsTo <- MCReactsTo
  MaxCalls = 4
SPECIFICATION Spec
INVARIANTS TypeOK MembersInherit
CHECK_DEADLOCK FALSE
