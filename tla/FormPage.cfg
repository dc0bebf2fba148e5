CONSTANTS
  START_ADD = START_ADD
  CONFIRM_ADD = CONFIRM_ADD
  idle = idle
  adding = adding
  added = added
  name = name
  amount = amount
  good = good
  better = better
  bad = bad
  NoState = NoState
  State <- MCState
  Action <- MCAction
  Actions <- MCActions
  Transitions <- MCTransitions
  StartStates = {idle}
  Advances <- MCAdvances
  Listeners = 2
  Answering = {1, 2}
  MaxCalls = 3
  Item <- MCItem
  Order <- MCOrder
  Text <- MCText
  BadText = {bad}
  Blank = good
  FirstButton = START_ADD
  AlwaysShown = {START_ADD}
  MaxEdits = 3
SPECIFICATION Spec
INVARIANTS TypeOK FirstInStep ButtonsInStep RowsInStep RowsInOrder
CHECK_DEADLOCK FALSE
