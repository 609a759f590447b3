SPECIFICATION Spec
CONSTANTS
  Prefix <- MCPrefix
  HeaderLength = 3
  LengthAt = 3
  TrailerLength = 1
  MaxLine = 4
  MaxFrame = 6
  Newline = 9
  Items <- MCItems
  Committing <- MCCommitting
  ClockSize = 8
  BootInterval = 2
  LoadedInterval = 3
  ResetInterval = 5
  PollInterval = 1
  Debounce = 2
  Budgets <- MCBudgets
INVARIANTS
  WholeItemsArrive
  NeverAheadOfTime
