SPECIFICATION FairSpec
CONSTANTS
  NoGoroutine = NoGoroutine
  Goroutines <- MCGoroutines
  Inputs <- ForestInputs
INVARIANT CompleteInAnyOrder
CHECK_DEADLOCK FALSE
