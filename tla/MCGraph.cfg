SPECIFICATION FairSpec
CONSTANTS
  NoGoroutine = NoGoroutine
  Goroutines <- MCGoroutines
  Inputs <- AllInputs
INVARIANTS TypeOK Sound NoDuplicates Complete ComputesInGraphOf
PROPERTY Terminates
CHECK_DEADLOCK FALSE
