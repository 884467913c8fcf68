SPECIFICATION MCFairSpec
CONSTANTS
  NoGoroutine = NoGoroutine
  CompileError = CompileError
  CompilePanic = CompilePanic
  Goroutines <- MCGoroutines
  Files <- MCFiles
  Precedes <- MCPrecedes
  Substrings <- MCSubstrings
  Regexes <- MCRegexes
  Matches <- MCMatches
  LabelOf <- MCLabelOf
  Directories <- MCDirectories
  Unwritable = {"ro"}
  Workdir = "/wd"
  StackSize = 5
  Gas = 40
  MaxEvals = 2
  Sources <- BytecodeSources
  Compiled <- BytecodeCompiled
INVARIANTS TypeOK
PROPERTIES EvalReturns
CHECK_DEADLOCK FALSE
