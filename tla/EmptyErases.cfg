SPECIFICATION MCSpec
CONSTANTS
  NoGoroutine = NoGoroutine
  CompileError = CompileError
  CompilePanic = CompilePanic
  Goroutines <- MCGoroutines
  Files <- MCFiles
  Precedes <- MCPrecedes
  Substrings <- MCSubstrings
  Regexes <- MCRegexes
  Matches <- MCMatches
  LabelOf <- MCLabelOf
  Directories <- MCDirectories
  Unwritable = {"ro"}
  Workdir = "/wd"
  StackSize = 16
  Gas = 500
  MaxEvals = 2
  Sources <- EmptySources
  Compiled <- EmptyCompiled
  Workspaces <- MCWorkspaces
  Effects <- Meaning
PROPERTY EmptyErases
CHECK_DEADLOCK FALSE
