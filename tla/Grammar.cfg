SPECIFICATION MCSpec
CONSTANTS
  NoGoroutine = NoGoroutine
  CompileError = CompileError
  CompilePanic = CompilePanic
  Goroutines <- MCGoroutines
  Files <- MCFiles
  Precedes <- MCPrecedes
  Substrings <- MCSubstrings
  Regexes <- MCRegexes
  Matches <- MCMatches
  LabelOf <- MCLabelOf
  Directories <- MCDirectories
  Unwritable = {"ro"}
  Workdir = "/wd"
  StackSize = 16
  Gas = 500
  MaxEvals = 1
  Sources <- GrammarSources
  Compiled <- GrammarCompiled
  Workspaces <- MCWorkspaces
  Effects <- Meaning
INVARIANTS MeansWhatItSays MistakesAreErrors MistakesAreSafe PanicsAreForeseen
CHECK_DEADLOCK FALSE
