SPECIFICATION MCShellSpec
CONSTANTS
  NoGoroutine = NoGoroutine
  CompileError = CompileError
  CompilePanic = CompilePanic
  Goroutines <- MCGoroutines
  Files <- MCFiles
  Precedes <- MCPrecedes
  Substrings <- MCSubstrings
  Regexes <- MCRegexes
  Matches <- MCMatches
  LabelOf <- MCLabelOf
  Directories <- MCDirectories
  Unwritable = {"ro"}
  Workdir = "/wd"
  StackSize = 16
  Gas = 500
  MaxEvals = 2
  Sources <- MCShellSources
  Compiled <- MCShellCompiled
  Workspaces <- MCWorkspaces
  Effects <- Meaning
  TypedLines <- MCTypedLines
  Continues <- MCContinues
  SourceOf <- MCSourceOf
  Options <- MCOptions
INVARIANTS NeverCrashes HistoryKept ShowsThePage DoesWhatItMeans
PROPERTIES ConfirmedFirst ActsAsAWhole StopsItsSourceOnly ComesBack
CHECK_DEADLOCK FALSE
