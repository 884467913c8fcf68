SPECIFICATION MCSpec
CONSTANTS
  NoGoroutine = NoGoroutine
  CompileError = CompileError
  CompilePanic = CompilePanic
  Goroutines <- MCGoroutines
  Files <- MCFiles
  Precedes <- MCPrecedes
  Substrings <- MCSubstrings
  Regexes <- MCRegexes
  Matches <- MCMatches
  LabelOf <- MCLabelOf
  Directories <- MCDirectories
  Unwritable = {"ro"}
  Workdir = "/wd"
  StackSize = 16
  Gas = 500
  MaxEvals = 3
  Sources <- PipelineSources
  Compiled <- PipelinesCompiled
  Workspaces <- MCWorkspaces
  Effects <- Meaning
INVARIANTS TypeOK NeverCrashes CompiledIsSafe IteratorAgrees TempDumpIsPrivate CollectsWhatItSaw DoesWhatItMeans
PROPERTIES DumpsImmutable ActsAsAWhole
CHECK_DEADLOCK FALSE
