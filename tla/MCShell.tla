------------------------------ MODULE MCShell -------------------------------
(***************************************************************************)
(* An instance of Shell: the sources of a session, each on a line, and one *)
(* that is typed on two, after the program was started with options or in  *)
(* a shell that has loaded two dumps.                                      *)
(***************************************************************************)
EXTENDS Shell, MCEvaluator

(* "c = b.where(" and what may follow on the next line.                    *)
Opening == Verbatim(<<Id("c"), Mark("Assign"), Id("b"), Tok("Method", "where"),
                      Mark("LeftParen")>>)
Closing == Verbatim(PredicateTokens(Select) \o <<Mark("RightParen")>>)

(* Pages that begin or end at, before and after the end of a dump of three *)
(* goroutines, two of them alike.  Limit and offset are the same, or not   *)
(* given: where they differ, the code reads one as the other.              *)
Pages == {Page(Method(vb, "union", vd), ns) : ns \in {<<>>, <<1, 1>>, <<2, 2>>, <<3, 3>>}}

MCTypedLines == SessionSources \cup Pages \cup {Opening, Closing}
MCContinues  == {Opening}

(* Lines that together are a well-formed source are that source.           *)
Joined(lines) ==
  IF lines = <<Opening, Closing>> THEN Assign("c", Method(vb, "where", Select))
  ELSE IF Len(lines) = 1 THEN lines[1]
  ELSE Verbatim(FoldLeft(LAMBDA ts, line : ts \o TokensOf(line), <<>>, lines))

MCSourceOf ==
  [lines \in {<<>>} \cup {<<line>> : line \in MCTypedLines}
               \cup {<<Opening, Closing>>, <<Opening, Command("empty")>>} |->
     Joined(lines)]

MCOptions ==
  {[sources |-> <<>>, interactive |-> TRUE],
   [sources |-> <<Set(Key(".exit", ".confirm"), Id("false"))>>, interactive |-> TRUE],
   [sources |-> <<Set(Key(".exit", ".confirm"), Id("no"))>>, interactive |-> TRUE],
   [sources |-> <<Set(Key(".empty", ".confirm"), Id("false")),
                  Assign("c", LoadFrom("b"))>>, interactive |-> FALSE],
   [sources |-> <<Command("exit")>>, interactive |-> FALSE]}

MCShellSources == {MCSourceOf[lines] : lines \in DOMAIN MCSourceOf}
MCShellCompiled == LET sources == MCShellSources IN MCCompiled(sources)

-----------------------------------------------------------------------------
(* The shell after a = load("a") and b = load("b").                        *)
LoadedInit ==
  /\ MCInit
  /\ options = <<>> /\ interactive = TRUE
  /\ shell = "between" /\ gathered = <<>>
  /\ canceled = FALSE /\ pressed = FALSE
  /\ historyFile = "old" /\ exitCode = 0

MCShellInit ==
  \/ ShellInit /\ src = (CHOOSE s \in Sources : TRUE)
  \/ LoadedInit

MCShellSpec == MCShellInit /\ [][ShellNext]_shellVars /\ ShellFairness

=============================================================================
