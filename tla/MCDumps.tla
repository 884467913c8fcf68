------------------------------ MODULE MCDumps ------------------------------
(***************************************************************************)
(* Constants for the instances of Evaluator, and a shell that starts with  *)
(* two dumps in its workspace, as after a = load("a") and b = load("b").   *)
(* They share a goroutine, and each has a goroutine 2; no dump is sorted.  *)
(* A third file has a goroutine of its own, which is like goroutine 3.     *)
(***************************************************************************)
EXTENDS Evaluator

G(id, parent, state, duration, trace, labels) ==
  [id |-> id, createdBy |-> parent, state |-> state, duration |-> duration,
   trace |-> trace, hash |-> trace, lines |-> 2, header |-> state,
   labels |-> labels]

NoLabels == [l \in {} |-> ""]
JobLabel == [l \in {"job"} |-> "index"]

g1 == G(1, 0, "running", 0, "main", NoLabels)
g2 == G(2, 1, "select", 20, "grpc", JobLabel)
g3 == G(3, 2, "select", 5, "grpc", NoLabels)
h2 == G(2, 3, "select", 30, "main", JobLabel)
g4 == G(4, 2, "select", 5, "grpc", NoLabels)

MCGoroutines == {g1, g2, g3, g4, h2}

FileA == <<g1, g3, g2>>
FileB == <<h2, g3>>
FileD == <<g4>>

MCFiles == [path \in {"a", "b", "d", "none"} |->
              CASE path = "a" -> FileA [] path = "b" -> FileB
                [] path = "d" -> FileD [] OTHER -> <<>>]

MCPrecedes == {<<"running", "select">>, <<"grpc", "main">>}
MCSubstrings == {<<"grpc", "grpc">>, <<"main", "main">>, <<"rp", "grpc">>,
                 <<"", "grpc">>, <<"", "main">>}
MCRegexes == {"gr.c"}
MCMatches == {<<"gr.c", "grpc">>}
MCLabelOf == [f \in {".labels.job", ".labels.duration", ".labels.labels"} |->
                SubSeq(f, Len(".labels.") + 1, Len(f))]
MCDirectories == {"/wd", "/tmp"}

-----------------------------------------------------------------------------
(* A shell that has loaded both dumps.                                     *)
MCInit ==
  /\ status = "idle" /\ err = "none" /\ result = "none"
  /\ code = Code(<<>>, <<>>)
  /\ gas = Gas /\ frames = <<>> /\ stack = <<>>
  /\ heap = <<NewDump(FileA), NewDump(FileB)>>
  /\ env = [n \in {"a", "b"} |-> IF n = "a" THEN Dump(1) ELSE Dump(2)]
  /\ oldEnv = NoVariables
  /\ regGoroutine = NoGoroutine /\ regDumpDst = 0
  /\ pragma = NewPragma
  /\ cwd = Workdir /\ pcwd = Workdir
  /\ didShow = FALSE /\ shown = <<>>
  /\ src = (CHOOSE s \in Sources : TRUE)
  /\ evals = 0

MCSpec == MCInit /\ [][Next]_vars
MCFairSpec ==
  /\ MCSpec
  /\ WF_vars(Execute /\ UNCHANGED <<code, src, oldEnv, result, evals>>)
  /\ WF_vars(Finish)

=============================================================================
