------------------------------- MODULE Panics -------------------------------
(***************************************************************************)
(* When the machine cannot panic, as a condition on code that can be read  *)
(* off its text: vm.go checks neither the room on its stack nor that a     *)
(* register is set, a call leads somewhere or a value is what a multiple   *)
(* assignment takes it for, and leaves all of that to the compiler.        *)
(***************************************************************************)
EXTENDS Loops

(* What an instruction that goes on adds to the stack.  After a JumpTo the *)
(* text goes on where another jump leads, one operand lower.               *)
Effect(op) ==
  CASE op \in Loads \cup {"Dup", "LoadGoroutineDump", "PushDump", "Call",
                          "NextGoroutine"} -> 1
    [] op \in Tests \cup Conditional
                \cup {"JumpTo", "FuncUnion", "FuncIntersect", "FuncDiff",
                      "FuncGraph", "FuncToJSON", "FuncToDot"} -> -1
    [] op \in {"FuncSave", "FuncShowDump"} -> -2
    [] OTHER -> 0

(* How high the stack of the first chunk may be before each instruction,   *)
(* and after the last.  A loop ends with its dump popped, one lower than   *)
(* its NextGoroutine found it.                                             *)
Heights(ops) ==
  LET ending(at) == {i \in DOMAIN ops : i < at /\ IsNext(ops, i) /\ ops[i].arg + 1 = at}
      next(hs, op) == LET from == ending(Len(hs) + 1)
                      IN  IF from = {} THEN Last(hs) + Effect(op)
                          ELSE hs[CHOOSE i \in from : TRUE] - 1
  IN  FoldLeft(LAMBDA hs, instr : LET h == next(hs, instr.op)
                                  IN  Append(hs, IF h < 0 THEN 0 ELSE h),
               <<0>>, ops)

(* The instructions lead from height to height, a jump back to a           *)
(* NextGoroutine with the goroutine still on its dump.                     *)
Reaches(ops, height, i) ==
  LET target == ops[i].arg + 1
      left   == IF ops[i].op \in Conditional THEN height[i] - 1 ELSE height[i]
  IN  /\ ops[i].op # "JumpTo" => height[i + 1] >= height[i] + Effect(ops[i].op)
      /\ ops[i].op \in Conditional \cup {"JumpTo"} =>
           /\ target \in DOMAIN height
           /\ left <= height[target] + (IF IsNext(ops, target) THEN 1 ELSE 0)
      /\ IsNext(ops, i) =>
           target \in DOMAIN height /\ height[target] >= height[i] - 1

(* A call leads to a predicate, for which there is room above the caller's *)
(* operands.                                                               *)
CallsSafely(c, height, i) ==
  LET instr == c.chunks[1][i]
  IN  instr.op = "Call" =>
        /\ instr.arg < Len(c.chunks)
        /\ LET depth == Depths(c.chunks[instr.arg + 1], 0)
           IN  \A k \in DOMAIN depth : height[i] + depth[k] <= StackSize

HasRoom(c) ==
  LET main   == c.chunks[1]
      height == Heights(main)
  IN  /\ DOMAIN height = 1..(Len(main) + 1)
      /\ \A i \in DOMAIN height : height[i] \in 0..StackSize
      /\ \A i \in DOMAIN main : Reaches(main, height, i) /\ CallsSafely(c, height, i)

(* No instruction refers to the constant one past the last.                *)
FindsConstants(c) ==
  \A n \in DOMAIN c.chunks : \A i \in DOMAIN c.chunks[n] :
    c.chunks[n][i].op \in Fetches \cup {"CommandHelp"} =>
      Len(c.constants) = 0 \/ c.chunks[n][i].arg # Len(c.constants)

(* Several names are assigned a diff only.                                 *)
IsMulti(c, instr) ==
  /\ instr.op = "Assignment"
  /\ instr.arg < Len(c.constants) /\ c.constants[instr.arg + 1].tag = "multi"

AssignsDiffs(c) ==
  LET main == c.chunks[1]
  IN  \A i \in DOMAIN main : IsMulti(c, main[i]) =>
        /\ i > 1 /\ main[i - 1].op = "FuncDiff"
        /\ \A j \in DOMAIN main : IsNext(main, j) => main[j].arg + 1 # i

(* The register is read where a filter has set it.                         *)
HasDump(c) ==
  LET main == c.chunks[1]
  IN  \A i \in DOMAIN main :
        main[i].op \in {"ResetDump", "PushDump"} => Collecting(main, i)

PanicFree(c) == HasRoom(c) /\ FindsConstants(c) /\ AssignsDiffs(c) /\ HasDump(c)

-----------------------------------------------------------------------------
(* A panic of the machine is to be seen in the code before it runs: code   *)
(* that is free of them by its text never panics, whatever dumps, files,   *)
(* variables and settings it meets and whatever sources ran before.        *)
PanicsAreForeseen ==
  status = "crashed" => \/ Compiled[src] = CompilePanic
                        \/ /\ Compiled[src] # CompileError
                           /\ ~PanicFree(Compiled[src])

=============================================================================
