------------------------------- MODULE Loops -------------------------------
(***************************************************************************)
(* The shape of the loops that the compiler emits for filters, as a        *)
(* condition on code, and the assumption that the code of every source     *)
(* meets it.  Code that does keeps its hands off the dumps it has returned *)
(* (DumpsNeverChange in LoopProofs).                                       *)
(***************************************************************************)
EXTENDS Evaluator

(* Before instruction i (from 1) of ops a TempDump comes in the text, and  *)
(* no PushDump between the two.                                            *)
Collecting(ops, i) ==
  \E j \in DOMAIN ops :
    /\ j < i /\ ops[j].op = "TempDump"
    /\ \A k \in DOMAIN ops : j < k /\ k < i => ops[k].op # "PushDump"

(* Goroutines are added between TempDump and PushDump, where no jump leads *)
(* from elsewhere; only the first chunk has loops and calls, which lead to *)
(* the other chunks and back.                                              *)
WellLooped(c) ==
  LET main == c.chunks[1]
  IN  /\ \A i \in DOMAIN main :
           /\ main[i].op = "AddGoroutine" => Collecting(main, i)
           /\ main[i].op \in Jumps /\ Collecting(main, main[i].arg + 1)
                => Collecting(main, i)
           /\ main[i].op = "Call" => main[i].arg # 0
           /\ main[i].op # "Return"
      /\ \A n \in 2..Len(c.chunks) : \A i \in DOMAIN c.chunks[n] :
           c.chunks[n][i].op \notin {"TempDump", "PushDump", "AddGoroutine", "Call"}

-----------------------------------------------------------------------------
(* The operands that the predicate of a filter has on the stack, above the *)
(* goroutine of its loop, before and after each instruction of ops; -1     *)
(* where no loop is running.  The first instruction finds start.           *)
Loads       == {"LoadNumber", "LoadString", "LoadFieldAccessor", "PushBool"}
Tests       == Comparisons \cup {"Contains", "In", "RegexMatches", "RegexNotMatches"}
Conditional == {"JumpIfFalse", "JumpIfTrue"}

DepthAfter(op, depth) ==
  IF op = "NextGoroutine" THEN 0
  ELSE IF depth = -1 THEN -1
  ELSE IF op \in Loads \cup {"Call"} THEN depth + 1
  ELSE IF op \in Tests \cup Conditional \cup {"JumpTo"} THEN depth - 1
  ELSE depth

Depths(ops, start) ==
  FoldLeft(LAMBDA ds, instr : Append(ds, DepthAfter(instr.op, Last(ds))), <<start>>, ops)

Tracks(ops, depth) ==
  /\ DOMAIN depth = 1..(Len(ops) + 1)
  /\ \A i \in DOMAIN depth : depth[i] \in Int /\ depth[i] >= -1
  /\ \A i \in DOMAIN ops : depth[i + 1] = DepthAfter(ops[i].op, depth[i])

IsNext(ops, i) == i \in DOMAIN ops /\ ops[i].op = "NextGoroutine"

(* A jump leads to where the depth is the one it leaves, or back to the    *)
(* NextGoroutine.                                                          *)
Lands(ops, depth, i) ==
  LET target == ops[i].arg + 1
      left   == IF ops[i].op \in Conditional THEN depth[i] - 1 ELSE depth[i]
  IN  /\ target \in 1..(Len(ops) + 1)
      /\ IF IsNext(ops, target) THEN left = 0 ELSE depth[target] = left

KnownFields == {".id", ".header", ".trace", ".lines", ".duration", ".state",
                ".createdBy", ".dups", ".labels"} \cup DOMAIN LabelOf

(* The instructions that a predicate is made of: they find their operands  *)
(* above the goroutine.                                                    *)
Evaluates(c, ops, depth, i) ==
  /\ ops[i].op \in Loads \cup Tests \cup Conditional \cup {"JumpTo"}
  /\ ops[i].op \in Tests => depth[i] >= 2
  /\ ops[i].op \in Conditional => depth[i] >= 1
  /\ ops[i].op \in Conditional \cup {"JumpTo"} => Lands(ops, depth, i)
  /\ ops[i].op = "LoadFieldAccessor" => c.constants[ops[i].arg + 1].str \in KnownFields

(* A chunk with a predicate returns with one operand more.                 *)
StackedPredicate(c, ops) ==
  LET depth == Depths(ops, 0)
  IN  /\ Tracks(ops, depth) /\ depth[1] = 0
      /\ \A i \in DOMAIN ops :
           \/ Evaluates(c, ops, depth, i)
           \/ ops[i].op = "Return" /\ depth[i] = 1

(* In the first chunk a loop is entered from its TempDump.  Within it come *)
(* only predicates, calls of predicates and an AddGoroutine, after which   *)
(* it is the turn of the next goroutine; outside, none of those that only  *)
(* loops have.                                                             *)
StackedLoop(c, ops, depth, i) ==
  /\ depth[i] >= 0 =>
       \/ Evaluates(c, ops, depth, i)
       \/ ops[i].op = "Call" /\ depth[i] = 0
       \/ /\ ops[i].op = "AddGoroutine" /\ depth[i] = 0
          /\ IsNext(ops, ops[i + 1].arg + 1) /\ ops[i + 1].op = "JumpTo"
  /\ depth[i] = -1 =>
       ops[i].op \notin Conditional \cup {"JumpTo", "Call", "AddGoroutine"}
  /\ IsNext(ops, i) =>
       /\ i > 1 /\ ops[i - 1].op = "TempDump" /\ depth[i] = -1
       /\ ops[i].arg + 1 \in DOMAIN depth /\ depth[ops[i].arg + 1] = -1
       /\ ~IsNext(ops, ops[i].arg + 1)

StackedMain(c, ops) ==
  LET depth == Depths(ops, -1)
  IN  /\ Tracks(ops, depth) /\ depth[1] = -1
      /\ \A i \in DOMAIN depth : depth[i] >= 0 => Collecting(ops, i)
      /\ \A i \in DOMAIN ops : StackedLoop(c, ops, depth, i)

WellStacked(c) ==
  /\ StackedMain(c, c.chunks[1])
  /\ \A n \in 2..Len(c.chunks) : StackedPredicate(c, c.chunks[n])

ASSUME LoopsAssumption ==
  \A s \in Sources :
    \/ Compiled[s] \in {CompileError, CompilePanic}
    \/ WellLooped(Compiled[s]) /\ WellStacked(Compiled[s])

=============================================================================
