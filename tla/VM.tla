--------------------------------- MODULE VM ---------------------------------
(***************************************************************************)
(* The stack machine of vm.go that runs a compiled source: one action per  *)
(* opcode, one step per iteration of the loop in Run.                      *)
(*                                                                         *)
(* A *GoroutineDump is an index into heap, the sequence of the dumps       *)
(* allocated so far, so that two variables, a stack slot and a register    *)
(* may share one dump as they share a pointer in the program.  Strings are *)
(* opaque: Go's order, substrings and regular expressions are relations    *)
(* given as constants.  What the machine prints is left out, except for    *)
(* the goroutines a show prints.                                           *)
(***************************************************************************)
EXTENDS GoroutineDump, Values

CONSTANTS
  Goroutines,  \* the goroutines a dump may hold
  StackSize,   \* defaultStackLimit
  Gas,         \* defaultGas
  Precedes,    \* <<s, t>>: s < t in Go's order of strings
  Substrings,  \* <<part, whole>>
  Regexes,     \* the strings regexp.Compile accepts
  Matches,     \* <<regex, string>>
  LabelOf,     \* the label key of each field name that starts with .labels
  Files,       \* what load makes of the files that hold a dump
  Unwritable,  \* the paths os.Create fails on
  Directories  \* the paths cd can change to

ASSUME VMAssumption ==
  /\ StackSize \in Nat /\ Gas \in Nat
  /\ NoGoroutine \notin Goroutines
  /\ \A g \in Goroutines :
       /\ {g.id, g.createdBy, g.lines, g.duration} \subseteq Nat
       /\ {g.header, g.trace, g.state} \subseteq STRING
       /\ \A l \in DOMAIN g.labels : g.labels[l] \in STRING
  /\ \A path \in DOMAIN Files : Files[path] \in Seq(Goroutines)
  /\ Directories \subseteq STRING

(* The errors of the machine and the other texts it makes up.  (No prover  *)
(* knows of a literal that it is a string.)                                *)
Errors == {"none", "Canceled", "ErrEmptyStack", "ErrInvalidType", "ErrNoSuchEnv",
           "ErrExpectedConstantValueByte", "ErrNotIterating", "ErrExpectedDiffAssign",
           "MismatchedTypes", "InvalidRegex", "ErrUnexpectedStackState", "io",
           "ErrCommandOk", "ConfirmEmpty", "ConfirmQuit", "ErrCommandQuit",
           "NotAHelpTopic", "ErrInvalidOpArg", "ErrNoSuchPragma", "ErrOutOfGas"}

ASSUME TextsAssumption == Errors \cup {"", "ids", "count", "<nil>"} \subseteq STRING

VARIABLES
  status,        \* "idle", or "running" in Run, "returned" from it, "crashed"
                 \* by a panic; "confirm" and "stopped" are the REPL's
  err,           \* the error Run returns: its Go variable, or a name for it
  code,          \* the code being run
  gas,           \* instructions left
  frames,        \* the call stack; the last one is the current frame
  stack,         \* the operand stack; its top is the last element
  env,           \* the variables of the workspace
  heap,          \* every dump allocated so far
  regGoroutine,  \* the goroutine of the current iteration, or NoGoroutine
  regDumpDst,    \* the dump a filter collects into, 0 when nil
  pragma,        \* the settings
  cwd, pcwd,     \* the working directory and the one before it
  didShow,       \* the source printed its own output
  shown          \* the goroutines the last show of this source printed

control   == <<status, err, gas, frames, stack>>
registers == <<regGoroutine, regDumpDst>>
settings  == <<pragma, cwd, pcwd>>
output    == <<didShow, shown>>
vmVars    == <<control, code, env, heap, registers, settings, output>>

-----------------------------------------------------------------------------
(* What NewVM and NewGoroutineDump make.                                   *)
NoVariables == [name \in {} |-> Bool(FALSE)]

NewDump(gs) == [goroutines |-> gs, iterIndex |-> 0, isIndexed |-> FALSE]

Settings == {"empty.confirm", "exit.confirm", "show.color", "show.count",
             "ls.format", "show.dedup", "vars.display", "debug.disassemble"}

NewPragma == [s \in Settings |->
  CASE s \in {"empty.confirm", "exit.confirm", "show.color"} -> Bool(TRUE)
    [] s = "show.count" -> Number(0)
    [] s = "ls.format" -> Str("")
    [] s = "show.dedup" -> Str("ids")
    [] s = "vars.display" -> Str("count")
    [] s = "debug.disassemble" -> Str("none")]

-----------------------------------------------------------------------------
(* The instruction the next iteration of Run retires.                      *)
Frame    == frames[Len(frames)]
Ops      == code.chunks[Frame.chunk]
NextIp   == Frame.ip + 1
Instr    == Ops[NextIp + 1]
Constant == code.constants[Instr.arg + 1]

Ready == status = "running" /\ gas > 1 /\ NextIp < Len(Ops)

\* Mutant: an instruction that is not the last one is free.
GoToForFree(ip, s) ==
  /\ frames' = [frames EXCEPT ![Len(frames)].ip = ip]
  /\ stack' = s
  /\ UNCHANGED <<status, err, gas>>

(* How an instruction ends: it goes on at ip with s on the stack, returns  *)
(* an error (what it left on the stack is never read), or panics.          *)
GoTo(ip, s) ==
  /\ frames' = [frames EXCEPT ![Len(frames)].ip = ip]
  /\ stack' = s
  /\ gas' = gas - 1
  /\ UNCHANGED <<status, err>>

Advance(s) == GoTo(NextIp, s)

Fail(e) ==
  /\ status' = "returned"
  /\ err' = e
  /\ gas' = gas - 1
  /\ UNCHANGED <<frames, stack>>

Crash == status' = "crashed" /\ UNCHANGED <<err, gas, frames, stack>>

Push(s, v) == IF Len(s) < StackSize THEN Advance(Append(s, v)) ELSE Crash

(* The n-th value from the top, and the stack without the top n.           *)
Nth(n)  == stack[Len(stack) + 1 - n]
Rest(n) == SubSeq(stack, 1, Len(stack) - n)

GoroutinesOf(v) == heap[v.ref].goroutines

-----------------------------------------------------------------------------
(* What the instructions require.  Operands lists the tags of the values   *)
(* they pop or peek, from the top; "any" is not checked.                   *)
Comparisons ==
  {"Equal", "NotEqual", "Less", "LessEqual", "Greater", "GreaterEqual"}

Operands(op) ==
  CASE op \in {"Dup", "Assignment"} -> <<"any">>
    [] op \in Comparisons \cup {"Contains", "In"} -> <<"any", "any">>
    [] op \in {"RegexMatches", "RegexNotMatches"} -> <<"string", "string">>
    [] op \in {"JumpIfFalse", "JumpIfTrue"} -> <<"bool">>
    [] op \in {"FuncUnion", "FuncIntersect", "FuncDiff", "FuncGraph"} ->
         <<"dump", "dump">>
    [] op \in {"FuncSave", "FuncToJSON", "FuncToDot"} -> <<"string", "dump">>
    [] op = "FuncShowDump" -> <<"number", "number", "dump">>
    [] op \in {"FuncLoad", "CommandGetPragma", "CommandSetPragma"} ->
         <<"string">>
    [] OTHER -> <<>>

Fits(tags) ==
  \A i \in DOMAIN tags : i <= Len(stack) => tags[i] \in {"any", Nth(i).tag}

HasOperands == LET tags == Operands(Instr.op)
               IN  Len(tags) <= Len(stack) /\ Fits(tags)

(* The tags the constant an instruction refers to may have.                *)
ConstantTags(op) ==
  CASE op = "LoadNumber" -> {"number"}
    [] op = "Assignment" -> {"string", "multi"}
    [] OTHER -> {"string"}

Fetches == {"LoadNumber", "LoadString", "LoadGoroutineDump",
            "LoadFieldAccessor", "Assignment", "CommandChangeDir"}

HasConstant ==
  /\ Instr.arg < Len(code.constants)
  /\ Constant.tag \in ConstantTags(Instr.op)

At(op) ==
  /\ Ready
  /\ Instr.op = op
  /\ HasOperands
  /\ op \in Fetches => HasConstant

(* popExpect and peek, when they fail.  An assignment reads its constant   *)
(* first.                                                                  *)
BadOperands ==
  /\ Ready
  /\ Instr.op \in Fetches => HasConstant
  /\ ~HasOperands
  /\ Fail(IF Fits(Operands(Instr.op)) THEN "ErrEmptyStack"
                                      ELSE "ErrInvalidType")
  /\ UNCHANGED <<env, heap, registers, settings, output>>

(* fetchConstant and fetchString, when they fail.  The index one past the  *)
(* end gets through the test and panics.                                   *)
BadConstant ==
  /\ Ready /\ Instr.op \in Fetches
  /\ ~HasConstant
  /\ LET size == Len(code.constants)
     IN  IF size = 0 \/ Instr.arg > size
           THEN Fail("ErrExpectedConstantValueByte")
         ELSE IF Instr.arg = size THEN Crash
         ELSE Fail("ErrInvalidType")
  /\ UNCHANGED <<env, heap, registers, settings, output>>

-----------------------------------------------------------------------------
(* Loads and stores.                                                       *)
Noop ==
  /\ At("Noop")
  /\ Advance(stack)
  /\ UNCHANGED <<env, heap, registers, settings, output>>

Dup ==
  /\ At("Dup")
  /\ Push(stack, Nth(1))
  /\ UNCHANGED <<env, heap, registers, settings, output>>

LoadConstant ==
  /\ At("LoadNumber") \/ At("LoadString")
  /\ Push(stack, Constant)
  /\ UNCHANGED <<env, heap, registers, settings, output>>

PushBool ==
  /\ At("PushBool")
  /\ Push(stack, Bool(Instr.arg = 1))
  /\ UNCHANGED <<env, heap, registers, settings, output>>

LoadGoroutineDump ==
  /\ At("LoadGoroutineDump")
  /\ LET name == Constant.str
     IN  \/ name \notin DOMAIN env /\ Fail("ErrNoSuchEnv")
         \/ /\ name \in DOMAIN env
            /\ IF env[name].tag = "dump" THEN Push(stack, env[name])
                                         ELSE Fail("ErrInvalidType")
  /\ UNCHANGED <<env, heap, registers, settings, output>>

(* What a field accessor pushes: nothing for a field it does not know.     *)
(* Nothing ever fills the duplicates of a goroutine.                       *)
Field(g, name) ==
  CASE name = ".id"        -> <<Number(g.id)>>
    [] name = ".header"    -> <<Str(g.header)>>
    [] name = ".trace"     -> <<Str(g.trace)>>
    [] name = ".lines"     -> <<Number(g.lines)>>
    [] name = ".duration"  -> <<Number(g.duration)>>
    [] name = ".state"     -> <<Str(g.state)>>
    [] name = ".createdBy" -> <<Number(g.createdBy)>>
    [] name = ".dups"      -> <<Number(0)>>
    [] name = ".labels"    -> <<Map(g.labels)>>
    [] name \in DOMAIN LabelOf ->
         <<Str(IF LabelOf[name] \in DOMAIN g.labels
               THEN g.labels[LabelOf[name]] ELSE "<nil>")>>
    [] OTHER               -> <<>>

LoadFieldAccessor ==
  /\ At("LoadFieldAccessor")
  /\ \/ regGoroutine = NoGoroutine /\ Fail("ErrNotIterating")
     \/ /\ regGoroutine # NoGoroutine
        /\ LET field == Field(regGoroutine, Constant.str)
           IN  IF field = <<>> THEN Advance(stack)
                               ELSE Push(stack, field[1])
  /\ UNCHANGED <<env, heap, registers, settings, output>>

Bind(e, name, v) ==
  [n \in DOMAIN e \cup {name} |-> IF n = name THEN v ELSE e[n]]

(* One target of a multiple assignment.                                    *)
BindTarget(e, target, ref) ==
  LET name == code.constants[target + 1].str
  IN  IF name = "_" THEN e ELSE Bind(e, name, Dump(ref))

Assignment ==
  /\ At("Assignment")
  /\ Constant.tag = "string"
  /\ env' = Bind(env, Constant.str, Nth(1))
  /\ Advance(stack)
  /\ UNCHANGED <<heap, registers, settings, output>>

(* handleMultiAssignment.  For a dump it reads one slot above the top of   *)
(* the stack, which is out of range; other values it leaves alone.         *)
AssignMulti ==
  /\ At("Assignment")
  /\ Constant.tag = "multi"
  /\ LET names == Constant.targets
         top == Nth(1)
     IN  \/ /\ top.tag = "diff" /\ Len(names) = 3
            /\ env' = BindTarget(BindTarget(BindTarget(env,
                        names[1], top.left),
                        names[2], top.common),
                        names[3], top.right)
            /\ Advance(stack)
         \/ /\ top.tag = "diff" /\ Len(names) # 3
            /\ Fail("ErrExpectedDiffAssign") /\ UNCHANGED env
         \/ /\ top.tag = "dump"
            /\ Crash /\ UNCHANGED env
         \/ /\ top.tag \notin {"diff", "dump"}
            /\ Advance(stack) /\ UNCHANGED env
  /\ UNCHANGED <<heap, registers, settings, output>>

-----------------------------------------------------------------------------
(* Comparisons.                                                            *)
Ordered(op, less, equal) ==
  CASE op = "Equal"        -> equal
    [] op = "NotEqual"     -> ~equal
    [] op = "Less"         -> less
    [] op = "LessEqual"    -> less \/ equal
    [] op = "Greater"      -> ~less /\ ~equal
    [] op = "GreaterEqual" -> ~less

(* Values that are neither numbers nor strings never compare as true.      *)
Compare(op, left, right) ==
  CASE left.tag = "number" ->
         Ordered(op, left.num < right.num, left.num = right.num)
    [] left.tag = "string" ->
         Ordered(op, <<left.str, right.str>> \in Precedes, left.str = right.str)
    [] OTHER -> FALSE

Comparison ==
  /\ \E op \in Comparisons : At(op)
  /\ LET right == Nth(1)
         left  == Nth(2)
     IN  IF left.tag = right.tag
         THEN Push(Rest(2), Bool(Compare(Instr.op, left, right)))
         ELSE Fail("MismatchedTypes")
  /\ UNCHANGED <<env, heap, registers, settings, output>>

ContainsOrIn ==
  /\ At("Contains") \/ At("In")
  /\ LET container == IF Instr.op = "Contains" THEN Nth(2) ELSE Nth(1)
         contained == IF Instr.op = "Contains" THEN Nth(1) ELSE Nth(2)
     IN  IF /\ container.tag \in {"string", "map"}
            /\ contained.tag = "string"
         THEN Push(Rest(2), Bool(
                IF container.tag = "string"
                THEN <<contained.str, container.str>> \in Substrings
                ELSE contained.str \in DOMAIN container.labels))
         ELSE Fail("ErrInvalidType")
  /\ UNCHANGED <<env, heap, registers, settings, output>>

RegexMatches ==
  /\ At("RegexMatches") \/ At("RegexNotMatches")
  /\ LET regex == Nth(1).str
         matches == <<regex, Nth(2).str>> \in Matches
     IN  IF regex \in Regexes
         THEN Push(Rest(2), Bool(matches <=> Instr.op = "RegexMatches"))
         ELSE Fail("InvalidRegex")
  /\ UNCHANGED <<env, heap, registers, settings, output>>

-----------------------------------------------------------------------------
(* Control flow.  An address is 0-based; GoTo stops one before it because  *)
(* the next iteration adds one.                                            *)
ConditionalJump ==
  /\ At("JumpIfFalse") \/ At("JumpIfTrue")
  /\ IF Nth(1).bool <=> Instr.op = "JumpIfTrue"
     THEN GoTo(Instr.arg - 1, Rest(1))
     ELSE Advance(Rest(1))
  /\ UNCHANGED <<env, heap, registers, settings, output>>

JumpTo ==
  /\ At("JumpTo")
  /\ GoTo(Instr.arg - 1, stack)
  /\ UNCHANGED <<env, heap, registers, settings, output>>

Call ==
  /\ At("Call")
  /\ IF Instr.arg < Len(code.chunks)
     THEN /\ frames' = Append([frames EXCEPT ![Len(frames)].ip = NextIp],
                              [chunk |-> Instr.arg + 1, ip |-> -1,
                               returnAddr |-> NextIp])
          /\ gas' = gas - 1
          /\ UNCHANGED <<status, err, stack>>
     ELSE Crash
  /\ UNCHANGED <<env, heap, registers, settings, output>>

\* Mutant: the run goes on with the call, not after it.
ReturnToCall ==
  /\ At("Return")
  /\ IF Len(frames) > 1
     THEN /\ frames' = [SubSeq(frames, 1, Len(frames) - 1)
                          EXCEPT ![Len(frames) - 1].ip = Frame.returnAddr - 1]
          /\ gas' = gas - 1
          /\ UNCHANGED <<status, err, stack>>
     ELSE Crash
  /\ UNCHANGED <<env, heap, registers, settings, output>>

(* Returning from the first frame leaves no frame to go back to.           *)
Return ==
  /\ At("Return")
  /\ IF Len(frames) > 1
     THEN /\ frames' = [SubSeq(frames, 1, Len(frames) - 1)
                          EXCEPT ![Len(frames) - 1].ip = Frame.returnAddr]
          /\ gas' = gas - 1
          /\ UNCHANGED <<status, err, stack>>
     ELSE Crash
  /\ UNCHANGED <<env, heap, registers, settings, output>>

-----------------------------------------------------------------------------
(* Filters.  A filter collects into the dump in regDumpDst while it walks  *)
(* the dump on the stack; between two iterations the goroutine of the last *)
(* one lies on top of that dump.                                           *)
\* Mutant: a filter collects into the dump of the filter before it.
TempDumpAgain ==
  /\ At("TempDump")
  /\ IF regDumpDst = 0
     THEN /\ heap' = Append(heap, NewDump(<<>>))
          /\ regDumpDst' = Len(heap) + 1
     ELSE /\ heap' = [heap EXCEPT ![regDumpDst].goroutines = <<>>]
          /\ UNCHANGED regDumpDst
  /\ Advance(stack)
  /\ UNCHANGED <<env, regGoroutine, settings, output>>

TempDump ==
  /\ At("TempDump")
  /\ heap' = Append(heap, NewDump(<<>>))
  /\ regDumpDst' = Len(heap) + 1
  /\ Advance(stack)
  /\ UNCHANGED <<env, regGoroutine, settings, output>>

(* StartIter; on the nil dump it panics.                                   *)
ResetDump ==
  /\ At("ResetDump")
  /\ \/ regDumpDst = 0 /\ Crash /\ UNCHANGED heap
     \/ /\ regDumpDst # 0
        /\ heap' = [heap EXCEPT ![regDumpDst].iterIndex = 0]
        /\ Advance(stack)
  /\ UNCHANGED <<env, registers, settings, output>>

PushDump ==
  /\ At("PushDump")
  /\ \/ regDumpDst = 0 /\ Crash /\ UNCHANGED heap
     \/ /\ regDumpDst # 0
        /\ heap' = [heap EXCEPT ![regDumpDst].iterIndex = 0]
        /\ Push(stack, Dump(regDumpDst))
  /\ UNCHANGED <<env, registers, settings, output>>

\* Mutant: the goroutine goes to the front.
AddGoroutineFirst ==
  /\ At("AddGoroutine")
  /\ heap' = [heap EXCEPT ![regDumpDst].goroutines = <<regGoroutine>> \o @]
  /\ Advance(stack)
  /\ UNCHANGED <<env, registers, settings, output>>

(* Add panics on the nil dump and on a dump that was indexed.  It would    *)
(* add a nil goroutine, on which the first use of the dump panics; here    *)
(* that panic comes at once.                                               *)
AddGoroutine ==
  /\ At("AddGoroutine")
  /\ IF \/ regDumpDst = 0 \/ regGoroutine = NoGoroutine
        \/ heap[regDumpDst].isIndexed
     THEN Crash /\ UNCHANGED heap
     ELSE /\ heap' = [heap EXCEPT ![regDumpDst].goroutines =
                                    Append(@, regGoroutine)]
          /\ Advance(stack)
  /\ UNCHANGED <<env, registers, settings, output>>

\* Mutant: the register is set by the first iteration only.
IterateWithoutRegister(ref, iterIndex, s) ==
  IF iterIndex < Len(heap[ref].goroutines)
  THEN LET g == heap[ref].goroutines[iterIndex + 1]
       IN  /\ heap' = [heap EXCEPT ![ref].iterIndex = iterIndex + 1]
           /\ regGoroutine' = IF iterIndex = 0 THEN g ELSE regGoroutine
           /\ Push(s, Goroutine(g))
  ELSE /\ heap' = [heap EXCEPT ![ref].iterIndex = iterIndex]
       /\ regGoroutine' = NoGoroutine
       /\ GoTo(Instr.arg - 1, SubSeq(s, 1, Len(s) - 1))

(* The next goroutine of the dump whose reference is ref, with the stack   *)
(* s that ends in that dump; or the end of the loop.                       *)
Iterate(ref, iterIndex, s) ==
  IF iterIndex < Len(heap[ref].goroutines)
  THEN LET g == heap[ref].goroutines[iterIndex + 1]
       IN  /\ heap' = [heap EXCEPT ![ref].iterIndex = iterIndex + 1]
           /\ regGoroutine' = g
           /\ Push(s, Goroutine(g))
  ELSE /\ heap' = [heap EXCEPT ![ref].iterIndex = iterIndex]
       /\ regGoroutine' = NoGoroutine
       /\ GoTo(Instr.arg - 1, SubSeq(s, 1, Len(s) - 1))

(* The tag of the n-th value from the top, if there is one.                *)
TagOf(n) == IF n <= Len(stack) THEN Nth(n).tag ELSE "none"

NextGoroutine ==
  /\ At("NextGoroutine")
  /\ \/ /\ TagOf(1) = "dump"
        /\ Iterate(Nth(1).ref, 0, stack)
     \/ /\ TagOf(1) = "goroutine" /\ TagOf(2) = "dump"
        /\ Iterate(Nth(2).ref, heap[Nth(2).ref].iterIndex, Rest(1))
     \/ /\ TagOf(1) = "goroutine" /\ TagOf(2) \notin {"dump", "none"}
        /\ Fail("ErrInvalidType")
        /\ UNCHANGED <<heap, regGoroutine>>
     \/ /\ \/ TagOf(1) \notin {"dump", "goroutine"}
           \/ TagOf(1) = "goroutine" /\ TagOf(2) = "none"
        /\ Fail("ErrUnexpectedStackState")
        /\ UNCHANGED <<heap, regGoroutine>>
  /\ UNCHANGED <<env, regDumpDst, settings, output>>

-----------------------------------------------------------------------------
(* The functions of the language.  Each replaces its operands by a dump    *)
(* that it allocates.                                                      *)
PushNew(s, gs, indexed) ==
  /\ heap' = Append(heap, [NewDump(gs) EXCEPT !.isIndexed = indexed])
  /\ Push(s, Dump(Len(heap) + 1))

\* Mutant: union adds to its left operand.
FuncUnionInPlace ==
  /\ At("FuncUnion")
  /\ \E gs \in Sortings(GoroutinesOf(Nth(1)) \o GoroutinesOf(Nth(2))) :
       heap' = [heap EXCEPT ![Nth(2).ref].goroutines = gs]
  /\ Push(Rest(2), Nth(2))
  /\ UNCHANGED <<env, registers, settings, output>>

FuncUnion ==
  /\ At("FuncUnion")
  /\ \E gs \in Sortings(GoroutinesOf(Nth(1)) \o GoroutinesOf(Nth(2))) :
       PushNew(Rest(2), gs, FALSE)
  /\ UNCHANGED <<env, registers, settings, output>>

FuncIntersect ==
  /\ At("FuncIntersect")
  /\ PushNew(Rest(2), Shared(GoroutinesOf(Nth(1)), GoroutinesOf(Nth(2))), FALSE)
  /\ UNCHANGED <<env, registers, settings, output>>

FuncDiff ==
  /\ At("FuncDiff")
  /\ LET left  == GoroutinesOf(Nth(2))
         right == GoroutinesOf(Nth(1))
         size  == Len(heap)
     IN  /\ heap' = heap \o << NewDump(Missing(left, right)),
                               NewDump(DiffCommon(left, right)),
                               NewDump(Missing(right, left)) >>
         /\ Push(Rest(2), Diff(size + 1, size + 2, size + 3))
  /\ UNCHANGED <<env, registers, settings, output>>

(* The dump to search lies below the goroutines the filter kept of it.     *)
FuncGraph ==
  /\ At("FuncGraph")
  /\ \E gs \in Sortings(InGraphOf(GoroutinesOf(Nth(2)), GoroutinesOf(Nth(1)))) :
       PushNew(Rest(2), gs, TRUE)
  /\ UNCHANGED <<env, registers, settings, output>>

FuncLoad ==
  /\ At("FuncLoad")
  /\ LET path == Nth(1).str
     IN  \/ path \in DOMAIN Files /\ PushNew(Rest(1), Files[path], FALSE)
         \/ path \notin DOMAIN Files /\ Fail("io") /\ UNCHANGED heap
  /\ UNCHANGED <<env, registers, settings, output>>

FuncSave ==
  /\ At("FuncSave")
  /\ IF Nth(1).str \in Unwritable THEN Fail("io") ELSE Advance(Rest(2))
  /\ UNCHANGED <<env, heap, registers, settings, output>>

(* The limit is on top of the offset; a limit below 1 means the pragma's.  *)
FuncShowDump ==
  /\ At("FuncShowDump")
  /\ LET ref   == Nth(3).ref
         limit == IF Nth(1).num < 1 THEN pragma["show.count"].num ELSE Nth(1).num
         dedup == pragma["show.dedup"].str
     IN  /\ shown' = ShowPage(heap[ref].goroutines, dedup, limit, Nth(2).num)
         /\ heap' = [heap EXCEPT ![ref].isIndexed = @ \/ dedup # "none"]
  /\ didShow' = TRUE
  /\ Advance(Rest(2))
  /\ UNCHANGED <<env, registers, settings>>

(* toJSON and toDot print the dump, and write it to a file if they have a  *)
(* path.                                                                   *)
FuncExport ==
  /\ At("FuncToJSON") \/ At("FuncToDot")
  /\ didShow' = TRUE
  /\ IF Nth(1).str \in Unwritable THEN Fail("io") ELSE Advance(Rest(1))
  /\ UNCHANGED <<env, heap, registers, settings, shown>>

-----------------------------------------------------------------------------
(* Commands end the run: most return the error ErrCommandOk.               *)
CommandChangeDir ==
  /\ At("CommandChangeDir")
  /\ LET path == IF Constant.str = "-" THEN pcwd ELSE Constant.str
     IN  \/ /\ path \in Directories
            /\ cwd' = path /\ pcwd' = cwd
            /\ Fail("ErrCommandOk")
         \/ /\ path \notin Directories
            /\ UNCHANGED <<cwd, pcwd>>
            /\ Fail("io")
  /\ UNCHANGED <<env, heap, registers, pragma, output>>

(* "ConfirmEmpty" and "ConfirmQuit" are ErrCommandConfirm wrapping the     *)
(* action that the user is to confirm.                                     *)
CommandEmpty ==
  /\ At("CommandEmpty")
  /\ \/ /\ pragma["empty.confirm"].bool
        /\ Fail("ConfirmEmpty") /\ UNCHANGED env
     \/ /\ ~pragma["empty.confirm"].bool
        /\ env' = NoVariables
        /\ Fail("ErrCommandOk")
  /\ UNCHANGED <<heap, registers, settings, output>>

\* Mutant: exit asks for the pragma of empty.
CommandQuitWrongPragma ==
  /\ At("CommandQuit")
  /\ Fail(IF pragma["empty.confirm"].bool THEN "ConfirmQuit"
                                          ELSE "ErrCommandQuit")
  /\ UNCHANGED <<env, heap, registers, settings, output>>

CommandQuit ==
  /\ At("CommandQuit")
  /\ Fail(IF pragma["exit.confirm"].bool THEN "ConfirmQuit"
                                         ELSE "ErrCommandQuit")
  /\ UNCHANGED <<env, heap, registers, settings, output>>

CommandHelp ==
  /\ At("CommandHelp")
  /\ LET size == Len(code.constants)
     IN  IF Instr.arg > size \/ size = 0 THEN Fail("ErrCommandOk")
         ELSE IF Instr.arg = size THEN Crash
         ELSE IF Constant.tag = "string" THEN Fail("ErrCommandOk")
         ELSE Fail("NotAHelpTopic")
  /\ UNCHANGED <<env, heap, registers, settings, output>>

(* pwd and ls are the commands after which the run goes on.                *)
CommandGetWorkingDir ==
  /\ At("CommandGetWorkingDir")
  /\ Advance(stack)
  /\ UNCHANGED <<env, heap, registers, settings, output>>

CommandListDir ==
  /\ At("CommandListDir")
  /\ Advance(stack) \/ Fail("io")
  /\ UNCHANGED <<env, heap, registers, settings, output>>

CommandVars ==
  /\ At("CommandVars")
  /\ Fail(IF pragma["vars.display"].str \in {"count", "summary", "none"}
          THEN "ErrCommandOk" ELSE "ErrInvalidOpArg")
  /\ UNCHANGED <<env, heap, registers, settings, output>>

CommandGetPragma ==
  /\ At("CommandGetPragma")
  /\ Fail(IF Nth(1).str \in Settings THEN "ErrCommandOk" ELSE "ErrNoSuchPragma")
  /\ UNCHANGED <<env, heap, registers, settings, output>>

(* popAndSet takes the value from below the name of the setting.           *)
CommandSetPragma ==
  /\ At("CommandSetPragma")
  /\ LET setting == Nth(1).str
     IN  \/ /\ setting \notin Settings
            /\ Fail("ErrNoSuchPragma") /\ UNCHANGED pragma
         \/ /\ setting \in Settings /\ Len(stack) = 1
            /\ Fail("ErrEmptyStack") /\ UNCHANGED pragma
         \/ /\ setting \in Settings /\ Len(stack) > 1
            /\ IF Nth(2).tag = pragma[setting].tag
               THEN /\ pragma' = [pragma EXCEPT ![setting] = Nth(2)]
                    /\ Fail("ErrCommandOk")
               ELSE Fail("ErrInvalidType") /\ UNCHANGED pragma
  /\ UNCHANGED <<env, heap, registers, cwd, pcwd, output>>

-----------------------------------------------------------------------------
(* Run, where it does not dispatch: the context was cancelled, the gas is  *)
(* used up, or the current chunk has no more instructions, be it that of   *)
(* the first frame or not.                                                 *)
Interrupt ==
  /\ status = "running"
  /\ status' = "returned"
  /\ err' = "Canceled"
  /\ UNCHANGED <<gas, frames, stack>>
  /\ UNCHANGED <<env, heap, registers, settings, output>>

OutOfGas ==
  /\ status = "running" /\ gas <= 1
  /\ Fail("ErrOutOfGas")
  /\ UNCHANGED <<env, heap, registers, settings, output>>

Halt ==
  /\ status = "running" /\ gas > 1 /\ NextIp >= Len(Ops)
  /\ Fail("none")
  /\ UNCHANGED <<env, heap, registers, settings, output>>

Execute ==
  \/ Noop \/ Dup \/ LoadConstant \/ PushBool \/ LoadGoroutineDump
  \/ LoadFieldAccessor \/ Assignment \/ AssignMulti
  \/ Comparison \/ ContainsOrIn \/ RegexMatches
  \/ ConditionalJump \/ JumpTo \/ Call \/ Return
  \/ TempDump \/ ResetDump \/ PushDump \/ AddGoroutine \/ NextGoroutine
  \/ FuncUnion \/ FuncIntersect \/ FuncDiff \/ FuncGraph
  \/ FuncLoad \/ FuncSave \/ FuncShowDump \/ FuncExport
  \/ CommandChangeDir \/ CommandEmpty \/ CommandQuit \/ CommandHelp
  \/ CommandGetWorkingDir \/ CommandListDir \/ CommandVars
  \/ CommandGetPragma \/ CommandSetPragma
  \/ BadOperands \/ BadConstant \/ OutOfGas \/ Halt

Run == (Execute \/ Interrupt) /\ UNCHANGED code

-----------------------------------------------------------------------------
(* Types.  References lead to dumps that exist: 1..n when n do.            *)
ValuesOver(n) ==
  [tag : {"bool"}, bool : BOOLEAN]
    \cup [tag : {"number"}, num : Nat]
    \cup [tag : {"string"}, str : STRING]
    \cup [tag : {"map"}, labels : {g.labels : g \in Goroutines}]
    \cup [tag : {"goroutine"}, goroutine : Goroutines]
    \cup [tag : {"dump"}, ref : 1..n]
    \cup [tag : {"diff"}, left : 1..n, common : 1..n, right : 1..n]

VariablesOver(e, n) ==
  DOMAIN e \subseteq STRING /\ \A name \in DOMAIN e : e[name] \in ValuesOver(n)

Dumps == [goroutines : Seq(Goroutines), iterIndex : Nat, isIndexed : BOOLEAN]

(* The code a compiler may produce: it has a first chunk, and the names of *)
(* a multiple assignment are names.                                        *)
IsConstant(c, constants) ==
  \/ c \in [tag : {"number"}, num : Nat]
  \/ c \in [tag : {"string"}, str : STRING]
  \/ /\ c \in [tag : {"multi"}, targets : Seq(Nat)]
     /\ \A i \in DOMAIN c.targets :
          /\ c.targets[i] < Len(constants)
          /\ constants[c.targets[i] + 1].tag = "string"

IsCode(c) ==
  /\ c.chunks \in Seq(Seq([op : STRING, arg : Nat]))
  /\ Len(c.constants) \in Nat
  /\ c.constants = [i \in 1..Len(c.constants) |-> c.constants[i]]
  /\ \A i \in DOMAIN c.constants : IsConstant(c.constants[i], c.constants)

FramesOver(n) == [chunk : 1..n, ip : Nat \cup {-1}, returnAddr : Nat]

VMTypeOK ==
  /\ status \in {"idle", "running", "returned", "crashed", "confirm", "stopped"}
  /\ err \in Errors
  /\ IsCode(code)
  /\ gas \in Int
  /\ frames \in Seq(FramesOver(Len(code.chunks)))
  /\ status = "running" => frames # <<>>
  /\ stack \in Seq(ValuesOver(Len(heap)))
  /\ heap \in Seq(Dumps)
  /\ VariablesOver(env, Len(heap))
  /\ regGoroutine \in Goroutines \cup {NoGoroutine}
  /\ regDumpDst \in 0..Len(heap)
  /\ pragma \in [Settings -> ValuesOver(0)]
  /\ \A s \in Settings : pragma[s].tag = NewPragma[s].tag
  /\ {cwd, pcwd} \subseteq STRING
  /\ didShow \in BOOLEAN
  /\ shown \in Seq(Goroutines)

=============================================================================
