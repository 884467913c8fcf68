-------------------------- MODULE EvaluatorProofs --------------------------
(***************************************************************************)
(* What module Evaluator promises whatever the user types and whatever the *)
(* compiler makes of it: the shell asks before it loses the variables, and *)
(* no run of the machine leaves the types of its state.                    *)
(***************************************************************************)
EXTENDS Evaluator, SequenceLemmas

-----------------------------------------------------------------------------
(* The shell asks before it loses anything.  Only two instructions need a  *)
(* closer look: the others neither empty the variables nor return the      *)
(* error that ends the shell.  Nor does one say that it was canceled.      *)
Harmless ==
  /\ status = "running"
  /\ status' \in {"running", "returned", "crashed"}
  /\ status' = "returned" => err' \notin {"ErrCommandQuit", "Canceled"}
  /\ env' = NoVariables => env = NoVariables

(* How instructions end.                                                   *)
LEMMA HowItEnds ==
  /\ \A op : At(op) => status = "running"
  /\ \A ip, s : GoTo(ip, s) => status' = status /\ err' = err
  /\ \A s : Advance(s) => status' = status /\ err' = err
  /\ \A s, v : Push(s, v) => status' \in {status, "crashed"} /\ err' = err
  /\ Crash => status' = "crashed" /\ err' = err
  /\ \A e : Fail(e) => status' = "returned" /\ err' = e
BY DEF At, Ready, GoTo, Advance, Push, Crash, Fail

LEMMA BoundIsNotEmpty ==
  /\ \A e, name, v : Bind(e, name, v) # NoVariables
  /\ \A e, target, ref : BindTarget(e, target, ref) = NoVariables => e = NoVariables
<1>1. ASSUME NEW e, NEW name, NEW v
      PROVE  Bind(e, name, v) # NoVariables
  <2>1. name \in DOMAIN Bind(e, name, v)
    BY DEF Bind
  <2>2. name \notin DOMAIN NoVariables
    BY DEF NoVariables
  <2> QED BY <2>1, <2>2
<1> QED BY <1>1 DEF BindTarget

LEMMA LoadsAndStoresAreHarmless ==
  Noop \/ Dup \/ LoadConstant \/ PushBool \/ LoadGoroutineDump
    \/ LoadFieldAccessor \/ Assignment \/ AssignMulti
  => Harmless
<1> USE HowItEnds DEF Harmless
<1>1. Noop => Harmless
  BY DEF Noop
<1>2. Dup => Harmless
  BY DEF Dup
<1>3. LoadConstant => Harmless
  BY DEF LoadConstant
<1>4. PushBool => Harmless
  BY DEF PushBool
<1>5. LoadGoroutineDump => Harmless
  BY DEF LoadGoroutineDump
<1>6. LoadFieldAccessor => Harmless
  BY DEF LoadFieldAccessor
<1>7. Assignment => Harmless
  BY BoundIsNotEmpty DEF Assignment
<1>8. AssignMulti => Harmless
  BY BoundIsNotEmpty DEF AssignMulti
<1> QED BY <1>1, <1>2, <1>3, <1>4, <1>5, <1>6, <1>7, <1>8

LEMMA ComparisonsAndJumpsAreHarmless ==
  Comparison \/ ContainsOrIn \/ RegexMatches \/ ConditionalJump
    \/ JumpTo \/ Call \/ Return
  => Harmless
<1> USE HowItEnds DEF Harmless
<1>1. ASSUME Comparison PROVE Harmless
  <2>1. status = "running" /\ env' = env
    BY <1>1, Zenon DEF Comparison
  <2>2. \/ \E s : \E v : Push(s, v)
        \/ Fail("MismatchedTypes")
    BY <1>1, Zenon DEF Comparison
  <2> QED BY <2>1, <2>2
<1>2. ContainsOrIn => Harmless
  BY DEF ContainsOrIn
<1>3. ASSUME RegexMatches PROVE Harmless
  <2>1. status = "running" /\ env' = env
    BY <1>3, Zenon DEF RegexMatches
  <2>2. \/ \E s : \E v : Push(s, v)
        \/ Fail("InvalidRegex")
    BY <1>3, Zenon DEF RegexMatches
  <2> QED BY <2>1, <2>2
<1>4. ConditionalJump => Harmless
  BY DEF ConditionalJump
<1>5. JumpTo => Harmless
  BY DEF JumpTo
<1>6. Call => Harmless
  BY DEF Call
<1>7. Return => Harmless
  BY DEF Return
<1> QED BY <1>1, <1>2, <1>3, <1>4, <1>5, <1>6, <1>7

LEMMA FiltersAreHarmless ==
  TempDump \/ ResetDump \/ PushDump \/ AddGoroutine
    \/ NextGoroutine
  => Harmless
<1> USE HowItEnds DEF Harmless
<1>1. TempDump => Harmless
  BY DEF TempDump
<1>2. ResetDump => Harmless
  BY DEF ResetDump
<1>3. PushDump => Harmless
  BY DEF PushDump
<1>4. AddGoroutine => Harmless
  BY DEF AddGoroutine
<1>5. NextGoroutine => Harmless
  BY DEF NextGoroutine, Iterate
<1> QED BY <1>1, <1>2, <1>3, <1>4, <1>5

LEMMA FunctionsAreHarmless ==
  FuncUnion \/ FuncIntersect \/ FuncDiff \/ FuncGraph
    \/ FuncLoad \/ FuncSave \/ FuncShowDump \/ FuncExport
  => Harmless
<1> USE HowItEnds DEF Harmless
<1>1. FuncUnion => Harmless
  BY DEF FuncUnion, PushNew
<1>2. FuncIntersect => Harmless
  BY DEF FuncIntersect, PushNew
<1>3. FuncDiff => Harmless
  BY DEF FuncDiff
<1>4. FuncGraph => Harmless
  BY DEF FuncGraph, PushNew
<1>5. FuncLoad => Harmless
  BY DEF FuncLoad, PushNew
<1>6. FuncSave => Harmless
  BY DEF FuncSave
<1>7. FuncShowDump => Harmless
  BY DEF FuncShowDump
<1>8. FuncExport => Harmless
  BY DEF FuncExport
<1> QED BY <1>1, <1>2, <1>3, <1>4, <1>5, <1>6, <1>7, <1>8

LEMMA CommandsAreHarmless ==
  CommandChangeDir \/ CommandHelp \/ CommandGetWorkingDir \/ CommandListDir
    \/ CommandVars \/ CommandGetPragma \/ CommandSetPragma
  => Harmless
<1> USE HowItEnds DEF Harmless
<1>1. CommandChangeDir => Harmless
  BY DEF CommandChangeDir
<1>2. ASSUME CommandHelp PROVE Harmless
  <2>1. status = "running" /\ env' = env
    BY <1>2, Zenon DEF CommandHelp
  <2>2. \/ Fail("ErrCommandOk") \/ Fail("NotAHelpTopic")
        \/ Crash
    BY <1>2, Zenon DEF CommandHelp
  <2> QED BY <2>1, <2>2
<1>3. CommandGetWorkingDir => Harmless
  BY DEF CommandGetWorkingDir
<1>4. CommandListDir => Harmless
  BY DEF CommandListDir
<1>5. CommandVars => Harmless
  BY DEF CommandVars
<1>6. CommandGetPragma => Harmless
  BY DEF CommandGetPragma
<1>7. CommandSetPragma => Harmless
  BY DEF CommandSetPragma
<1> QED BY <1>1, <1>2, <1>3, <1>4, <1>5, <1>6, <1>7

LEMMA EndsAreHarmless ==
  BadOperands \/ BadConstant \/ OutOfGas \/ Halt => Harmless
<1> USE HowItEnds DEF Harmless
<1>1. ASSUME BadOperands PROVE Harmless
  <2>1. status = "running" /\ env' = env
    BY <1>1, Zenon DEF BadOperands, Ready
  <2>2. Fail("ErrEmptyStack") \/ Fail("ErrInvalidType")
    BY <1>1, Zenon DEF BadOperands
  <2> QED BY <2>1, <2>2
<1>2. ASSUME BadConstant PROVE Harmless
  <2>1. status = "running" /\ env' = env
    BY <1>2, Zenon DEF BadConstant, Ready
  <2>2. \/ Fail("ErrExpectedConstantValueByte") \/ Fail("ErrInvalidType")
        \/ Crash
    BY <1>2, Zenon DEF BadConstant
  <2> QED BY <2>1, <2>2
<1>3. OutOfGas => Harmless
  BY DEF OutOfGas
<1>4. Halt => Harmless
  BY DEF Halt
<1> QED BY <1>1, <1>2, <1>3, <1>4

LEMMA StepsOfExecute == Execute => Harmless \/ CommandEmpty \/ CommandQuit
BY LoadsAndStoresAreHarmless, ComparisonsAndJumpsAreHarmless,
   FiltersAreHarmless, FunctionsAreHarmless, CommandsAreHarmless,
   EndsAreHarmless, Zenon DEF Execute

(* When Run has returned the error that ends the shell, the setting of     *)
(* exit allowed it, and nobody has changed it since.                       *)
QuitAllowed ==
  status = "returned" /\ err = "ErrCommandQuit" =>
    ~pragma["exit.confirm"].bool

LEMMA CommandsNeedConsent ==
  /\ CommandEmpty =>
       /\ status = "running" /\ status' = "returned"
       /\ err' \notin {"ErrCommandQuit", "Canceled"}
       /\ env' = env \/ ~pragma["empty.confirm"].bool
  /\ CommandQuit =>
       /\ status = "running" /\ status' = "returned"
       /\ err' = "ErrCommandQuit" => ~pragma["exit.confirm"].bool
       /\ err' # "Canceled"
       /\ env' = env /\ pragma' = pragma
BY HowItEnds DEF CommandEmpty, CommandQuit, settings

LEMMA QuitAllowedHolds == Spec => []QuitAllowed
<1>1. Init => QuitAllowed
  BY DEF Init, QuitAllowed
<1>2. QuitAllowed /\ [Next]_vars => QuitAllowed'
  <2> SUFFICES ASSUME QuitAllowed, [Next]_vars
               PROVE  QuitAllowed'
    OBVIOUS
  <2>1. ASSUME NEW s \in Sources, Eval(s) PROVE QuitAllowed'
    <3>1. CASE Compiled[s] = CompileError
      BY <2>1, <3>1 DEF Eval, QuitAllowed, vmVars, control
    <3>2. CASE Compiled[s] # CompileError
      BY <2>1, <3>2 DEF Eval, QuitAllowed
    <3> QED BY <3>1, <3>2
  <2>2. ASSUME RunStep PROVE QuitAllowed'
    <3>1. CASE Interrupt
      BY <3>1 DEF Interrupt, QuitAllowed
    <3>2. CASE Execute
      BY <3>2, StepsOfExecute, CommandsNeedConsent DEF Harmless, QuitAllowed
    <3> QED BY <2>2, <3>1, <3>2 DEF RunStep, Run
  <2>3. CASE Finish
    BY <2>3 DEF Finish, QuitAllowed
  <2>4. CASE Confirm
    BY <2>4 DEF Confirm, QuitAllowed
  <2>5. CASE Decline
    BY <2>5 DEF Decline, QuitAllowed
  <2>6. CASE UNCHANGED vars
    BY <2>6 DEF vars, vmVars, control, settings, QuitAllowed
  <2>7. ASSUME NEW s \in Sources, CancelCompile(s) PROVE QuitAllowed'
    BY <2>7 DEF CancelCompile, vmVars, control, settings, QuitAllowed
  <2> QED BY <2>1, <2>2, <2>3, <2>4, <2>5, <2>6, <2>7 DEF Next
<1> QED BY <1>1, <1>2, PTL DEF Spec

(* Whatever the code the compiler emits, the variables are emptied and the *)
(* shell ends only after the user answered "y", or when the setting of the *)
(* command allows it without asking.                                       *)
THEOREM ConsentRequired == Spec => ConfirmedFirst
<1> DEFINE Consent ==
  /\ env # NoVariables /\ env' = NoVariables /\ oldEnv # NoVariables =>
       status = "confirm" \/ ~pragma["empty.confirm"].bool
  /\ status' = "stopped" /\ status # "stopped" =>
       status = "confirm" \/ ~pragma["exit.confirm"].bool
<1>1. QuitAllowed /\ [Next]_vars => [Consent]_vars
  <2> SUFFICES ASSUME QuitAllowed, Next
               PROVE  Consent
    OBVIOUS
  <2>1. ASSUME NEW s \in Sources, Eval(s) PROVE Consent
    <3>1. env' = env /\ status' # "stopped"
      <4>1. CASE Compiled[s] = CompileError
        BY <2>1, <4>1 DEF Eval, vmVars, control
      <4>2. CASE Compiled[s] # CompileError
        BY <2>1, <4>2 DEF Eval, Reset
      <4> QED BY <4>1, <4>2
    <3> QED BY <3>1
  <2>2. ASSUME RunStep PROVE Consent
    <3>1. CASE Interrupt
      BY <3>1 DEF Interrupt
    <3>2. CASE Execute
      BY <3>2, StepsOfExecute, CommandsNeedConsent DEF Harmless
    <3> QED BY <2>2, <3>1, <3>2 DEF RunStep, Run
  <2>3. CASE Finish
    BY <2>3 DEF Finish, QuitAllowed
  <2>4. CASE Confirm
    BY <2>4 DEF Confirm
  <2>5. CASE Decline
    BY <2>5 DEF Decline
  <2>6. ASSUME NEW s \in Sources, CancelCompile(s) PROVE Consent
    BY <2>6 DEF CancelCompile, vmVars, control
  <2> QED BY <2>1, <2>2, <2>3, <2>4, <2>5, <2>6 DEF Next
<1> QED BY <1>1, QuitAllowedHolds, PTL DEF Spec, ConfirmedFirst

-----------------------------------------------------------------------------
(* What is shown of a dump, and what functions make, has its goroutines.   *)
LEMMA IndexOf ==
  ASSUME NEW W, NEW gs \in Seq(W)
  PROVE  Index(gs) \in Seq(W)
<1> DEFINE V == Seq(W)
           step(v, g) == IF \E i \in DOMAIN v : v[i].hash = g.hash
                         THEN v ELSE Append(v, g)
           G == [p \in V \X W |-> step(p[1], p[2])]
           IsIter(f) ==
             f = [U \in SUBSET DOMAIN gs |->
                    IF U = {} THEN <<>> ELSE step(f[U \ {Max(U)}], gs[Max(U)])]
           iter == CHOOSE f : IsIter(f)
<1>1. \A v \in V, g \in W : G[<<v, g>>] = step(v, g)
  OBVIOUS
<1>2. Steps(G, <<>>, V, W)
  BY DEF Steps
<1>3. Index(gs) = iter[DOMAIN gs]
  BY DEF Index, FoldLeft, MapThenFoldSet
<1>4. \A U \in SUBSET DOMAIN gs : U # {} => gs[Max(U)] \in W
  BY LastPlace
<1> HIDE DEF G, V, step
<1>5. IsIter(iter)
  <2>1. PICK f \in [SUBSET DOMAIN gs -> V] : IsSetFolding(f, G, <<>>, gs)
    BY <1>2, SetFoldingExists
  <2>2. IsIter(f)
    BY <1>1, <1>4, <2>1 DEF IsSetFolding
  <2> QED BY <2>2
<1> HIDE DEF iter
<1>6. FoldsWithin(iter, V, W, G, <<>>, gs)
  BY <1>1, <1>2, <1>4, <1>5 DEF FoldsWithin
<1> QED BY <1>3, <1>6, FoldStays DEF V

(* Sorting, pages and what diff and intersect make.                        *)
LEMMA SortingsOf ==
  ASSUME NEW W, NEW gs \in Seq(W), NEW t \in Sortings(gs)
  PROVE  t \in Seq(W)
<1>1. PICK p \in [DOMAIN gs -> DOMAIN gs] : t = [i \in DOMAIN gs |-> gs[p[i]]]
  BY DEF Sortings, Bijection, Injection
<1>2. Len(gs) \in Nat /\ DOMAIN gs = 1..Len(gs)
  OBVIOUS
<1>3. \A i \in DOMAIN gs : gs[i] \in W
  OBVIOUS
<1>4. \A i \in 1..Len(gs) : gs[p[i]] \in W
  BY <1>1, <1>2, <1>3
<1>5. t = [i \in 1..Len(gs) |-> gs[p[i]]]
  BY <1>1, <1>2
<1>6. t \in [1..Len(gs) -> W]
  BY <1>4, <1>5
<1> QED BY <1>2, <1>6

(* The three dumps a comparison of two returns.                            *)
LEMMA SharedOf ==
  ASSUME NEW W, NEW left \in Seq(W), NEW right \in Seq(W)
  PROVE  /\ Shared(left, right) \in Seq(W)
         /\ Missing(left, right) \in Seq(W)
         /\ DiffCommon(left, right) \in Seq(W)
<1>1. Shared(left, right) \in Seq(W) /\ Shared(right, left) \in Seq(W)
  BY OnlyOf, Zenon DEF Shared
<1>2. Missing(left, right) \in Seq(W)
  BY OnlyOf, Zenon DEF Missing
<1> QED BY <1>1, <1>2 DEF DiffCommon

(* The page shown of a dump is made of its goroutines, whatever the limit  *)
(* and the offset.                                                         *)
LEMMA ShowPageOf ==
  ASSUME NEW W, NEW gs \in Seq(W), NEW dedup, NEW limit \in Nat, NEW offset \in Nat
  PROVE  ShowPage(gs, dedup, limit, offset) \in Seq(W)
<1> DEFINE listed == IF dedup = "none" THEN gs ELSE Index(gs)
           end == offset + SafeLimit(Len(listed), limit, offset)
<1>1. listed \in Seq(W)
  BY IndexOf
<1>2. ShowPage(gs, dedup, limit, offset) = SubSeq(listed, offset + 1, end)
  BY DEF ShowPage
<1>3. Len(listed) \in Nat
  BY <1>1
<1>4. end \in Int /\ end <= Len(listed)
  <2> DEFINE size == Len(listed)
             rest == size - offset
  <2>1. size \in Nat
    BY <1>3
  <2> HIDE DEF size
  <2>2. rest \in Int /\ offset + rest = size
    BY <2>1
  <2>3. CASE limit = 0
    <3>1. end = offset + rest
      BY <2>3 DEF SafeLimit, size
    <3> QED BY <2>1, <2>2, <3>1 DEF size
  <2>4. CASE limit # 0
    <3> HIDE DEF rest
    <3>1. \E x \in {limit, rest} : \A y \in {limit, rest} : x <= y
      <4>1. limit <= rest \/ rest <= limit
        BY <2>2
      <4> QED BY <2>2, <4>1
    <3>2. Min({limit, rest}) \in {limit, rest} /\ Min({limit, rest}) <= rest
      BY <3>1 DEF Min
    <3>3. end = offset + Min({limit, rest})
      BY <2>4 DEF SafeLimit, size, rest
    <3>4. Min({limit, rest}) \in Int
      BY <2>2, <3>2
    <3> HIDE DEF end
    <3>5. end \in Int /\ end <= size
      BY <2>1, <2>2, <3>2, <3>3, <3>4
    <3> QED BY <3>5 DEF size
  <2> QED BY <2>3, <2>4
<1> HIDE DEF listed, end
<1>5. SubSeq(listed, offset + 1, end) \in Seq(W)
  BY <1>1, <1>4
<1> QED BY <1>2, <1>5

-----------------------------------------------------------------------------
(* Values, by their tags.                                                  *)
LEMMA ValuesMade ==
  ASSUME NEW n
  PROVE  /\ \A b \in BOOLEAN : Bool(b) \in ValuesOver(n)
         /\ \A k \in Nat : Number(k) \in ValuesOver(n)
         /\ \A s \in STRING : Str(s) \in ValuesOver(n)
         /\ \A g \in Goroutines : Map(g.labels) \in ValuesOver(n)
         /\ \A g \in Goroutines : Goroutine(g) \in ValuesOver(n)
         /\ \A r \in 1..n : Dump(r) \in ValuesOver(n)
         /\ \A l, c, r \in 1..n : Diff(l, c, r) \in ValuesOver(n)
<1> USE DEF ValuesOver
<1>1. \A b \in BOOLEAN : Bool(b) \in ValuesOver(n)
  BY DEF Bool
<1>2. \A k \in Nat : Number(k) \in ValuesOver(n)
  BY DEF Number
<1>3. \A s \in STRING : Str(s) \in ValuesOver(n)
  BY DEF Str
<1>4. \A g \in Goroutines : Map(g.labels) \in ValuesOver(n)
  BY DEF Map
<1>5. \A g \in Goroutines : Goroutine(g) \in ValuesOver(n)
  BY DEF Goroutine
<1>6. \A r \in 1..n : Dump(r) \in ValuesOver(n)
  BY DEF Dump
<1>7. \A l, c, r \in 1..n : Diff(l, c, r) \in ValuesOver(n)
  BY DEF Diff
<1> QED BY <1>1, <1>2, <1>3, <1>4, <1>5, <1>6, <1>7

(* The tag of a value says which field it has.                             *)
LEMMA ValuesTagged ==
  ASSUME NEW n, NEW v \in ValuesOver(n)
  PROVE  /\ v.tag = "bool" => v.bool \in BOOLEAN
         /\ v.tag = "number" => v.num \in Nat
         /\ v.tag = "string" => v.str \in STRING
         /\ v.tag = "dump" => v.ref \in 1..n
         /\ v.tag = "diff" => {v.left, v.common, v.right} \subseteq 1..n
         /\ v.tag \in {"bool", "number", "string"} => \A m : v \in ValuesOver(m)
BY DEF ValuesOver

(* A value stays one in a larger heap.                                     *)
LEMMA ValuesGrow ==
  ASSUME NEW n \in Nat, NEW m \in Nat, n <= m
  PROVE  ValuesOver(n) \subseteq ValuesOver(m)
<1>1. 1..n \subseteq 1..m
  OBVIOUS
<1> QED BY <1>1 DEF ValuesOver

(* Stacks and variables remain what they are as the heap grows.            *)
LEMMA GrowWithHeap ==
  ASSUME NEW n \in Nat, NEW m \in Nat, n <= m
  PROVE  /\ \A s \in Seq(ValuesOver(n)) : s \in Seq(ValuesOver(m))
         /\ \A e : VariablesOver(e, n) => VariablesOver(e, m)
<1>1. ValuesOver(n) \subseteq ValuesOver(m)
  BY ValuesGrow
<1>2. \A V, U : V \subseteq U => \A s \in Seq(V) : s \in Seq(U)
  OBVIOUS
<1>3. \A s \in Seq(ValuesOver(n)) : s \in Seq(ValuesOver(m))
  BY <1>1, <1>2, Zenon
<1>4. ASSUME NEW e, VariablesOver(e, n)
      PROVE  VariablesOver(e, m)
  BY <1>1, <1>4 DEF VariablesOver
<1> QED BY <1>3, <1>4

(* Assigning a variable.                                                   *)
LEMMA BindTyped ==
  ASSUME NEW n, NEW e, VariablesOver(e, n), NEW name \in STRING, NEW v \in ValuesOver(n)
  PROVE  VariablesOver(Bind(e, name, v), n)
<1> DEFINE V == ValuesOver(n)
<1>1. DOMAIN Bind(e, name, v) = DOMAIN e \cup {name}
  BY DEF Bind
<1>2. \A x \in DOMAIN e \cup {name} : Bind(e, name, v)[x] = IF x = name THEN v ELSE e[x]
  BY DEF Bind
<1> QED BY <1>1, <1>2 DEF VariablesOver

-----------------------------------------------------------------------------
(* What the machine has at hand in a state that is well typed.             *)
Chunks == Len(code.chunks)
HeapSize == Len(heap)

(* The sizes, and the elements of the sequences.                           *)
LEMMA InTypedState ==
  ASSUME VMTypeOK
  PROVE  /\ Chunks \in Nat /\ HeapSize \in Nat
         /\ Len(frames) \in Nat /\ Len(stack) \in Nat
         /\ Len(code.constants) \in Nat
         /\ frames \in Seq(FramesOver(Chunks))
         /\ stack \in Seq(ValuesOver(HeapSize))
         /\ \A i \in 1..Len(stack) : stack[i] \in ValuesOver(HeapSize)
         /\ \A r \in 1..HeapSize : heap[r] \in Dumps
         /\ \A r \in 1..HeapSize : heap[r].goroutines \in Seq(Goroutines)
<1>1. Chunks \in Nat /\ Len(code.constants) \in Nat
  <2>1. \A c : IsCode(c) => Len(c.chunks) \in Nat /\ Len(c.constants) \in Nat
    BY DEF IsCode
  <2> QED BY <2>1, Zenon DEF VMTypeOK, Chunks
<1>2. /\ frames \in Seq(FramesOver(Chunks)) /\ stack \in Seq(ValuesOver(HeapSize))
      /\ heap \in Seq(Dumps)
  BY Zenon DEF VMTypeOK, Chunks, HeapSize
<1>3. HeapSize \in Nat /\ Len(frames) \in Nat /\ Len(stack) \in Nat
  BY <1>2 DEF HeapSize
<1>4. \A i \in 1..Len(stack) : stack[i] \in ValuesOver(HeapSize)
  BY <1>2, ElementOf
<1>5. \A r \in 1..HeapSize : heap[r] \in Dumps
  BY <1>2, ElementOf DEF HeapSize
<1>6. \A d \in Dumps : d.goroutines \in Seq(Goroutines)
  BY DEF Dumps
<1> QED BY <1>1, <1>2, <1>3, <1>4, <1>5, <1>6

(* The frame on top and the instruction it is about to execute.            *)
LEMMA AtInstruction ==
  ASSUME VMTypeOK, Ready
  PROVE  /\ Len(frames) > 0
         /\ Frame \in FramesOver(Chunks)
         /\ NextIp \in Nat
         /\ Instr.op \in STRING /\ Instr.arg \in Nat
<1> DEFINE Instrs == [op : STRING, arg : Nat]
<1>1. frames # <<>>
  BY Zenon DEF VMTypeOK, Ready
<1>2. Len(frames) > 0 /\ Len(frames) \in 1..Len(frames)
  BY <1>1, InTypedState
<1>3. Frame \in FramesOver(Chunks)
  BY <1>2, InTypedState, ElementOf DEF Frame
<1>4. Frame.chunk \in 1..Chunks /\ Frame.ip \in Nat \cup {-1}
  BY <1>3 DEF FramesOver
<1>5. NextIp \in Nat
  BY <1>4 DEF NextIp
<1>6. code.chunks \in Seq(Seq(Instrs))
  BY Zenon DEF VMTypeOK, IsCode
<1>7. Ops \in Seq(Instrs)
  BY <1>4, <1>6, ElementOf DEF Ops, Chunks
<1>8. NextIp + 1 \in 1..Len(Ops)
  BY <1>5, <1>7 DEF Ready
<1>9. Instr \in Instrs
  BY <1>7, <1>8, ElementOf DEF Instr
<1> QED BY <1>2, <1>3, <1>5, <1>9

(* The constant of an instruction that has one.                            *)
LEMMA ConstantTyped ==
  ASSUME VMTypeOK, Ready, HasConstant
  PROVE  /\ Constant.tag = "string" => Constant \in [tag : {"string"}, str : STRING]
         /\ Constant.tag = "number" => Constant \in [tag : {"number"}, num : Nat]
         /\ Constant.tag = "multi" =>
              /\ Constant.targets \in Seq(Nat)
              /\ \A i \in DOMAIN Constant.targets :
                   code.constants[Constant.targets[i] + 1].str \in STRING
<1> DEFINE cs == code.constants
<1>1. /\ cs = [i \in 1..Len(cs) |-> cs[i]]
      /\ \A i \in DOMAIN cs : IsConstant(cs[i], cs)
  BY Zenon DEF VMTypeOK, IsCode
<1>2. Instr.arg \in Nat /\ Len(cs) \in Nat
  BY InTypedState, AtInstruction
<1> HIDE DEF cs
<1>3. Instr.arg < Len(cs)
  BY DEF HasConstant, cs
<1>4. DOMAIN cs = 1..Len(cs)
  BY <1>1
<1>5. Instr.arg + 1 \in DOMAIN cs
  BY <1>2, <1>3, <1>4
<1>6. IsConstant(Constant, cs)
  BY <1>1, <1>5 DEF Constant, cs
<1>7. \A c : IsConstant(c, cs) /\ c.tag = "string" => c \in [tag : {"string"}, str : STRING]
  BY DEF IsConstant
<1>8. \A c : IsConstant(c, cs) /\ c.tag = "number" => c \in [tag : {"number"}, num : Nat]
  BY DEF IsConstant
<1>9. ASSUME Constant.tag = "multi"
      PROVE  /\ Constant.targets \in Seq(Nat)
             /\ \A i \in DOMAIN Constant.targets :
                  cs[Constant.targets[i] + 1].str \in STRING
  <2> DEFINE c == Constant
  <2> HIDE DEF c
  <2>0. IsConstant(c, cs) /\ c.tag = "multi"
    BY <1>6, <1>9 DEF c
  <2>1. c.targets \in Seq(Nat)
    BY <2>0 DEF IsConstant
  <2>2. \A i \in DOMAIN c.targets :
          c.targets[i] < Len(cs) /\ cs[c.targets[i] + 1].tag = "string"
    BY <2>0 DEF IsConstant
  <2>3. ASSUME NEW i \in DOMAIN c.targets
        PROVE  cs[c.targets[i] + 1].str \in STRING
    <3>1. c.targets[i] \in Nat
      BY <2>1
    <3>2. c.targets[i] + 1 \in DOMAIN cs
      BY <1>2, <1>4, <2>2, <3>1
    <3>3. IsConstant(cs[c.targets[i] + 1], cs)
      BY <1>1, <3>2
    <3>4. cs[c.targets[i] + 1] \in [tag : {"string"}, str : STRING]
      BY <1>7, <2>2, <3>3
    <3> QED BY <3>4
  <2> QED BY <2>1, <2>3 DEF c
<1> QED BY <1>6, <1>7, <1>8, <1>9 DEF cs

(* The stack has n operands, each of its type.                             *)
Holds(n) ==
  /\ n <= Len(stack)
  /\ \A i \in 1..n : Nth(i) \in ValuesOver(HeapSize)
  /\ Rest(n) \in Seq(ValuesOver(HeapSize))

(* As many values are on top of the stack as it has, and the rest is a     *)
(* stack.                                                                  *)
LEMMA OperandsTyped ==
  ASSUME VMTypeOK
  PROVE  \A n \in Nat : n <= Len(stack) => Holds(n)
<1> SUFFICES ASSUME NEW n \in Nat, n <= Len(stack) PROVE Holds(n)
  OBVIOUS
<1> DEFINE V == ValuesOver(HeapSize)
<1>0. stack \in Seq(V) /\ Len(stack) \in Nat
  BY InTypedState
<1>1. \A i \in 1..n : Len(stack) + 1 - i \in 1..Len(stack)
  BY <1>0
<1>2. \A i \in 1..n : Nth(i) \in V
  BY <1>1, InTypedState DEF Nth
<1> HIDE DEF V
<1>3. Rest(n) \in Seq(V)
  BY <1>0 DEF Rest
<1> QED BY <1>2, <1>3 DEF Holds, V

(* The operands that fit the tags an instruction wants.                    *)
LEMMA Tagged ==
  ASSUME Len(stack) \in Nat, NEW a, NEW b, NEW c
  PROVE  /\ 1 <= Len(stack) /\ Fits(<<a>>) => a \in {"any", Nth(1).tag}
         /\ 2 <= Len(stack) /\ Fits(<<a, b>>) =>
              a \in {"any", Nth(1).tag} /\ b \in {"any", Nth(2).tag}
         /\ 3 <= Len(stack) /\ Fits(<<a, b, c>>) =>
              /\ a \in {"any", Nth(1).tag} /\ b \in {"any", Nth(2).tag}
              /\ c \in {"any", Nth(3).tag}
<1>1. 1 <= Len(stack) /\ Fits(<<a>>) => a \in {"any", Nth(1).tag}
  BY DEF Fits
<1>2. ASSUME 2 <= Len(stack), Fits(<<a, b>>)
      PROVE  a \in {"any", Nth(1).tag} /\ b \in {"any", Nth(2).tag}
  BY <1>2 DEF Fits
<1>3. ASSUME 3 <= Len(stack), Fits(<<a, b, c>>)
      PROVE  /\ a \in {"any", Nth(1).tag} /\ b \in {"any", Nth(2).tag}
             /\ c \in {"any", Nth(3).tag}
  BY <1>3 DEF Fits
<1> QED BY <1>1, <1>2, <1>3

(* How many operands instructions find on the stack, and of which type.    *)
LEMMA OperandsOf ==
  ASSUME VMTypeOK
  PROVE  /\ At("Dup") \/ At("Assignment") => Holds(1)
         /\ (\E op \in Comparisons : At(op)) \/ At("Contains") \/ At("In") => Holds(2)
         /\ At("RegexMatches") \/ At("RegexNotMatches") =>
              Holds(2) /\ Nth(1).tag = "string" /\ Nth(2).tag = "string"
         /\ At("JumpIfFalse") \/ At("JumpIfTrue") => Holds(1) /\ Nth(1).tag = "bool"
         /\ At("FuncUnion") \/ At("FuncIntersect") \/ At("FuncDiff") \/ At("FuncGraph") =>
              Holds(2) /\ Nth(1).tag = "dump" /\ Nth(2).tag = "dump"
         /\ At("FuncSave") => Holds(2)
         /\ At("FuncToJSON") \/ At("FuncToDot") => Holds(1)
         /\ At("FuncShowDump") =>
              /\ Holds(2) /\ Holds(3)
              /\ Nth(1).tag = "number" /\ Nth(2).tag = "number" /\ Nth(3).tag = "dump"
         /\ At("FuncLoad") => Holds(1) /\ Nth(1).tag = "string"
<1> DEFINE Found(tags) == Len(tags) <= Len(stack) /\ Fits(tags)
<1>1. \A op : At(op) => Found(Operands(op))
  BY Zenon DEF At, HasOperands
<1>2. Len(stack) \in Nat
  BY InTypedState
<1>3. /\ \A a : Found(<<a>>) => 1 <= Len(stack)
      /\ \A a, b : Found(<<a, b>>) => 2 <= Len(stack)
      /\ \A a, b, c : Found(<<a, b, c>>) => 3 <= Len(stack)
  OBVIOUS
<1>4. 1 <= Len(stack) => Holds(1)
  BY OperandsTyped
<1>5. 2 <= Len(stack) => Holds(1) /\ Holds(2)
  <2>1. 2 <= Len(stack) => 1 <= Len(stack)
    BY <1>2
  <2> QED BY <2>1, OperandsTyped
<1>6. 3 <= Len(stack) => Holds(2) /\ Holds(3)
  <2>1. 3 <= Len(stack) => 2 <= Len(stack)
    BY <1>2
  <2> QED BY <2>1, OperandsTyped
<1>7. /\ \A a : Found(<<a>>) => a \in {"any", Nth(1).tag}
      /\ \A a, b : Found(<<a, b>>) => a \in {"any", Nth(1).tag} /\ b \in {"any", Nth(2).tag}
      /\ \A a, b, c : Found(<<a, b, c>>) =>
           /\ a \in {"any", Nth(1).tag} /\ b \in {"any", Nth(2).tag}
           /\ c \in {"any", Nth(3).tag}
  BY <1>2, <1>3, Tagged
<1> HIDE DEF Found
<1>a. At("Dup") \/ At("Assignment") => Holds(1)
  BY <1>1, <1>3, <1>4 DEF Operands
<1>b. (\E op \in Comparisons : At(op)) \/ At("Contains") \/ At("In") => Holds(2)
  <2>1. ASSUME NEW op \in Comparisons \cup {"Contains", "In"} PROVE Operands(op) = <<"any", "any">>
    BY DEF Operands, Comparisons
  <2> QED BY <1>1, <1>3, <1>5, <2>1
<1>c. At("RegexMatches") \/ At("RegexNotMatches") =>
        Holds(2) /\ Nth(1).tag = "string" /\ Nth(2).tag = "string"
  <2>1. ASSUME NEW op \in {"RegexMatches", "RegexNotMatches"}
        PROVE Operands(op) = <<"string", "string">>
    BY DEF Operands, Comparisons
  <2> QED BY <1>1, <1>3, <1>5, <1>7, <2>1
<1>d. At("JumpIfFalse") \/ At("JumpIfTrue") => Holds(1) /\ Nth(1).tag = "bool"
  <2>1. ASSUME NEW op \in {"JumpIfFalse", "JumpIfTrue"}
        PROVE Operands(op) = <<"bool">>
    BY DEF Operands, Comparisons
  <2> QED BY <1>1, <1>3, <1>4, <1>7, <2>1
<1>e. At("FuncUnion") \/ At("FuncIntersect") \/ At("FuncDiff") \/ At("FuncGraph") =>
        Holds(2) /\ Nth(1).tag = "dump" /\ Nth(2).tag = "dump"
  <2>1. ASSUME NEW op \in {"FuncUnion", "FuncIntersect", "FuncDiff", "FuncGraph"}
        PROVE Operands(op) = <<"dump", "dump">>
    BY DEF Operands, Comparisons
  <2> QED BY <1>1, <1>3, <1>5, <1>7, <2>1
<1>f. /\ At("FuncSave") => Holds(2)
      /\ At("FuncToJSON") \/ At("FuncToDot") => Holds(1)
  <2>1. ASSUME NEW op \in {"FuncSave", "FuncToJSON", "FuncToDot"}
        PROVE Operands(op) = <<"string", "dump">>
    BY DEF Operands, Comparisons
  <2> QED BY <1>1, <1>3, <1>5, <2>1
<1>g. At("FuncShowDump") =>
        /\ Holds(2) /\ Holds(3)
        /\ Nth(1).tag = "number" /\ Nth(2).tag = "number" /\ Nth(3).tag = "dump"
  <2>1. Operands("FuncShowDump") = <<"number", "number", "dump">>
    BY DEF Operands, Comparisons
  <2> QED BY <1>1, <1>3, <1>6, <1>7, <2>1
<1>h. At("FuncLoad") => Holds(1) /\ Nth(1).tag = "string"
  <2>1. Operands("FuncLoad") = <<"string">>
    BY DEF Operands, Comparisons
  <2> QED BY <1>1, <1>3, <1>4, <1>7, <2>1
<1> QED BY <1>a, <1>b, <1>c, <1>d, <1>e, <1>f, <1>g, <1>h

-----------------------------------------------------------------------------
(* The control part of the next state, over n dumps.                       *)
ControlOver(n) ==
  /\ status' \in {"running", "returned", "crashed"} /\ err' \in Errors /\ gas' \in Int
  /\ frames' \in Seq(FramesOver(Chunks)) /\ frames' # <<>>
  /\ stack' \in Seq(ValuesOver(n))

Addresses == Nat \cup {-1}

(* The frames after the one on top moved to another address.               *)
LEMMA MovedTyped ==
  ASSUME NEW n \in Nat, NEW fs \in Seq(FramesOver(n)), fs # <<>>, NEW ip \in Addresses
  PROVE  LET t == [fs EXCEPT ![Len(fs)].ip = ip]
         IN  t \in Seq(FramesOver(n)) /\ t # <<>> /\ Len(t) = Len(fs)
<1> DEFINE F == FramesOver(n)
           f == [fs[Len(fs)] EXCEPT !.ip = ip]
           t == [fs EXCEPT ![Len(fs)] = f]
<1>1. Len(fs) \in 1..Len(fs)
  OBVIOUS
<1>2. fs[Len(fs)] \in F
  BY <1>1, ElementOf
<1>3. \A x \in F : [x EXCEPT !.ip = ip] \in F
  BY DEF FramesOver, Addresses
<1>4. [fs EXCEPT ![Len(fs)].ip = ip] = t
  OBVIOUS
<1>5. f \in F
  BY <1>2, <1>3
<1> HIDE DEF F, f
<1>6. t \in Seq(F) /\ Len(t) = Len(fs)
  BY <1>1, <1>5, ReplacedIn DEF F
<1>7. t # <<>>
  BY <1>1, <1>6
<1> HIDE DEF t
<1> QED BY <1>4, <1>6, <1>7 DEF F

(* However an instruction ends, with a stack over n dumps.                 *)
LEMMA EndsTyped ==
  ASSUME VMTypeOK, Ready, NEW n \in Nat, HeapSize <= n
  PROVE  /\ \A ip \in Addresses : \A s \in Seq(ValuesOver(n)) : GoTo(ip, s) => ControlOver(n)
         /\ \A s \in Seq(ValuesOver(n)) : Advance(s) => ControlOver(n)
         /\ \A s \in Seq(ValuesOver(n)) : \A v \in ValuesOver(n) :
              Push(s, v) => ControlOver(n)
         /\ \A e \in Errors : Fail(e) => ControlOver(n)
         /\ Crash => ControlOver(n)
<1> DEFINE V == ValuesOver(n)
<1>1. /\ frames \in Seq(FramesOver(Chunks)) /\ frames # <<>> /\ Chunks \in Nat
      /\ stack \in Seq(V) /\ HeapSize \in Nat
  <2>1. frames # <<>>
    BY AtInstruction
  <2> QED BY <2>1, InTypedState, GrowWithHeap
<1>2. status = "running" /\ err \in Errors /\ gas \in Int
  BY Zenon DEF VMTypeOK, Ready
<1>3. gas - 1 \in Int
  BY <1>2
<1>4. \A ip \in Addresses : \A s \in Seq(V) : GoTo(ip, s) => ControlOver(n)
  <2> SUFFICES ASSUME NEW ip \in Addresses, NEW s \in Seq(V), GoTo(ip, s)
               PROVE  ControlOver(n)
    OBVIOUS
  <2>1. frames' \in Seq(FramesOver(Chunks)) /\ frames' # <<>>
    BY <1>1, MovedTyped DEF GoTo
  <2> QED BY <1>2, <1>3, <2>1 DEF GoTo, ControlOver
<1>5. NextIp \in Addresses
  BY AtInstruction DEF Addresses
<1>6. \A s \in Seq(V) : Advance(s) => ControlOver(n)
  BY <1>4, <1>5, Zenon DEF Advance
<1>7. \A e \in Errors : Fail(e) => ControlOver(n)
  BY <1>1, <1>3 DEF Fail, ControlOver
<1>8. Crash => ControlOver(n)
  BY <1>1, <1>2 DEF Crash, ControlOver
<1>9. \A s \in Seq(V) : \A v \in V : Append(s, v) \in Seq(V)
  OBVIOUS
<1> HIDE DEF V
<1>10. \A s \in Seq(V) : \A v \in V : Push(s, v) => ControlOver(n)
  BY <1>6, <1>8, <1>9, Zenon DEF Push
<1> QED BY <1>4, <1>6, <1>7, <1>8, <1>10, Zenon DEF V

(* A step from a well typed state to one.                                  *)
Typed ==
  /\ heap' \in Seq(Dumps) /\ HeapSize <= Len(heap')
  /\ ControlOver(Len(heap'))
  /\ VariablesOver(env', Len(heap'))
  /\ regGoroutine' \in Goroutines \cup {NoGoroutine} /\ regDumpDst' \in 0..Len(heap')
  /\ pragma' \in [Settings -> ValuesOver(0)]
  /\ \A s \in Settings : pragma'[s].tag = NewPragma[s].tag
  /\ {cwd', pcwd'} \subseteq STRING
  /\ didShow' \in BOOLEAN /\ shown' \in Seq(Goroutines)

(* Such a step leads to a well typed state.                                *)
LEMMA TypedStep ==
  ASSUME VMTypeOK, Typed, code' = code
  PROVE  VMTypeOK' /\ Len(heap) <= Len(heap') /\ Len(heap) \in Nat /\ Len(heap') \in Nat
<1>1. IsCode(code')
  BY DEF VMTypeOK
<1>2. frames' \in Seq(FramesOver(Len(code'.chunks)))
  BY DEF Typed, ControlOver, Chunks
<1>3. Len(heap) \in Nat /\ Len(heap') \in Nat
  BY DEF VMTypeOK, Typed
<1>4. Len(heap) <= Len(heap')
  BY DEF Typed, HeapSize
<1>5. VMTypeOK'
  BY <1>1, <1>2 DEF VMTypeOK, Typed, ControlOver
<1> QED BY <1>3, <1>4, <1>5

(* What stays typed when it stays.                                         *)
LEMMA StaysTyped ==
  ASSUME VMTypeOK
  PROVE  /\ heap' = heap => heap' \in Seq(Dumps) /\ HeapSize = Len(heap')
         /\ \A n \in Nat : env' = env /\ HeapSize <= n => VariablesOver(env', n)
         /\ UNCHANGED regGoroutine => regGoroutine' \in Goroutines \cup {NoGoroutine}
         /\ \A n \in Nat : UNCHANGED regDumpDst /\ HeapSize <= n => regDumpDst' \in 0..n
         /\ UNCHANGED pragma =>
              /\ pragma' \in [Settings -> ValuesOver(0)]
              /\ \A s \in Settings : pragma'[s].tag = NewPragma[s].tag
         /\ UNCHANGED <<cwd, pcwd>> => {cwd', pcwd'} \subseteq STRING
         /\ UNCHANGED output => didShow' \in BOOLEAN /\ shown' \in Seq(Goroutines)
<1>1. HeapSize \in Nat
  BY InTypedState
<1>2. heap' = heap => heap' \in Seq(Dumps) /\ HeapSize = Len(heap')
  BY DEF VMTypeOK, HeapSize
<1>3. ASSUME NEW n \in Nat, env' = env, HeapSize <= n PROVE VariablesOver(env', n)
  <2>1. VariablesOver(env, HeapSize)
    BY Zenon DEF VMTypeOK, HeapSize
  <2>2. VariablesOver(env, n)
    BY <1>1, <1>3, <2>1, GrowWithHeap
  <2> QED BY <1>3, <2>2
<1>4. UNCHANGED regGoroutine => regGoroutine' \in Goroutines \cup {NoGoroutine}
  BY DEF VMTypeOK
<1>5. ASSUME NEW n \in Nat, UNCHANGED regDumpDst, HeapSize <= n PROVE regDumpDst' \in 0..n
  <2>1. regDumpDst \in 0..HeapSize
    BY Zenon DEF VMTypeOK, HeapSize
  <2> QED BY <1>1, <1>5, <2>1
<1>6. UNCHANGED pragma =>
        /\ pragma' \in [Settings -> ValuesOver(0)]
        /\ \A s \in Settings : pragma'[s].tag = NewPragma[s].tag
  BY DEF VMTypeOK
<1>7. UNCHANGED <<cwd, pcwd>> => {cwd', pcwd'} \subseteq STRING
  BY DEF VMTypeOK
<1>8. UNCHANGED output => didShow' \in BOOLEAN /\ shown' \in Seq(Goroutines)
  BY DEF VMTypeOK, output
<1> QED BY <1>2, <1>3, <1>4, <1>5, <1>6, <1>7, <1>8

(* A step that only moves control.                                         *)
LEMMA QuietStep ==
  ASSUME VMTypeOK, ControlOver(HeapSize),
         UNCHANGED <<env, heap, registers, settings, output>>
  PROVE  Typed
<1>1. /\ env' = env /\ heap' = heap /\ UNCHANGED regGoroutine /\ UNCHANGED regDumpDst
      /\ UNCHANGED pragma /\ UNCHANGED <<cwd, pcwd>> /\ UNCHANGED output
  BY DEF registers, settings
<1>2. HeapSize \in Nat /\ HeapSize <= HeapSize
  BY InTypedState
<1> QED BY <1>1, <1>2, StaysTyped DEF Typed

(* However an instruction ends that allocates nothing.                     *)
LEMMA EndsHere ==
  ASSUME VMTypeOK, Ready
  PROVE  /\ \A ip \in Addresses : \A s \in Seq(ValuesOver(HeapSize)) :
              GoTo(ip, s) => ControlOver(HeapSize)
         /\ \A s \in Seq(ValuesOver(HeapSize)) : Advance(s) => ControlOver(HeapSize)
         /\ \A s \in Seq(ValuesOver(HeapSize)) : \A v \in ValuesOver(HeapSize) :
              Push(s, v) => ControlOver(HeapSize)
         /\ \A e \in Errors : Fail(e) => ControlOver(HeapSize)
         /\ Crash => ControlOver(HeapSize)
         /\ stack \in Seq(ValuesOver(HeapSize))
         /\ Instr.arg - 1 \in Addresses
<1>1. HeapSize \in Nat /\ HeapSize <= HeapSize /\ stack \in Seq(ValuesOver(HeapSize))
  BY InTypedState
<1>2. Instr.arg - 1 \in Addresses
  BY AtInstruction DEF Addresses
<1> QED BY <1>1, <1>2, EndsTyped

(* A field of a goroutine is a value.                                      *)
LEMMA FieldTyped ==
  ASSUME NEW n, NEW g \in Goroutines, NEW name, Field(g, name) # <<>>
  PROVE  Field(g, name)[1] \in ValuesOver(n)
<1> DEFINE label == IF LabelOf[name] \in DOMAIN g.labels
                    THEN g.labels[LabelOf[name]] ELSE "<nil>"
           V == ValuesOver(n)
<1>1. /\ {g.id, g.createdBy, g.lines, g.duration} \subseteq Nat
      /\ {g.header, g.trace, g.state} \subseteq STRING
      /\ \A l \in DOMAIN g.labels : g.labels[l] \in STRING
  BY VMAssumption
<1>2. label \in STRING
  BY <1>1, TextsAssumption
<1>3. /\ {Number(g.id), Number(g.lines), Number(g.duration), Number(g.createdBy),
          Number(0)} \subseteq V
      /\ {Str(g.header), Str(g.trace), Str(g.state), Str(label)} \subseteq V
      /\ Map(g.labels) \in V
  <2>1. 0 \in Nat
    OBVIOUS
  <2> HIDE DEF V, label
  <2>2. {g.id, g.createdBy, g.lines, g.duration, 0} \subseteq Nat
    BY <1>1, <2>1
  <2>3. \A k \in Nat : Number(k) \in V
    BY ValuesMade DEF V
  <2>4. \A s \in STRING : Str(s) \in V
    BY ValuesMade DEF V
  <2>5. {g.header, g.trace, g.state, label} \subseteq STRING
    BY <1>1, <1>2
  <2>6. Map(g.labels) \in V
    BY ValuesMade DEF V
  <2> QED BY <2>2, <2>3, <2>4, <2>5, <2>6
<1> HIDE DEF V
<1>4. Field(g, name) \in {<<Number(g.id)>>, <<Number(g.lines)>>, <<Number(g.duration)>>,
                          <<Number(g.createdBy)>>, <<Number(0)>>, <<Str(g.header)>>,
                          <<Str(g.trace)>>, <<Str(g.state)>>, <<Str(label)>>,
                          <<Map(g.labels)>>, <<>>}
  BY DEF Field
<1> HIDE DEF label
<1>5. PICK v \in V : Field(g, name) = <<v>>
  BY <1>3, <1>4
<1> QED BY <1>5 DEF V

(* Instructions that push a constant, a variable or a field.               *)
LEMMA LoadsTyped ==
  ASSUME VMTypeOK,
         Noop \/ Dup \/ LoadConstant \/ PushBool \/ LoadGoroutineDump \/ LoadFieldAccessor
  PROVE  Typed
<1> DEFINE V == ValuesOver(HeapSize)
<1>1. Ready
  BY Zenon DEF At, Noop, Dup, LoadConstant, PushBool, LoadGoroutineDump, LoadFieldAccessor
<1>2. UNCHANGED <<env, heap, registers, settings, output>>
  BY Zenon DEF Noop, Dup, LoadConstant, PushBool, LoadGoroutineDump, LoadFieldAccessor
<1>3. /\ \A s \in Seq(V) : Advance(s) => ControlOver(HeapSize)
      /\ \A s \in Seq(V) : \A v \in V : Push(s, v) => ControlOver(HeapSize)
      /\ \A e \in Errors : Fail(e) => ControlOver(HeapSize)
      /\ stack \in Seq(V)
  BY <1>1, EndsHere
<1>4. \A op \in Fetches : At(op) => HasConstant
  BY Zenon DEF At
<1>5. ASSUME HasConstant
      PROVE  /\ Constant.tag = "string" => Constant \in V /\ Constant.str \in STRING
             /\ Constant.tag = "number" => Constant \in V
  <2>1. /\ Constant.tag = "string" => Constant \in [tag : {"string"}, str : STRING]
        /\ Constant.tag = "number" => Constant \in [tag : {"number"}, num : Nat]
    BY <1>1, <1>5, ConstantTyped
  <2>2. /\ [tag : {"string"}, str : STRING] \subseteq V
        /\ [tag : {"number"}, num : Nat] \subseteq V
    BY DEF ValuesOver
  <2>3. \A c \in [tag : {"string"}, str : STRING] : c.str \in STRING
    OBVIOUS
  <2> QED BY <2>1, <2>2, <2>3
<1> HIDE DEF V
<1>6. Noop => ControlOver(HeapSize)
  BY <1>3, Zenon DEF Noop
<1>7. ASSUME Dup PROVE ControlOver(HeapSize)
  <2>1. Nth(1) \in V
    <3>1. Holds(1)
      BY <1>7, OperandsOf, Zenon DEF Dup
    <3>2. 1 \in 1..1
      OBVIOUS
    <3> QED BY <3>1, <3>2 DEF Holds, V
  <2> QED BY <1>3, <1>7, <2>1, Zenon DEF Dup
<1>8. ASSUME LoadConstant PROVE ControlOver(HeapSize)
  <2>1. HasConstant
    <3>1. {"LoadNumber", "LoadString"} \subseteq Fetches
      BY DEF Fetches
    <3> QED BY <1>4, <1>8, <3>1 DEF LoadConstant
  <2>2. Constant.tag \in {"number", "string"}
    <3>1. Instr.op \in {"LoadNumber", "LoadString"}
      BY <1>8, Zenon DEF LoadConstant, At
    <3> QED BY <2>1, <3>1 DEF HasConstant, ConstantTags
  <2>3. Constant \in V
    BY <1>5, <2>1, <2>2
  <2> QED BY <1>3, <1>8, <2>3, Zenon DEF LoadConstant
<1>9. ASSUME PushBool PROVE ControlOver(HeapSize)
  <2>1. Bool(Instr.arg = 1) \in V
    <3>1. (Instr.arg = 1) \in BOOLEAN
      OBVIOUS
    <3> QED BY <3>1, ValuesMade DEF V
  <2> QED BY <1>3, <1>9, <2>1, Zenon DEF PushBool
<1>10. ASSUME LoadGoroutineDump PROVE ControlOver(HeapSize)
  <2>1. \/ Fail("ErrNoSuchEnv") \/ Fail("ErrInvalidType")
        \/ Constant.str \in DOMAIN env /\ Push(stack, env[Constant.str])
    BY <1>10, Zenon DEF LoadGoroutineDump
  <2>2. \A name \in DOMAIN env : env[name] \in V
    BY Zenon DEF VMTypeOK, VariablesOver, V, HeapSize
  <2>3. {"ErrNoSuchEnv", "ErrInvalidType"} \subseteq Errors
    BY DEF Errors
  <2> QED BY <1>3, <2>1, <2>2, <2>3
<1>11. ASSUME LoadFieldAccessor PROVE ControlOver(HeapSize)
  <2> DEFINE field == Field(regGoroutine, Constant.str)
  <2>1. \/ Fail("ErrNotIterating") \/ Advance(stack)
        \/ regGoroutine # NoGoroutine /\ field # <<>> /\ Push(stack, field[1])
    BY <1>11, Zenon DEF LoadFieldAccessor
  <2>2. regGoroutine # NoGoroutine /\ field # <<>> => field[1] \in V
    BY FieldTyped DEF VMTypeOK, V
  <2>3. "ErrNotIterating" \in Errors
    BY DEF Errors
  <2> QED BY <1>3, <2>1, <2>2, <2>3
<1>12. ControlOver(HeapSize)
  BY <1>6, <1>7, <1>8, <1>9, <1>10, <1>11
<1> QED BY <1>2, <1>12, QuietStep

(* Assignments bind names to values that are on the stack.                 *)
LEMMA AssignmentsTyped ==
  ASSUME VMTypeOK, Assignment \/ AssignMulti
  PROVE  Typed
<1> DEFINE V == ValuesOver(HeapSize)
<1>1. Ready /\ HasConstant
  <2>1. "Assignment" \in Fetches
    BY DEF Fetches
  <2> QED BY <2>1, Zenon DEF At, Assignment, AssignMulti
<1>2. UNCHANGED <<heap, registers, settings, output>>
  BY Zenon DEF Assignment, AssignMulti
<1>3. /\ \A s \in Seq(V) : Advance(s) => ControlOver(HeapSize)
      /\ \A e \in Errors : Fail(e) => ControlOver(HeapSize)
      /\ Crash => ControlOver(HeapSize)
      /\ stack \in Seq(V)
  BY <1>1, EndsHere
<1>4. Nth(1) \in V
  <2>1. Holds(1)
    BY OperandsOf, Zenon DEF Assignment, AssignMulti
  <2>2. 1 \in 1..1
    OBVIOUS
  <2> QED BY <2>1, <2>2 DEF Holds
<1>5. VariablesOver(env, HeapSize)
  BY Zenon DEF VMTypeOK, HeapSize
<1> HIDE DEF V
<1>6. ASSUME Assignment
      PROVE  ControlOver(HeapSize) /\ VariablesOver(env', HeapSize)
  <2>1. Constant.str \in STRING
    <3>1. Constant.tag = "string"
      BY <1>6, Zenon DEF Assignment
    <3> QED BY <1>1, <3>1, ConstantTyped
  <2>2. VariablesOver(Bind(env, Constant.str, Nth(1)), HeapSize)
    BY <1>4, <1>5, <2>1, BindTyped DEF V
  <2>3. env' = Bind(env, Constant.str, Nth(1)) /\ Advance(stack)
    BY <1>6, Zenon DEF Assignment
  <2> QED BY <1>3, <2>2, <2>3
<1>7. ASSUME AssignMulti
      PROVE  ControlOver(HeapSize) /\ VariablesOver(env', HeapSize)
  <2> DEFINE names == Constant.targets
             top == Nth(1)
             Bound(e, i, ref) == BindTarget(e, names[i], ref)
  <2>1. CASE /\ top.tag = "diff" /\ Len(names) = 3
             /\ env' = Bound(Bound(Bound(env, 1, top.left), 2, top.common), 3, top.right)
             /\ Advance(stack)
    <3>1. Constant.tag = "multi"
      BY <1>7, Zenon DEF AssignMulti
    <3>2. \A i \in 1..3 : code.constants[names[i] + 1].str \in STRING
      <4>1. /\ names \in Seq(Nat)
            /\ \A i \in DOMAIN names : code.constants[names[i] + 1].str \in STRING
        BY <1>1, <3>1, ConstantTyped
      <4>2. DOMAIN names = 1..3
        BY <2>1, <4>1
      <4> QED BY <4>1, <4>2
    <3>3. top.left \in 1..HeapSize /\ top.common \in 1..HeapSize /\ top.right \in 1..HeapSize
      BY <1>4, <2>1, ValuesTagged DEF V
    <3>4. \A r \in 1..HeapSize : Dump(r) \in ValuesOver(HeapSize)
      BY ValuesMade
    <3>5. ASSUME NEW e, VariablesOver(e, HeapSize), NEW i \in 1..3, NEW r \in 1..HeapSize
          PROVE  VariablesOver(Bound(e, i, r), HeapSize)
      <4> DEFINE name == code.constants[names[i] + 1].str
      <4>1. name \in STRING
        BY <3>2
      <4>2. Bound(e, i, r) = IF name = "_" THEN e ELSE Bind(e, name, Dump(r))
        BY Zenon DEF BindTarget
      <4> HIDE DEF Bound, name
      <4> QED BY <3>4, <3>5, <4>1, <4>2, BindTyped
    <3>6. 1 \in 1..3 /\ 2 \in 1..3 /\ 3 \in 1..3
      OBVIOUS
    <3> HIDE DEF Bound
    <3>7. VariablesOver(env', HeapSize)
      BY <1>5, <2>1, <3>3, <3>5, <3>6
    <3> QED BY <1>3, <2>1, <3>7
  <2>2. CASE env' = env /\ (Advance(stack) \/ Crash \/ Fail("ErrExpectedDiffAssign"))
    <3>1. "ErrExpectedDiffAssign" \in Errors
      BY DEF Errors
    <3> QED BY <1>3, <1>5, <2>2, <3>1
  <2> QED BY <1>7, <2>1, <2>2, Zenon DEF AssignMulti
<1>8. ControlOver(HeapSize) /\ VariablesOver(env', HeapSize)
  BY <1>6, <1>7
<1>9. /\ heap' = heap /\ UNCHANGED regGoroutine /\ UNCHANGED regDumpDst
      /\ UNCHANGED pragma /\ UNCHANGED <<cwd, pcwd>> /\ UNCHANGED output
  BY <1>2 DEF registers, settings
<1>10. HeapSize \in Nat /\ HeapSize <= HeapSize
  BY InTypedState
<1> QED BY <1>8, <1>9, <1>10, StaysTyped DEF Typed

(* A comparison is true or false.                                          *)
LEMMA CompareTyped ==
  ASSUME NEW n, NEW left \in ValuesOver(n), NEW right \in ValuesOver(n),
         left.tag = right.tag, NEW op \in Comparisons
  PROVE  Compare(op, left, right) \in BOOLEAN
<1>1. ASSUME NEW less \in BOOLEAN, NEW equal \in BOOLEAN
      PROVE  Ordered(op, less, equal) \in BOOLEAN
  BY DEF Ordered, Comparisons
<1>2. CASE left.tag = "number"
  <2>1. left.num \in Nat /\ right.num \in Nat
    BY <1>2, ValuesTagged
  <2>2. (left.num < right.num) \in BOOLEAN /\ (left.num = right.num) \in BOOLEAN
    BY <2>1
  <2>3. Compare(op, left, right) = Ordered(op, left.num < right.num, left.num = right.num)
    BY <1>2 DEF Compare
  <2> QED BY <1>1, <2>2, <2>3
<1>3. CASE left.tag = "string"
  <2>1. /\ (<<left.str, right.str>> \in Precedes) \in BOOLEAN
        /\ (left.str = right.str) \in BOOLEAN
    OBVIOUS
  <2>2. Compare(op, left, right)
          = Ordered(op, <<left.str, right.str>> \in Precedes, left.str = right.str)
    BY <1>3 DEF Compare
  <2> QED BY <1>1, <2>1, <2>2
<1>4. CASE left.tag \notin {"number", "string"}
  <2>1. Compare(op, left, right) = FALSE
    BY <1>4 DEF Compare
  <2> QED BY <2>1
<1> QED BY <1>2, <1>3, <1>4

(* Instructions that push the result of a comparison.                      *)
LEMMA ComparisonsTyped ==
  ASSUME VMTypeOK, Comparison \/ ContainsOrIn \/ RegexMatches
  PROVE  Typed
<1> DEFINE V == ValuesOver(HeapSize)
<1>1. Ready
  BY Zenon DEF At, Comparison, ContainsOrIn, RegexMatches
<1>2. UNCHANGED <<env, heap, registers, settings, output>>
  BY Zenon DEF Comparison, ContainsOrIn, RegexMatches
<1>3. /\ \A s \in Seq(V) : \A v \in V : Push(s, v) => ControlOver(HeapSize)
      /\ \A e \in Errors : Fail(e) => ControlOver(HeapSize)
  BY <1>1, EndsHere
<1>4. Nth(1) \in V /\ Nth(2) \in V /\ Rest(2) \in Seq(V)
  <2>1. Holds(2)
    BY OperandsOf, Zenon DEF Comparison, ContainsOrIn, RegexMatches
  <2>2. 1 \in 1..2 /\ 2 \in 1..2
    OBVIOUS
  <2> QED BY <2>1, <2>2 DEF Holds
<1>5. \A b \in BOOLEAN : Bool(b) \in V
  BY ValuesMade
<1>6. {"MismatchedTypes", "ErrInvalidType", "InvalidRegex"} \subseteq Errors
  BY DEF Errors
<1>7. ASSUME Comparison PROVE ControlOver(HeapSize)
  <2> DEFINE b == Compare(Instr.op, Nth(2), Nth(1))
  <2>1. \/ Nth(2).tag = Nth(1).tag /\ Push(Rest(2), Bool(b))
        \/ Fail("MismatchedTypes")
    BY <1>7, Zenon DEF Comparison
  <2>2. Instr.op \in Comparisons
    BY <1>7, Zenon DEF Comparison, At
  <2>3. ASSUME Nth(2).tag = Nth(1).tag PROVE b \in BOOLEAN
    BY <1>4, <2>2, <2>3, CompareTyped
  <2> HIDE DEF b, V
  <2> QED BY <1>3, <1>4, <1>5, <1>6, <2>1, <2>3
<1>8. ASSUME ContainsOrIn PROVE ControlOver(HeapSize)
  <2>1. \/ \E b \in BOOLEAN : Push(Rest(2), Bool(b))
        \/ Fail("ErrInvalidType")
    <3> DEFINE container == IF Instr.op = "Contains" THEN Nth(2) ELSE Nth(1)
               contained == IF Instr.op = "Contains" THEN Nth(1) ELSE Nth(2)
               b == IF container.tag = "string"
                    THEN <<contained.str, container.str>> \in Substrings
                    ELSE contained.str \in DOMAIN container.labels
    <3>1. Push(Rest(2), Bool(b)) \/ Fail("ErrInvalidType")
      BY <1>8, Zenon DEF ContainsOrIn
    <3> HIDE DEF container, contained
    <3>2. b \in BOOLEAN
      <4>1. CASE container.tag = "string"
        BY <4>1
      <4>2. CASE container.tag # "string"
        BY <4>2
      <4> QED BY <4>1, <4>2
    <3> HIDE DEF b
    <3> QED BY <3>1, <3>2, Zenon
  <2> HIDE DEF V
  <2> QED BY <1>3, <1>4, <1>5, <1>6, <2>1
<1>9. ASSUME RegexMatches PROVE ControlOver(HeapSize)
  <2>1. \/ \E b \in BOOLEAN : Push(Rest(2), Bool(b))
        \/ Fail("InvalidRegex")
    <3> DEFINE b == (<<Nth(1).str, Nth(2).str>> \in Matches <=> Instr.op = "RegexMatches")
    <3>1. Push(Rest(2), Bool(b)) \/ Fail("InvalidRegex")
      BY <1>9, Zenon DEF RegexMatches
    <3>2. b \in BOOLEAN
      OBVIOUS
    <3> HIDE DEF b
    <3> QED BY <3>1, <3>2
  <2> HIDE DEF V
  <2> QED BY <1>3, <1>4, <1>5, <1>6, <2>1
<1>10. ControlOver(HeapSize)
  BY <1>7, <1>8, <1>9
<1> QED BY <1>2, <1>10, QuietStep

(* Jumps, and the calls and returns that push and pop a frame.             *)
LEMMA JumpsTyped ==
  ASSUME VMTypeOK, ConditionalJump \/ JumpTo \/ Call \/ Return
  PROVE  Typed
<1> DEFINE V == ValuesOver(HeapSize)
<1>1. Ready
  BY Zenon DEF At, ConditionalJump, JumpTo, Call, Return
<1>2. UNCHANGED <<env, heap, registers, settings, output>>
  BY Zenon DEF ConditionalJump, JumpTo, Call, Return
<1>3. /\ \A ip \in Addresses : \A s \in Seq(V) : GoTo(ip, s) => ControlOver(HeapSize)
      /\ \A s \in Seq(V) : Advance(s) => ControlOver(HeapSize)
      /\ Crash => ControlOver(HeapSize)
      /\ stack \in Seq(V) /\ Instr.arg - 1 \in Addresses
  BY <1>1, EndsHere
<1>4. /\ frames \in Seq(FramesOver(Chunks)) /\ Len(frames) > 0 /\ frames # <<>>
      /\ Frame \in FramesOver(Chunks) /\ NextIp \in Nat /\ Instr.arg \in Nat
      /\ Chunks \in Nat /\ NextIp \in Addresses
  BY <1>1, InTypedState, AtInstruction DEF Addresses
<1>5. /\ status = "running" /\ err \in Errors /\ gas - 1 \in Int
  <2>1. status = "running" /\ err \in Errors /\ gas \in Int
    BY <1>1, Zenon DEF VMTypeOK, Ready
  <2> QED BY <2>1
<1> HIDE DEF V
<1>6. ASSUME ConditionalJump PROVE ControlOver(HeapSize)
  <2>1. Rest(1) \in Seq(V)
    BY <1>6, OperandsOf, Zenon DEF ConditionalJump, Holds, V
  <2>2. GoTo(Instr.arg - 1, Rest(1)) \/ Advance(Rest(1))
    BY <1>6, Zenon DEF ConditionalJump
  <2> QED BY <1>3, <2>1, <2>2
<1>7. JumpTo => ControlOver(HeapSize)
  BY <1>3, Zenon DEF JumpTo
<1>8. ASSUME Call PROVE ControlOver(HeapSize)
  <2> DEFINE F == FramesOver(Chunks)
             fs == [frames EXCEPT ![Len(frames)].ip = NextIp]
             f == [chunk |-> Instr.arg + 1, ip |-> -1, returnAddr |-> NextIp]
  <2>1. CASE Crash
    BY <1>3, <2>1
  <2>2. CASE /\ Instr.arg < Len(code.chunks)
             /\ frames' = Append(fs, f)
             /\ gas' = gas - 1 /\ UNCHANGED <<status, err, stack>>
    <3>1. fs \in Seq(F)
      BY <1>4, MovedTyped
    <3>2. f \in F
      <4>1. Instr.arg + 1 \in 1..Chunks /\ NextIp \in Nat
        BY <1>4, <2>2 DEF Chunks
      <4> HIDE DEF F
      <4>2. \A c \in 1..Chunks, r \in Nat : [chunk |-> c, ip |-> -1, returnAddr |-> r] \in F
        BY DEF F, FramesOver
      <4> QED BY <4>1, <4>2
    <3> HIDE DEF F, fs, f
    <3>3. Append(fs, f) \in Seq(F) /\ Append(fs, f) # <<>>
      <4>1. Append(fs, f) \in Seq(F) /\ Len(Append(fs, f)) = Len(fs) + 1 /\ Len(fs) \in Nat
        BY <3>1, <3>2, AppendedTo
      <4>2. Len(<<>>) = 0
        OBVIOUS
      <4> QED BY <4>1, <4>2
    <3>4. frames' \in Seq(F) /\ frames' # <<>>
      BY <2>2, <3>3
    <3>5. /\ status' \in {"running", "returned", "crashed"} /\ err' \in Errors
          /\ gas' \in Int /\ stack' \in Seq(V)
      BY <1>3, <1>5, <2>2
    <3> QED BY <3>4, <3>5 DEF ControlOver, F, V
  <2> QED BY <1>8, <2>1, <2>2, Zenon DEF Call
<1>9. ASSUME Return PROVE ControlOver(HeapSize)
  <2> DEFINE F == FramesOver(Chunks)
             fs == SubSeq(frames, 1, Len(frames) - 1)
             t == [fs EXCEPT ![Len(frames) - 1].ip = Frame.returnAddr]
  <2>1. CASE Crash
    BY <1>3, <2>1
  <2>2. CASE /\ Len(frames) > 1
             /\ frames' = t
             /\ gas' = gas - 1 /\ UNCHANGED <<status, err, stack>>
    <3> HIDE DEF F
    <3>1. fs \in Seq(F) /\ fs # <<>> /\ Len(fs) = Len(frames) - 1
      <4>1. frames \in Seq(F) /\ Len(frames) > 1 /\ Len(frames) \in Nat
        BY <1>4, <2>2, InTypedState DEF F
      <4>2. fs \in Seq(F) /\ Len(fs) = Len(frames) - 1
        <5>1. Len(frames) - 1 \in Int /\ Len(frames) - 1 <= Len(frames) /\ Len(frames) - 1 >= 0
          BY <4>1
        <5> QED BY <4>1, <5>1, PrefixOf
      <4> HIDE DEF fs
      <4>3. Len(fs) > 0
        BY <4>1, <4>2
      <4> QED BY <4>2, <4>3
    <3>2. Frame.returnAddr \in Addresses
      BY <1>4 DEF FramesOver, Addresses
    <3> HIDE DEF fs
    <3>3. t \in Seq(F) /\ t # <<>>
      BY <1>4, <3>1, <3>2, MovedTyped DEF F
    <3>4. frames' \in Seq(F) /\ frames' # <<>>
      BY <2>2, <3>3
    <3>5. /\ status' \in {"running", "returned", "crashed"} /\ err' \in Errors
          /\ gas' \in Int /\ stack' \in Seq(V)
      BY <1>3, <1>5, <2>2
    <3> QED BY <3>4, <3>5 DEF ControlOver, F, V
  <2> QED BY <1>9, <2>1, <2>2, Zenon DEF Return
<1>10. ControlOver(HeapSize)
  BY <1>6, <1>7, <1>8, <1>9
<1> QED BY <1>2, <1>10, QuietStep

-----------------------------------------------------------------------------
(* The heap, after an allocation or a change to one of its dumps.          *)
LEMMA DumpsTyped ==
  ASSUME NEW d \in Dumps
  PROVE  /\ d.iterIndex \in Nat /\ d.goroutines \in Seq(Goroutines) /\ d.isIndexed \in BOOLEAN
         /\ \A k \in Nat : [d EXCEPT !.iterIndex = k] \in Dumps
         /\ \A b \in BOOLEAN : [d EXCEPT !.isIndexed = b] \in Dumps
         /\ \A gs \in Seq(Goroutines) : [d EXCEPT !.goroutines = gs] \in Dumps
BY DEF Dumps

(* Writing a dump of the heap.                                             *)
LEMMA HeapTyped ==
  ASSUME VMTypeOK, NEW r \in 1..HeapSize, NEW d \in Dumps, heap' = [heap EXCEPT ![r] = d]
  PROVE  heap' \in Seq(Dumps) /\ Len(heap') = HeapSize
<1>1. heap \in Seq(Dumps) /\ Dumps \subseteq Dumps
  BY DEF VMTypeOK
<1> QED BY <1>1, ReplacedIn DEF HeapSize

(* Allocating a dump, and the value that refers to it.                     *)
LEMMA Allocated ==
  ASSUME VMTypeOK, NEW d \in Dumps, heap' = Append(heap, d)
  PROVE  /\ heap' \in Seq(Dumps) /\ Len(heap') = HeapSize + 1
         /\ Dump(Len(heap) + 1) \in ValuesOver(Len(heap'))
<1>1. heap \in Seq(Dumps) /\ Dumps \subseteq Dumps
  BY DEF VMTypeOK
<1>2. heap' \in Seq(Dumps) /\ Len(heap') = HeapSize + 1
  BY <1>1, AppendedTo DEF HeapSize
<1>3. Len(heap) + 1 \in 1..Len(heap')
  BY <1>1, <1>2 DEF HeapSize
<1> QED BY <1>2, <1>3, ValuesMade

(* What is left to show of a step that changes the heap.                   *)
LEMMA HeapStep ==
  ASSUME VMTypeOK, heap' \in Seq(Dumps), HeapSize <= Len(heap'),
         ControlOver(Len(heap')),
         UNCHANGED <<env, settings>>,
         regGoroutine' \in Goroutines \cup {NoGoroutine},
         regDumpDst' \in 0..Len(heap'),
         didShow' \in BOOLEAN, shown' \in Seq(Goroutines)
  PROVE  Typed
<1>1. Len(heap') \in Nat
  OBVIOUS
<1>2. env' = env /\ UNCHANGED pragma /\ UNCHANGED <<cwd, pcwd>>
  BY DEF settings
<1>3. VariablesOver(env', Len(heap'))
  BY <1>1, <1>2, StaysTyped
<1> QED BY <1>2, <1>3, StaysTyped DEF Typed

(* The instructions of a filter: its temporary dump, and what it           *)
(* collects.                                                               *)
LEMMA FiltersTyped ==
  ASSUME VMTypeOK, TempDump \/ ResetDump \/ PushDump \/ AddGoroutine
  PROVE  Typed
<1> DEFINE V == ValuesOver(HeapSize)
<1>1. Ready
  BY Zenon DEF At, TempDump, ResetDump, PushDump, AddGoroutine
<1>2. UNCHANGED <<env, settings>> /\ UNCHANGED output /\ UNCHANGED regGoroutine
  BY Zenon DEF TempDump, ResetDump, PushDump, AddGoroutine, registers
<1>3. /\ \A s \in Seq(V) : Advance(s) => ControlOver(HeapSize)
      /\ \A s \in Seq(V) : \A v \in V : Push(s, v) => ControlOver(HeapSize)
      /\ Crash => ControlOver(HeapSize)
      /\ stack \in Seq(V)
  BY <1>1, EndsHere
<1>4. /\ regGoroutine' \in Goroutines \cup {NoGoroutine}
      /\ didShow' \in BOOLEAN /\ shown' \in Seq(Goroutines)
  BY <1>2, StaysTyped
<1>5. heap \in Seq(Dumps) /\ HeapSize \in Nat /\ HeapSize = Len(heap)
      /\ \A r \in 1..HeapSize : heap[r] \in Dumps
  BY InTypedState DEF VMTypeOK, HeapSize
<1>6. regDumpDst \in 0..HeapSize
  BY Zenon DEF VMTypeOK, HeapSize
<1>7. regDumpDst # 0 => regDumpDst \in 1..HeapSize /\ heap[regDumpDst] \in Dumps
  BY <1>5, <1>6
<1>8. ASSUME TempDump PROVE Typed
  <2>1. NewDump(<<>>) \in Dumps
    <3>1. <<>> \in Seq(Goroutines)
      OBVIOUS
    <3> QED BY <3>1 DEF NewDump, Dumps
  <2>2. heap' = Append(heap, NewDump(<<>>)) /\ regDumpDst' = Len(heap) + 1 /\ Advance(stack)
    BY <1>8, Zenon DEF TempDump
  <2>3. heap' \in Seq(Dumps) /\ Len(heap') = HeapSize + 1
    BY <2>1, <2>2, Allocated
  <2>4. HeapSize <= Len(heap') /\ Len(heap') \in Nat /\ regDumpDst' \in 0..Len(heap')
    BY <1>5, <2>2, <2>3
  <2>5. stack \in Seq(ValuesOver(Len(heap')))
    BY <1>3, <1>5, <2>4, GrowWithHeap
  <2>6. ControlOver(Len(heap'))
    BY <1>1, <2>2, <2>4, <2>5, EndsTyped
  <2> QED BY <1>2, <1>4, <2>3, <2>4, <2>6, HeapStep
<1>9. ASSUME \E v \in Dumps :
               /\ regDumpDst # 0 /\ heap' = [heap EXCEPT ![regDumpDst] = v]
               /\ ControlOver(HeapSize) /\ regDumpDst' = regDumpDst
      PROVE  Typed
  <2>1. heap' \in Seq(Dumps) /\ Len(heap') = HeapSize
    BY <1>7, <1>9, HeapTyped
  <2> QED BY <1>2, <1>4, <1>5, <1>6, <1>9, <2>1, HeapStep
<1>10. ASSUME heap' = heap /\ Crash /\ regDumpDst' = regDumpDst
       PROVE  Typed
  BY <1>2, <1>3, <1>4, <1>5, <1>6, <1>10, HeapStep
<1>11. regDumpDst # 0 => /\ [heap[regDumpDst] EXCEPT !.iterIndex = 0] \in Dumps
                         /\ Dump(regDumpDst) \in V
  BY <1>7, DumpsTyped, ValuesMade
<1> HIDE DEF V
<1>12. ASSUME ResetDump PROVE Typed
  <2>1. \/ heap' = heap /\ Crash
        \/ /\ regDumpDst # 0 /\ Advance(stack)
           /\ heap' = [heap EXCEPT ![regDumpDst].iterIndex = 0]
    BY <1>12, Zenon DEF ResetDump
  <2>2. regDumpDst' = regDumpDst
    BY <1>12 DEF ResetDump, registers
  <2>3. [heap EXCEPT ![regDumpDst].iterIndex = 0]
          = [heap EXCEPT ![regDumpDst] = [heap[regDumpDst] EXCEPT !.iterIndex = 0]]
    BY <1>5
  <2> QED BY <1>3, <1>9, <1>10, <1>11, <2>1, <2>2, <2>3
<1>13. ASSUME PushDump PROVE Typed
  <2>1. \/ heap' = heap /\ Crash
        \/ /\ regDumpDst # 0 /\ Push(stack, Dump(regDumpDst))
           /\ heap' = [heap EXCEPT ![regDumpDst].iterIndex = 0]
    BY <1>13, Zenon DEF PushDump
  <2>2. regDumpDst' = regDumpDst
    BY <1>13 DEF PushDump, registers
  <2>3. [heap EXCEPT ![regDumpDst].iterIndex = 0]
          = [heap EXCEPT ![regDumpDst] = [heap[regDumpDst] EXCEPT !.iterIndex = 0]]
    BY <1>5
  <2> QED BY <1>3, <1>9, <1>10, <1>11, <2>1, <2>2, <2>3
<1>14. ASSUME AddGoroutine PROVE Typed
  <2> DEFINE d == heap[regDumpDst]
             gs == Append(d.goroutines, regGoroutine)
  <2>1. \/ heap' = heap /\ Crash
        \/ /\ regDumpDst # 0 /\ regGoroutine # NoGoroutine /\ Advance(stack)
           /\ heap' = [heap EXCEPT ![regDumpDst].goroutines = Append(@, regGoroutine)]
    BY <1>14, Zenon DEF AddGoroutine
  <2>2. regDumpDst' = regDumpDst
    BY <1>14 DEF AddGoroutine, registers
  <2>3. [heap EXCEPT ![regDumpDst].goroutines = Append(@, regGoroutine)]
          = [heap EXCEPT ![regDumpDst] = [d EXCEPT !.goroutines = gs]]
    BY <1>5
  <2>4. ASSUME regDumpDst # 0, regGoroutine # NoGoroutine
        PROVE  [d EXCEPT !.goroutines = gs] \in Dumps
    <3>1. regGoroutine \in Goroutines
      BY <2>4 DEF VMTypeOK
    <3>2. d \in Dumps
      BY <1>7, <2>4
    <3>3. d.goroutines \in Seq(Goroutines)
      BY <3>2, DumpsTyped
    <3>4. gs \in Seq(Goroutines)
      BY <3>1, <3>3
    <3> HIDE DEF d, gs
    <3> QED BY <3>2, <3>4, DumpsTyped
  <2> HIDE DEF d, gs
  <2> QED BY <1>3, <1>9, <1>10, <2>1, <2>2, <2>3, <2>4
<1> QED BY <1>8, <1>12, <1>13, <1>14

(* Moving to the next goroutine of a loop.                                 *)
LEMMA LoopsTyped ==
  ASSUME VMTypeOK, NextGoroutine
  PROVE  Typed
<1> DEFINE V == ValuesOver(HeapSize)
<1>1. Ready
  BY Zenon DEF At, NextGoroutine
<1>2. UNCHANGED <<env, settings>> /\ UNCHANGED output /\ UNCHANGED regDumpDst
  BY Zenon DEF NextGoroutine
<1>3. /\ \A ip \in Addresses : \A s \in Seq(V) : GoTo(ip, s) => ControlOver(HeapSize)
      /\ \A s \in Seq(V) : \A v \in V : Push(s, v) => ControlOver(HeapSize)
      /\ \A e \in Errors : Fail(e) => ControlOver(HeapSize)
      /\ stack \in Seq(V) /\ Instr.arg - 1 \in Addresses
  BY <1>1, EndsHere
<1>4. /\ heap \in Seq(Dumps) /\ HeapSize \in Nat /\ HeapSize = Len(heap)
      /\ \A r \in 1..HeapSize : heap[r] \in Dumps
      /\ Len(stack) \in Nat
  BY InTypedState DEF VMTypeOK, HeapSize
<1>5. ASSUME NEW k \in Nat, k <= Len(stack), k >= 1
      PROVE  /\ Nth(k) \in V
             /\ Nth(k).tag = "dump" => Nth(k).ref \in 1..HeapSize
             /\ Rest(k) \in Seq(V)
  <2>1. Holds(k)
    BY <1>5, OperandsTyped
  <2>2. k \in 1..k
    BY <1>5
  <2>3. Nth(k) \in V /\ Rest(k) \in Seq(V)
    BY <2>1, <2>2 DEF Holds
  <2> QED BY <2>3, ValuesTagged
<1> HIDE DEF V
<1>6. /\ didShow' \in BOOLEAN /\ shown' \in Seq(Goroutines)
      /\ regDumpDst' \in 0..HeapSize
  BY <1>2, <1>4, StaysTyped
<1>7. ASSUME NEW r \in 1..HeapSize, NEW k \in Nat, NEW s \in Seq(V), Iterate(r, k, s)
      PROVE  Typed
  <2> DEFINE d == heap[r]
             gs == d.goroutines
             g == gs[k + 1]
             next(n) == [heap EXCEPT ![r].iterIndex = n]
  <2>1. d \in Dumps /\ gs \in Seq(Goroutines)
    BY <1>4, DumpsTyped
  <2>2. ASSUME NEW n \in Nat, heap' = next(n)
        PROVE  heap' \in Seq(Dumps) /\ Len(heap') = HeapSize
    <3>1. [d EXCEPT !.iterIndex = n] \in Dumps
      BY <2>1, DumpsTyped
    <3>2. next(n) = [heap EXCEPT ![r] = [d EXCEPT !.iterIndex = n]]
      BY <1>4
    <3> QED BY <2>2, <3>1, <3>2, HeapTyped
  <2>3. CASE /\ k < Len(gs) /\ heap' = next(k + 1)
             /\ regGoroutine' = g /\ Push(s, Goroutine(g))
    <3>1. k + 1 \in 1..Len(gs) /\ k + 1 \in Nat
      BY <2>1, <2>3
    <3>2. g \in Goroutines
      BY <2>1, <3>1, ElementOf
    <3>3. Goroutine(g) \in V
      BY <3>2, ValuesMade DEF V
    <3> HIDE DEF g, gs, next
    <3>4. heap' \in Seq(Dumps) /\ Len(heap') = HeapSize
      BY <2>2, <2>3, <3>1
    <3> QED BY <1>2, <1>3, <1>4, <1>6, <1>7, <2>3, <3>2, <3>3, <3>4, HeapStep
  <2>4. CASE /\ heap' = next(k) /\ regGoroutine' = NoGoroutine
             /\ GoTo(Instr.arg - 1, SubSeq(s, 1, Len(s) - 1))
    <3> DEFINE t == SubSeq(s, 1, Len(s) - 1)
    <3>1. t \in Seq(V)
      <4>1. Len(s) - 1 \in Int /\ Len(s) - 1 <= Len(s)
        OBVIOUS
      <4> QED BY <4>1, PrefixOf
    <3> HIDE DEF next, t
    <3>2. ControlOver(HeapSize)
      BY <1>3, <2>4, <3>1 DEF t
    <3>3. heap' \in Seq(Dumps) /\ Len(heap') = HeapSize
      BY <2>2, <2>4
    <3> QED BY <1>2, <1>4, <1>6, <2>4, <3>2, <3>3, HeapStep
  <2> QED BY <1>7, <2>3, <2>4, Zenon DEF Iterate
<1>8. ASSUME TagOf(1) = "dump", Iterate(Nth(1).ref, 0, stack)
      PROVE  Typed
  <2>1. 1 <= Len(stack) /\ Nth(1).tag = "dump"
    BY <1>8 DEF TagOf
  <2>2. Nth(1).ref \in 1..HeapSize /\ 0 \in Nat
    BY <1>5, <2>1
  <2> QED BY <1>3, <1>7, <1>8, <2>2
<1>9. ASSUME TagOf(2) = "dump", Iterate(Nth(2).ref, heap[Nth(2).ref].iterIndex, Rest(1))
      PROVE  Typed
  <2>1. 2 <= Len(stack) /\ 1 <= Len(stack) /\ Nth(2).tag = "dump"
    BY <1>4, <1>9 DEF TagOf
  <2>2. Nth(2).ref \in 1..HeapSize /\ Rest(1) \in Seq(V)
    BY <1>5, <2>1
  <2>3. heap[Nth(2).ref].iterIndex \in Nat
    BY <1>4, <2>2, DumpsTyped
  <2> QED BY <1>7, <1>9, <2>2, <2>3
<1>10. ASSUME Fail("ErrInvalidType") \/ Fail("ErrUnexpectedStackState"),
              UNCHANGED <<heap, regGoroutine>>
       PROVE  Typed
  <2>1. {"ErrInvalidType", "ErrUnexpectedStackState"} \subseteq Errors
    BY DEF Errors
  <2>2. ControlOver(HeapSize)
    BY <1>3, <1>10, <2>1
  <2> QED BY <1>2, <1>10, <2>2, QuietStep DEF registers
<1> QED BY <1>8, <1>9, <1>10, Zenon DEF NextGoroutine

-----------------------------------------------------------------------------
(* A function that pushes a dump that it allocates.                        *)
LEMMA PushNewTyped ==
  ASSUME VMTypeOK, Ready, NEW s \in Seq(ValuesOver(HeapSize)),
         NEW gs \in Seq(Goroutines), NEW indexed \in BOOLEAN,
         PushNew(s, gs, indexed),
         UNCHANGED <<env, registers, settings, output>>
  PROVE  Typed
<1> DEFINE d == [NewDump(gs) EXCEPT !.isIndexed = indexed]
<1>1. heap' = Append(heap, d) /\ Push(s, Dump(Len(heap) + 1))
  BY DEF PushNew
<1>2. d \in Dumps
  BY DEF NewDump, Dumps
<1> HIDE DEF d
<1>3. /\ heap' \in Seq(Dumps) /\ Len(heap') = HeapSize + 1
      /\ Dump(Len(heap) + 1) \in ValuesOver(Len(heap'))
  BY <1>1, <1>2, Allocated
<1>4. HeapSize \in Nat /\ Len(heap') \in Nat /\ HeapSize <= Len(heap')
  BY <1>3, InTypedState
<1>5. s \in Seq(ValuesOver(Len(heap')))
  BY <1>4, GrowWithHeap
<1>6. ControlOver(Len(heap'))
  BY <1>1, <1>3, <1>4, <1>5, EndsTyped
<1>7. UNCHANGED <<env, settings>> /\ UNCHANGED output
      /\ UNCHANGED regGoroutine /\ UNCHANGED regDumpDst
  BY DEF registers
<1>8. /\ regGoroutine' \in Goroutines \cup {NoGoroutine} /\ regDumpDst' \in 0..Len(heap')
      /\ didShow' \in BOOLEAN /\ shown' \in Seq(Goroutines)
  BY <1>4, <1>7, StaysTyped
<1> QED BY <1>3, <1>4, <1>6, <1>7, <1>8, HeapStep

(* The operands of a function of two dumps.                                *)
LEMMA TwoDumps ==
  ASSUME VMTypeOK,
         At("FuncUnion") \/ At("FuncIntersect") \/ At("FuncDiff") \/ At("FuncGraph")
  PROVE  /\ Ready
         /\ GoroutinesOf(Nth(1)) \in Seq(Goroutines)
         /\ GoroutinesOf(Nth(2)) \in Seq(Goroutines)
         /\ Rest(2) \in Seq(ValuesOver(HeapSize))
<1>1. Ready
  BY Zenon DEF At
<1>2. Holds(2) /\ Nth(1).tag = "dump" /\ Nth(2).tag = "dump"
  BY OperandsOf, Zenon
<1>3. 1 \in 1..2 /\ 2 \in 1..2
  OBVIOUS
<1>4. /\ Nth(1) \in ValuesOver(HeapSize) /\ Nth(2) \in ValuesOver(HeapSize)
      /\ Rest(2) \in Seq(ValuesOver(HeapSize))
  BY <1>2, <1>3 DEF Holds
<1>5. Nth(1).ref \in 1..HeapSize /\ Nth(2).ref \in 1..HeapSize
  BY <1>2, <1>4, ValuesTagged
<1>6. \A r \in 1..HeapSize : heap[r].goroutines \in Seq(Goroutines)
  BY InTypedState
<1> QED BY <1>1, <1>4, <1>5, <1>6 DEF GoroutinesOf

(* Functions that allocate one dump.                                       *)
LEMMA FunctionsTyped ==
  ASSUME VMTypeOK, FuncUnion \/ FuncIntersect \/ FuncGraph \/ FuncLoad
  PROVE  Typed
<1>1. UNCHANGED <<env, registers, settings, output>>
  BY Zenon DEF FuncUnion, FuncIntersect, FuncGraph, FuncLoad
<1> DEFINE PN == \E s \in Seq(ValuesOver(HeapSize)), gs \in Seq(Goroutines), b \in BOOLEAN :
                   PushNew(s, gs, b)
           left == GoroutinesOf(Nth(2))
           right == GoroutinesOf(Nth(1))
<1>2. ASSUME FuncUnion PROVE Ready /\ PN
  <2>1. At("FuncUnion")
    BY <1>2, Zenon DEF FuncUnion
  <2>2. left \in Seq(Goroutines) /\ right \in Seq(Goroutines)
        /\ Rest(2) \in Seq(ValuesOver(HeapSize)) /\ Ready
    BY <2>1, TwoDumps
  <2> HIDE DEF left, right
  <2>3. right \o left \in Seq(Goroutines)
    BY <2>2
  <2>4. PICK gs \in Sortings(right \o left) : PushNew(Rest(2), gs, FALSE)
    BY <1>2, Zenon DEF FuncUnion, left, right
  <2>5. gs \in Seq(Goroutines)
    BY <2>3, SortingsOf
  <2> QED BY <2>2, <2>4, <2>5
<1>3. ASSUME FuncIntersect PROVE Ready /\ PN
  <2>1. At("FuncIntersect") /\ PushNew(Rest(2), Shared(right, left), FALSE)
    BY <1>3, Zenon DEF FuncIntersect
  <2>2. left \in Seq(Goroutines) /\ right \in Seq(Goroutines)
        /\ Rest(2) \in Seq(ValuesOver(HeapSize)) /\ Ready
    BY <2>1, TwoDumps
  <2> HIDE DEF left, right
  <2>3. Shared(right, left) \in Seq(Goroutines)
    BY <2>2, SharedOf
  <2> QED BY <2>1, <2>2, <2>3
<1>4. ASSUME FuncGraph PROVE Ready /\ PN
  <2>1. At("FuncGraph")
    BY <1>4, Zenon DEF FuncGraph
  <2>2. left \in Seq(Goroutines) /\ right \in Seq(Goroutines)
        /\ Rest(2) \in Seq(ValuesOver(HeapSize)) /\ Ready
    BY <2>1, TwoDumps
  <2> HIDE DEF left, right
  <2>3. InGraphOf(left, right) \in Seq(Goroutines)
    BY <2>2, GraphOf
  <2>4. PICK gs \in Sortings(InGraphOf(left, right)) : PushNew(Rest(2), gs, TRUE)
    BY <1>4, Zenon DEF FuncGraph, left, right
  <2>5. gs \in Seq(Goroutines)
    BY <2>3, SortingsOf
  <2> QED BY <2>2, <2>4, <2>5
<1> HIDE DEF PN
<1>5. ASSUME FuncLoad PROVE Typed
  <2>1. At("FuncLoad") /\ Ready
    BY <1>5, Zenon DEF FuncLoad, At
  <2>2. Rest(1) \in Seq(ValuesOver(HeapSize))
    BY <2>1, OperandsOf, Zenon DEF Holds
  <2>3. CASE Nth(1).str \in DOMAIN Files /\ PushNew(Rest(1), Files[Nth(1).str], FALSE)
    <3>1. Files[Nth(1).str] \in Seq(Goroutines)
      BY <2>3, VMAssumption
    <3> QED BY <1>1, <2>1, <2>2, <2>3, <3>1, PushNewTyped
  <2>4. CASE Fail("io") /\ UNCHANGED heap
    <3>1. "io" \in Errors
      BY DEF Errors
    <3>2. ControlOver(HeapSize)
      BY <2>1, <2>4, <3>1, EndsHere
    <3> QED BY <1>1, <2>4, <3>2, QuietStep
  <2> QED BY <1>5, <2>3, <2>4, Zenon DEF FuncLoad
<1>6. ASSUME Ready, PN PROVE Typed
  <2>1. PICK s \in Seq(ValuesOver(HeapSize)), gs \in Seq(Goroutines), b \in BOOLEAN :
          PushNew(s, gs, b)
    BY <1>6 DEF PN
  <2> QED BY <1>1, <1>6, <2>1, PushNewTyped
<1> QED BY <1>2, <1>3, <1>4, <1>5, <1>6

(* The comparison of two dumps allocates three.                            *)
LEMMA FuncDiffTyped ==
  ASSUME VMTypeOK, FuncDiff
  PROVE  Typed
<1> DEFINE left == GoroutinesOf(Nth(2))
           right == GoroutinesOf(Nth(1))
           a == NewDump(Missing(left, right))
           b == NewDump(DiffCommon(left, right))
           c == NewDump(Missing(right, left))
           v == Diff(Len(heap) + 1, Len(heap) + 2, Len(heap) + 3)
<1>1. /\ At("FuncDiff") /\ heap' = heap \o <<a, b, c>> /\ Push(Rest(2), v)
      /\ UNCHANGED <<env, registers, settings, output>>
  BY Zenon DEF FuncDiff
<1>2. /\ left \in Seq(Goroutines) /\ right \in Seq(Goroutines) /\ Ready
      /\ Rest(2) \in Seq(ValuesOver(HeapSize))
  BY <1>1, TwoDumps
<1>3. \A gs \in Seq(Goroutines) : NewDump(gs) \in Dumps
  BY DEF NewDump, Dumps
<1> HIDE DEF left, right
<1>4. a \in Dumps /\ b \in Dumps /\ c \in Dumps
  BY <1>2, <1>3, SharedOf
<1>5. heap \in Seq(Dumps) /\ Dumps \subseteq Dumps /\ HeapSize \in Nat /\ HeapSize = Len(heap)
  BY InTypedState DEF VMTypeOK, HeapSize
<1> HIDE DEF a, b, c
<1>6. heap' \in Seq(Dumps) /\ Len(heap') = HeapSize + 3
  BY <1>1, <1>4, <1>5, JoinedTo
<1>7. Len(heap') \in Nat /\ HeapSize <= Len(heap')
      /\ Len(heap) + 1 \in 1..Len(heap') /\ Len(heap) + 2 \in 1..Len(heap')
      /\ Len(heap) + 3 \in 1..Len(heap')
  BY <1>5, <1>6
<1>8. v \in ValuesOver(Len(heap'))
  BY <1>7, ValuesMade
<1>9. Rest(2) \in Seq(ValuesOver(Len(heap')))
  BY <1>2, <1>5, <1>7, GrowWithHeap
<1> HIDE DEF v
<1>10. ControlOver(Len(heap'))
  BY <1>1, <1>2, <1>7, <1>8, <1>9, EndsTyped
<1>11. UNCHANGED <<env, settings>> /\ UNCHANGED output
      /\ UNCHANGED regGoroutine /\ UNCHANGED regDumpDst
  BY <1>1 DEF registers
<1>12. /\ regGoroutine' \in Goroutines \cup {NoGoroutine} /\ regDumpDst' \in 0..Len(heap')
      /\ didShow' \in BOOLEAN /\ shown' \in Seq(Goroutines)
  BY <1>7, <1>11, StaysTyped
<1> QED BY <1>6, <1>7, <1>10, <1>11, <1>12, HeapStep

(* Functions that write: to a file, or what the page shows.                *)
LEMMA OutputsTyped ==
  ASSUME VMTypeOK, FuncSave \/ FuncExport \/ FuncShowDump
  PROVE  Typed
<1> DEFINE V == ValuesOver(HeapSize)
<1>1. Ready
  BY Zenon DEF At, FuncSave, FuncExport, FuncShowDump
<1>2. /\ \A s \in Seq(V) : Advance(s) => ControlOver(HeapSize)
      /\ \A e \in Errors : Fail(e) => ControlOver(HeapSize)
  BY <1>1, EndsHere
<1>3. "io" \in Errors
  BY DEF Errors
<1>4. ASSUME FuncSave PROVE Typed
  <2>1. At("FuncSave") /\ (Fail("io") \/ Advance(Rest(2)))
    BY <1>4, Zenon DEF FuncSave
  <2>2. Rest(2) \in Seq(V)
    BY <2>1, OperandsOf, Zenon DEF Holds
  <2>3. ControlOver(HeapSize)
    BY <1>2, <1>3, <2>1, <2>2
  <2>4. UNCHANGED <<env, heap, registers, settings, output>>
    BY <1>4, Zenon DEF FuncSave
  <2> QED BY <2>3, <2>4, QuietStep
<1>5. HeapSize \in Nat /\ HeapSize <= HeapSize
  BY InTypedState
<1>6. ASSUME FuncExport PROVE Typed
  <2>1. (At("FuncToJSON") \/ At("FuncToDot")) /\ (Fail("io") \/ Advance(Rest(1)))
    BY <1>6, Zenon DEF FuncExport
  <2>2. Rest(1) \in Seq(V)
    BY <2>1, OperandsOf, Zenon DEF Holds
  <2>3. ControlOver(HeapSize)
    BY <1>2, <1>3, <2>1, <2>2
  <2>4. UNCHANGED <<env, settings>> /\ heap' = heap /\ shown' = shown /\ didShow' = TRUE
        /\ UNCHANGED regGoroutine /\ UNCHANGED regDumpDst
    BY <1>6 DEF FuncExport, registers
  <2>5. /\ heap' \in Seq(Dumps) /\ HeapSize = Len(heap')
        /\ regGoroutine' \in Goroutines \cup {NoGoroutine}
        /\ regDumpDst' \in 0..HeapSize /\ shown' \in Seq(Goroutines) /\ didShow' \in BOOLEAN
    BY <1>5, <2>4, StaysTyped DEF VMTypeOK
  <2> QED BY <1>5, <2>3, <2>4, <2>5, HeapStep
<1>7. ASSUME FuncShowDump PROVE Typed
  <2> DEFINE ref   == Nth(3).ref
             limit == IF Nth(1).num < 1 THEN pragma["show.count"].num ELSE Nth(1).num
             dedup == pragma["show.dedup"].str
             b     == heap[ref].isIndexed \/ dedup # "none"
  <2>1. /\ At("FuncShowDump") /\ Advance(Rest(2)) /\ didShow' = TRUE
        /\ shown' = ShowPage(heap[ref].goroutines, dedup, limit, Nth(2).num)
        /\ heap' = [heap EXCEPT ![ref].isIndexed = @ \/ dedup # "none"]
        /\ UNCHANGED <<env, registers, settings>>
    BY <1>7, Zenon DEF FuncShowDump
  <2>2. /\ Holds(2) /\ Holds(3)
        /\ Nth(1).tag = "number" /\ Nth(2).tag = "number" /\ Nth(3).tag = "dump"
    BY <2>1, OperandsOf, Zenon
  <2>3. 1 \in 1..3 /\ 2 \in 1..3 /\ 3 \in 1..3
    OBVIOUS
  <2>4. Nth(1) \in V /\ Nth(2) \in V /\ Nth(3) \in V /\ Rest(2) \in Seq(V)
    BY <2>2, <2>3, Zenon DEF Holds
  <2>5. Nth(1).num \in Nat /\ Nth(2).num \in Nat /\ ref \in 1..HeapSize
    BY <2>2, <2>4, ValuesTagged
  <2>6. pragma["show.count"].num \in Nat
    <3>1. "show.count" \in Settings /\ NewPragma["show.count"].tag = "number"
      BY DEF Settings, NewPragma, Number
    <3>2. pragma["show.count"] \in ValuesOver(0) /\ pragma["show.count"].tag = "number"
      BY <3>1 DEF VMTypeOK
    <3> QED BY <3>2, ValuesTagged
  <2>7. limit \in Nat
    BY <2>5, <2>6
  <2>8. heap[ref] \in Dumps /\ heap[ref].goroutines \in Seq(Goroutines)
    BY <2>5, InTypedState
  <2>9. [heap EXCEPT ![ref].isIndexed = @ \/ dedup # "none"]
          = [heap EXCEPT ![ref] = [heap[ref] EXCEPT !.isIndexed = b]]
    OBVIOUS
  <2>10. b \in BOOLEAN
    <3>1. heap[ref].isIndexed \in BOOLEAN
      BY <2>8, DumpsTyped
    <3> QED BY <3>1
  <2> HIDE DEF ref, limit, dedup, b
  <2>11. [heap[ref] EXCEPT !.isIndexed = b] \in Dumps
    BY <2>8, <2>10, DumpsTyped
  <2>12. heap' \in Seq(Dumps) /\ Len(heap') = HeapSize
    BY <2>1, <2>5, <2>9, <2>11, HeapTyped
  <2>13. shown' \in Seq(Goroutines)
    BY <2>1, <2>5, <2>7, <2>8, ShowPageOf
  <2>14. ControlOver(HeapSize)
    BY <1>2, <2>1, <2>4
  <2>15. UNCHANGED <<env, settings>> /\ UNCHANGED regGoroutine /\ UNCHANGED regDumpDst
    BY <2>1 DEF registers
  <2>16. /\ regGoroutine' \in Goroutines \cup {NoGoroutine}
         /\ regDumpDst' \in 0..HeapSize /\ didShow' \in BOOLEAN
    BY <1>5, <2>1, <2>15, StaysTyped
  <2> QED BY <1>5, <2>12, <2>13, <2>14, <2>15, <2>16, HeapStep
<1> QED BY <1>4, <1>6, <1>7

(* Commands that only print, and the ends of a run.                        *)
LEMMA PrintingTyped ==
  ASSUME VMTypeOK,
         CommandQuit \/ CommandHelp \/ CommandGetWorkingDir \/ CommandListDir
           \/ CommandVars \/ CommandGetPragma \/ BadOperands \/ BadConstant
  PROVE  Typed
<1>1. Ready
  BY Zenon DEF At, CommandQuit, CommandHelp, CommandGetWorkingDir, CommandListDir,
               CommandVars, CommandGetPragma, BadOperands, BadConstant
<1>2. UNCHANGED <<env, heap, registers, settings, output>>
  BY Zenon DEF CommandQuit, CommandHelp, CommandGetWorkingDir, CommandListDir,
               CommandVars, CommandGetPragma, BadOperands, BadConstant
<1>3. \/ Fail("ConfirmQuit") \/ Fail("ErrCommandQuit") \/ Fail("ErrCommandOk")
      \/ Fail("NotAHelpTopic") \/ Fail("io") \/ Fail("ErrInvalidOpArg")
      \/ Fail("ErrNoSuchPragma") \/ Fail("ErrEmptyStack") \/ Fail("ErrInvalidType")
      \/ Fail("ErrExpectedConstantValueByte") \/ Crash \/ Advance(stack)
  BY Zenon DEF CommandQuit, CommandHelp, CommandGetWorkingDir, CommandListDir,
               CommandVars, CommandGetPragma, BadOperands, BadConstant
<1>4. {"ConfirmQuit", "ErrCommandQuit", "ErrCommandOk", "NotAHelpTopic", "io",
       "ErrInvalidOpArg", "ErrNoSuchPragma", "ErrEmptyStack", "ErrInvalidType",
       "ErrExpectedConstantValueByte"} \subseteq Errors
  BY DEF Errors
<1>5. /\ \A e \in Errors : Fail(e) => ControlOver(HeapSize)
      /\ Crash => ControlOver(HeapSize)
      /\ Advance(stack) => ControlOver(HeapSize)
  BY <1>1, EndsHere
<1>6. ControlOver(HeapSize)
  BY <1>3, <1>4, <1>5
<1> QED BY <1>2, <1>6, QuietStep

(* A run ends without an instruction.                                      *)
LEMMA RunEndsTyped ==
  ASSUME VMTypeOK, OutOfGas \/ Halt \/ Interrupt
  PROVE  Typed
<1>1. UNCHANGED <<env, heap, registers, settings, output>>
  BY Zenon DEF OutOfGas, Halt, Interrupt
<1>2. status = "running"
  BY Zenon DEF OutOfGas, Halt, Interrupt
<1>3. frames \in Seq(FramesOver(Chunks)) /\ frames # <<>> /\ gas \in Int
      /\ stack \in Seq(ValuesOver(HeapSize))
  BY <1>2, InTypedState, Zenon DEF VMTypeOK
<1>4. /\ status' = "returned" /\ err' \in {"ErrOutOfGas", "none", "Canceled"}
      /\ UNCHANGED <<frames, stack>> /\ gas' \in {gas, gas - 1}
  BY DEF OutOfGas, Halt, Interrupt, Fail
<1>5. {"ErrOutOfGas", "none", "Canceled"} \subseteq Errors
  BY DEF Errors
<1>6. gas' \in Int
  BY <1>3, <1>4
<1>7. ControlOver(HeapSize)
  BY <1>3, <1>4, <1>5, <1>6 DEF ControlOver
<1> QED BY <1>1, <1>7, QuietStep

(* Commands that change the workspace, a setting or the directory.         *)
LEMMA NoVariablesTyped == \A n : VariablesOver(NoVariables, n)
BY DEF NoVariables, VariablesOver

(* Commands that change the settings or the variables.                     *)
LEMMA CommandsTyped ==
  ASSUME VMTypeOK, CommandChangeDir \/ CommandEmpty \/ CommandSetPragma
  PROVE  Typed
<1> DEFINE V == ValuesOver(HeapSize)
<1>1. Ready
  BY Zenon DEF At, CommandChangeDir, CommandEmpty, CommandSetPragma
<1>2. UNCHANGED <<heap, registers, output>>
  BY Zenon DEF CommandChangeDir, CommandEmpty, CommandSetPragma
<1>3. ControlOver(HeapSize)
  <2>1. \/ Fail("ErrCommandOk") \/ Fail("io") \/ Fail("ConfirmEmpty")
        \/ Fail("ErrNoSuchPragma") \/ Fail("ErrEmptyStack") \/ Fail("ErrInvalidType")
    BY Zenon DEF CommandChangeDir, CommandEmpty, CommandSetPragma
  <2>2. {"ErrCommandOk", "io", "ConfirmEmpty", "ErrNoSuchPragma", "ErrEmptyStack",
         "ErrInvalidType"} \subseteq Errors
    BY DEF Errors
  <2>3. \A e \in Errors : Fail(e) => ControlOver(HeapSize)
    BY <1>1, EndsHere
  <2> QED BY <2>1, <2>2, <2>3
<1>4. HeapSize \in Nat /\ HeapSize <= HeapSize /\ Len(stack) \in Nat
  BY InTypedState
<1>5. /\ heap' \in Seq(Dumps) /\ HeapSize = Len(heap')
      /\ regGoroutine' \in Goroutines \cup {NoGoroutine} /\ regDumpDst' \in 0..HeapSize
      /\ didShow' \in BOOLEAN /\ shown' \in Seq(Goroutines)
  BY <1>2, <1>4, StaysTyped DEF registers
<1>6. env' \in {env, NoVariables} /\ VariablesOver(env', HeapSize)
  <2>1. env' = env \/ env' = NoVariables
    BY Zenon DEF CommandChangeDir, CommandEmpty, CommandSetPragma
  <2> QED BY <1>4, <2>1, StaysTyped, NoVariablesTyped
<1>7. {cwd', pcwd'} \subseteq STRING
  <2>1. cwd \in STRING /\ pcwd \in STRING
    BY DEF VMTypeOK
  <2>2. ASSUME CommandChangeDir PROVE {cwd', pcwd'} \subseteq STRING
    <3> DEFINE path == IF Constant.str = "-" THEN pcwd ELSE Constant.str
    <3>1. \/ path \in Directories /\ cwd' = path /\ pcwd' = cwd
          \/ UNCHANGED <<cwd, pcwd>>
      BY <2>2, Zenon DEF CommandChangeDir
    <3> HIDE DEF path
    <3> QED BY <2>1, <3>1, VMAssumption
  <2>3. CommandEmpty \/ CommandSetPragma => cwd' = cwd /\ pcwd' = pcwd
    BY DEF CommandEmpty, CommandSetPragma, settings
  <2> QED BY <2>1, <2>2, <2>3
<1>8. /\ pragma' \in [Settings -> ValuesOver(0)]
      /\ \A s \in Settings : pragma'[s].tag = NewPragma[s].tag
  <2>1. /\ pragma \in [Settings -> ValuesOver(0)]
        /\ \A s \in Settings : pragma[s].tag = NewPragma[s].tag
    BY DEF VMTypeOK
  <2>2. CASE pragma' = pragma
    BY <2>1, <2>2
  <2>3. ASSUME CommandSetPragma, pragma' # pragma
        PROVE  /\ pragma' \in [Settings -> ValuesOver(0)]
               /\ \A s \in Settings : pragma'[s].tag = NewPragma[s].tag
    <3> DEFINE setting == Nth(1).str
    <3>1. /\ setting \in Settings /\ Len(stack) > 1
          /\ Nth(2).tag = pragma[setting].tag
          /\ pragma' = [pragma EXCEPT ![setting] = Nth(2)]
      BY <2>3, Zenon DEF CommandSetPragma
    <3>2. Nth(2) \in V
      <4>1. 2 \in Nat /\ 2 <= Len(stack) /\ 2 \in 1..2
        BY <1>4, <3>1
      <4> QED BY <4>1, OperandsTyped DEF Holds
    <3>3. Nth(2).tag \in {"bool", "number", "string"}
      <4>1. \A s \in Settings : NewPragma[s].tag \in {"bool", "number", "string"}
        BY DEF Settings, NewPragma, Bool, Number, Str
      <4> QED BY <2>1, <3>1, <4>1
    <3>4. Nth(2) \in ValuesOver(0)
      BY <3>2, <3>3, ValuesTagged
    <3> HIDE DEF setting
    <3> QED BY <2>1, <3>1, <3>4
  <2>4. CommandChangeDir \/ CommandEmpty => pragma' = pragma
    BY DEF CommandChangeDir, CommandEmpty, settings
  <2> QED BY <2>2, <2>3, <2>4
<1> QED BY <1>3, <1>4, <1>5, <1>6, <1>7, <1>8 DEF Typed

(* A step of the machine keeps everything typed, and the heap grows.       *)
LEMMA RunTyped ==
  ASSUME VMTypeOK, Run
  PROVE  VMTypeOK' /\ Len(heap) <= Len(heap') /\ Len(heap) \in Nat /\ Len(heap') \in Nat
<1>1. Typed
  <2>1. Interrupt => Typed
    BY RunEndsTyped
  <2>2. Execute => Typed
    BY LoadsTyped, AssignmentsTyped, ComparisonsTyped, JumpsTyped, FiltersTyped,
       LoopsTyped, FunctionsTyped, FuncDiffTyped, OutputsTyped, CommandsTyped,
       PrintingTyped, RunEndsTyped, Zenon DEF Execute
  <2> QED BY <2>1, <2>2 DEF Run
<1> QED BY <1>1, TypedStep DEF Run

-----------------------------------------------------------------------------
(* The evaluator around the machine.                                       *)
LEMMA InitTyped == Init => TypeOK
<1> SUFFICES ASSUME Init PROVE TypeOK
  OBVIOUS
<1>1. IsCode(code)
  <2> DEFINE cs == <<>>
  <2>1. code.chunks = <<>> /\ code.constants = <<>>
    BY DEF Init, Code
  <2>2. <<>> \in Seq(Seq([op : STRING, arg : Nat])) /\ Len(<<>>) = 0
        /\ DOMAIN <<>> = {} /\ <<>> = [i \in 1..0 |-> <<>>[i]]
    OBVIOUS
  <2> QED BY <2>1, <2>2 DEF IsCode
<1>2. /\ status = "idle" /\ err = "none" /\ result = "none" /\ "none" \in Errors
  BY DEF Init, Errors
<1>3. gas \in Int
  BY VMAssumption DEF Init
<1>4. frames \in Seq(FramesOver(Len(code.chunks))) /\ stack \in Seq(ValuesOver(Len(heap)))
      /\ heap \in Seq(Dumps) /\ shown \in Seq(Goroutines) /\ didShow = FALSE
  <2>1. \A S : <<>> \in Seq(S)
    OBVIOUS
  <2> QED BY <2>1, Zenon DEF Init
<1>5. VariablesOver(env, Len(heap)) /\ VariablesOver(oldEnv, Len(heap))
  BY NoVariablesTyped DEF Init
<1>6. regGoroutine \in Goroutines \cup {NoGoroutine} /\ regDumpDst \in 0..Len(heap)
  BY DEF Init
<1>7. pragma \in [Settings -> ValuesOver(0)]
  <2> DEFINE V == ValuesOver(0)
  <2>1. {Bool(TRUE), Number(0), Str(""), Str("ids"), Str("count"), Str("none")} \subseteq V
    <3>1. {"", "ids", "count", "none"} \subseteq STRING /\ TRUE \in BOOLEAN /\ 0 \in Nat
      BY TextsAssumption DEF Errors
    <3> HIDE DEF V
    <3>2. \A s \in STRING : Str(s) \in V
      BY ValuesMade DEF V
    <3>3. Bool(TRUE) \in V /\ Number(0) \in V
      BY <3>1, ValuesMade DEF V
    <3> QED BY <3>1, <3>2, <3>3
  <2> HIDE DEF V
  <2> DEFINE initial(s) ==
               CASE s \in {"empty.confirm", "exit.confirm", "show.color"} -> Bool(TRUE)
                 [] s = "show.count" -> Number(0)
                 [] s = "ls.format" -> Str("")
                 [] s = "show.dedup" -> Str("ids")
                 [] s = "vars.display" -> Str("count")
                 [] s = "debug.disassemble" -> Str("none")
  <2>2. NewPragma = [s \in Settings |-> initial(s)]
    BY Zenon DEF NewPragma
  <2>3. ASSUME NEW s \in Settings PROVE initial(s) \in V
    <3>1. \/ s \in {"empty.confirm", "exit.confirm", "show.color"}
          \/ s = "show.count" \/ s = "ls.format" \/ s = "show.dedup"
          \/ s = "vars.display" \/ s = "debug.disassemble"
      BY DEF Settings
    <3> QED BY <2>1, <3>1
  <2> HIDE DEF initial
  <2>4. NewPragma \in [Settings -> V]
    BY <2>2, <2>3
  <2> QED BY <2>4 DEF Init, V
<1>8. \A s \in Settings : pragma[s].tag = NewPragma[s].tag
  BY DEF Init
<1>9. {cwd, pcwd} \subseteq STRING
  BY UserAssumption DEF Init
<1>10. src \in Sources /\ evals \in 0..MaxEvals
  BY UserAssumption DEF Init
<1> QED BY <1>1, <1>2, <1>3, <1>4, <1>5, <1>6, <1>7, <1>8, <1>9, <1>10 DEF TypeOK, VMTypeOK

(* A new run starts, with whatever code the compiler emitted for the       *)
(* line.                                                                   *)
LEMMA EvalTyped ==
  ASSUME TypeOK, NEW s \in Sources, Eval(s) \/ CancelCompile(s)
  PROVE  TypeOK'
<1>1. src' \in Sources /\ evals' \in 0..MaxEvals
  <2>1. evals \in 0..MaxEvals /\ evals < MaxEvals /\ evals' = evals + 1 /\ src' = s
    BY DEF TypeOK, Eval, CancelCompile
  <2> QED BY <2>1, UserAssumption
<1>2. CASE UNCHANGED <<vmVars, oldEnv>> /\ result' \in {"none", "CompileError"}
  <2>1. VMTypeOK' /\ VariablesOver(oldEnv', Len(heap'))
    BY <1>2 DEF TypeOK, VMTypeOK, vmVars, control, registers, settings, output
  <2>2. result' \in Errors \cup {"CompileError"}
    BY <1>2 DEF Errors
  <2> QED BY <1>1, <2>1, <2>2 DEF TypeOK
<1>3. CASE /\ status' = "crashed"
           /\ UNCHANGED <<err, gas, frames, stack, code, env, heap, registers>>
           /\ UNCHANGED <<settings, output, oldEnv, result>>
  <2>1. VMTypeOK' /\ VariablesOver(oldEnv', Len(heap'))
    BY <1>3 DEF TypeOK, VMTypeOK, registers, settings, output
  <2> QED BY <1>1, <1>3, <2>1 DEF TypeOK
<1>4. CASE /\ Compiled[s] \notin {CompileError, CompilePanic}
           /\ oldEnv' = env
           /\ Reset(Compiled[s])
           /\ status' = "running" /\ err' = "none" /\ result' = "none"
  <2>1. /\ code' = Compiled[s] /\ stack' = <<>> /\ gas' = Gas /\ didShow' = FALSE
        /\ frames' = <<[chunk |-> 1, ip |-> -1, returnAddr |-> 0]>>
        /\ shown' = <<>> /\ env' = env /\ heap' = heap /\ UNCHANGED <<registers, settings>>
    BY <1>4 DEF Reset
  <2>2. IsCode(code') /\ code'.chunks # <<>>
    BY <1>4, <2>1, EvaluatorAssumption
  <2>3. Len(code'.chunks) \in Nat /\ 1 \in 1..Len(code'.chunks)
    <3>1. code'.chunks \in Seq(Seq([op : STRING, arg : Nat]))
      BY <2>2 DEF IsCode
    <3> QED BY <2>2, <3>1
  <2>4. frames' \in Seq(FramesOver(Len(code'.chunks))) /\ frames' # <<>>
    <3> DEFINE n == Len(code'.chunks)
               f == [chunk |-> 1, ip |-> -1, returnAddr |-> 0]
    <3> HIDE DEF n
    <3>1. f \in FramesOver(n)
      BY <2>3 DEF FramesOver, n
    <3> HIDE DEF f
    <3>2. <<f>> \in Seq(FramesOver(n)) /\ <<f>> # <<>>
      BY <3>1
    <3> QED BY <2>1, <3>2 DEF f, n
  <2>5. stack' \in Seq(ValuesOver(Len(heap'))) /\ shown' \in Seq(Goroutines) /\ gas' \in Int
    BY <2>1, VMAssumption
  <2>6. "none" \in Errors
    BY DEF Errors
  <2>7. VMTypeOK' /\ VariablesOver(oldEnv', Len(heap'))
    BY <1>4, <2>1, <2>2, <2>4, <2>5, <2>6 DEF TypeOK, VMTypeOK, registers, settings
  <2> QED BY <1>1, <1>4, <2>6, <2>7 DEF TypeOK
<1>5. "none" \in {"none", "CompileError"} /\ "CompileError" \in {"none", "CompileError"}
  OBVIOUS
<1> QED BY <1>2, <1>3, <1>4, <1>5, Zenon DEF Eval, CancelCompile

(* What the evaluator does after a run: the variables it restores were     *)
(* well typed over the heap of then, and the heap only grew.               *)
LEMMA AroundRunTyped ==
  ASSUME TypeOK, Finish \/ Confirm \/ Decline
  PROVE  TypeOK'
<1>1. /\ UNCHANGED <<err, code, heap, registers, settings, output>>
      /\ UNCHANGED <<src, oldEnv, evals>>
  BY Zenon DEF Finish, Confirm, Decline
<1>2. status' \in {"confirm", "stopped", "idle"}
  BY DEF Finish, Confirm, Decline
<1>3. gas' \in {gas, Gas} /\ frames' \in {frames, <<>>} /\ stack' \in {stack, <<>>}
  BY DEF Finish, Confirm, Decline
<1>4. gas' \in Int
  BY <1>3, VMAssumption DEF TypeOK, VMTypeOK
<1>5. frames' \in Seq(FramesOver(Len(code'.chunks)))
  <2>1. frames \in Seq(FramesOver(Len(code.chunks)))
    BY DEF TypeOK, VMTypeOK
  <2>2. \A S : <<>> \in Seq(S)
    OBVIOUS
  <2> QED BY <1>1, <1>3, <2>1, <2>2
<1>6. stack' \in Seq(ValuesOver(Len(heap')))
  <2>1. stack \in Seq(ValuesOver(Len(heap)))
    BY DEF TypeOK, VMTypeOK
  <2>2. \A S : <<>> \in Seq(S)
    OBVIOUS
  <2> QED BY <1>1, <1>3, <2>1, <2>2
<1>7. env' \in {env, oldEnv, NoVariables}
  BY DEF Finish, Confirm, Decline
<1>8. VariablesOver(env', Len(heap')) /\ VariablesOver(oldEnv', Len(heap'))
  BY <1>1, <1>7, NoVariablesTyped DEF TypeOK, VMTypeOK
<1>9. result' \in Errors \cup {"CompileError"}
  <2>1. result' \in {"none", err, result}
    BY DEF Finish, Confirm, Decline
  <2>2. "none" \in Errors
    BY DEF Errors
  <2> QED BY <2>1, <2>2 DEF TypeOK, VMTypeOK
<1>10. VMTypeOK'
  BY <1>1, <1>2, <1>4, <1>5, <1>6, <1>8
     DEF TypeOK, VMTypeOK, registers, settings, output
<1> QED BY <1>1, <1>8, <1>9, <1>10 DEF TypeOK

(* A step of the machine during a run keeps the variables saved for a      *)
(* rollback well typed, as the heap only grows.                            *)
LEMMA RunStepTyped ==
  ASSUME TypeOK, RunStep
  PROVE  TypeOK'
<1>1. VMTypeOK /\ VariablesOver(oldEnv, Len(heap))
  BY DEF TypeOK
<1>2. VMTypeOK' /\ Len(heap) <= Len(heap') /\ Len(heap) \in Nat /\ Len(heap') \in Nat
  BY <1>1, RunTyped, Zenon DEF RunStep
<1>3. UNCHANGED <<src, oldEnv, result, evals>>
  BY DEF RunStep
<1>4. VariablesOver(oldEnv', Len(heap'))
  BY <1>1, <1>2, <1>3, GrowWithHeap
<1> QED BY <1>2, <1>3, <1>4 DEF TypeOK

(* Whatever the user types and whatever code the compiler makes of it,     *)
(* the machine never leaves its types: the address it resumes at, the      *)
(* values on its stack and in its variables, and every reference to a      *)
(* dump lie within what the heap and the code hold, also in the variables  *)
(* kept aside for a rollback.                                              *)
THEOREM AlwaysTyped == Spec => []TypeOK
<1>1. Init => TypeOK
  BY InitTyped
<1>2. TypeOK /\ [Next]_vars => TypeOK'
  <2> SUFFICES ASSUME TypeOK, [Next]_vars PROVE TypeOK'
    OBVIOUS
  <2>1. ASSUME UNCHANGED vars PROVE TypeOK'
    BY <2>1 DEF TypeOK, VMTypeOK, vars, vmVars, control, registers, settings, output
  <2>2. ASSUME Next PROVE TypeOK'
    BY <2>2, EvalTyped, RunStepTyped, AroundRunTyped, Zenon DEF Next
  <2> QED BY <2>1, <2>2
<1> QED BY <1>1, <1>2, PTL DEF Spec

=============================================================================
