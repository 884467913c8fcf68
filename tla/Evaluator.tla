------------------------------ MODULE Evaluator ------------------------------
(***************************************************************************)
(* The evaluator (evaluator.go) and the loop of the shell that feeds it    *)
(* (repl in main.go): the user types a source, Eval compiles it, runs it   *)
(* on the machine of module VM and rolls the workspace back unless Run     *)
(* returned nil, and the shell asks for the confirmations that commands    *)
(* request.                                                                *)
(*                                                                         *)
(* What Compile makes of each source is a constant here: code, an error or *)
(* a panic.                                                                *)
(***************************************************************************)
EXTENDS VM

CONSTANTS
  Sources,    \* what the user may type
  Compiled,   \* the code of each source, or
  CompileError, CompilePanic,
  Workdir,    \* Config.WorkDir
  MaxEvals    \* how many sources the user types

ASSUME EvaluatorAssumption ==
  \A s \in Sources :
    \/ Compiled[s] \in {CompileError, CompilePanic}
    \/ IsCode(Compiled[s]) /\ Compiled[s].chunks # <<>>

ASSUME UserAssumption == MaxEvals \in Nat /\ Workdir \in STRING

VARIABLES
  src,     \* the source last typed
  oldEnv,  \* Eval's copy of the variables
  result,  \* the error Eval returned, "none" when nil
  evals    \* how many sources were typed

vars == <<vmVars, src, oldEnv, result, evals>>

(* NewEvaluator and NewVM.                                                 *)
Init ==
  /\ status = "idle" /\ err = "none" /\ result = "none"
  /\ code = Code(<<>>, <<>>)
  /\ gas = Gas /\ frames = <<>> /\ stack = <<>>
  /\ env = NoVariables /\ oldEnv = NoVariables
  /\ heap = <<>>
  /\ regGoroutine = NoGoroutine /\ regDumpDst = 0
  /\ pragma = NewPragma
  /\ cwd = Workdir /\ pcwd = Workdir
  /\ didShow = FALSE /\ shown = <<>>
  /\ src \in Sources
  /\ evals = 0

\* Mutant: the frames of the source before are kept.
ResetWithoutFrame(c) ==
  /\ code' = c
  /\ stack' = <<>>
  /\ gas' = Gas
  /\ didShow' = FALSE /\ shown' = <<>>
  /\ UNCHANGED <<frames, env, heap, registers, settings>>

(* VM.Reset: the workspace, the settings and the registers stay.           *)
Reset(c) ==
  /\ code' = c
  /\ frames' = <<[chunk |-> 1, ip |-> -1, returnAddr |-> 0]>>
  /\ stack' = <<>>
  /\ gas' = Gas
  /\ didShow' = FALSE /\ shown' = <<>>
  /\ UNCHANGED <<env, heap, registers, settings>>

\* Mutant: the variables are not cloned before Run.
EvalWithoutClone(s) ==
  /\ status = "idle" /\ evals < MaxEvals
  /\ src' = s
  /\ evals' = evals + 1
  /\ \/ /\ Compiled[s] = CompileError
        /\ result' = "CompileError"
        /\ UNCHANGED <<vmVars, oldEnv>>
     \/ /\ Compiled[s] \notin {CompileError, CompilePanic}
        /\ UNCHANGED oldEnv
        /\ Reset(Compiled[s])
        /\ status' = "running" /\ err' = "none" /\ result' = "none"

(* Eval up to its call of Run.                                             *)
Eval(s) ==
  /\ status = "idle" /\ evals < MaxEvals
  /\ src' = s
  /\ evals' = evals + 1
  /\ \/ /\ Compiled[s] = CompileError
        /\ result' = "CompileError"
        /\ UNCHANGED <<vmVars, oldEnv>>
     \/ /\ Compiled[s] = CompilePanic
        /\ status' = "crashed"
        /\ UNCHANGED <<err, gas, frames, stack, code, env, heap, registers>>
        /\ UNCHANGED <<settings, output, oldEnv, result>>
     \/ /\ Compiled[s] \notin {CompileError, CompilePanic}
        /\ oldEnv' = env
        /\ Reset(Compiled[s])
        /\ status' = "running" /\ err' = "none" /\ result' = "none"

(* Ctrl-C while the source is compiled: the tokenizer returns the error of *)
(* the context instead of the next token, which expect turns into another. *)
CancelCompile(s) ==
  /\ status = "idle" /\ evals < MaxEvals
  /\ src' = s
  /\ evals' = evals + 1
  /\ result' \in {"none", "CompileError"}
  /\ UNCHANGED <<vmVars, oldEnv>>

\* Mutant: an operand of the wrong type does not roll the variables back.
FinishWithoutRollback ==
  /\ status = "returned"
  /\ env' = IF err \in {"none", "ErrInvalidType", "MismatchedTypes"}
            THEN env ELSE oldEnv
  /\ result' = IF err \in {"Canceled", "ErrCommandOk"} THEN "none" ELSE err
  /\ status' = "idle"
  /\ frames' = <<>> /\ stack' = <<>> /\ gas' = Gas
  /\ UNCHANGED <<err, code, heap, registers, settings, output>>
  /\ UNCHANGED <<src, oldEnv, evals>>

(* The rest of Eval once Run has returned, and what repl does about the    *)
(* error.  The stack and the frames are dead until Reset replaces them.    *)
Finish ==
  /\ status = "returned"
  /\ env' = IF err = "none" THEN env ELSE oldEnv
  /\ result' = IF err \in {"Canceled", "ErrCommandOk"} THEN "none" ELSE err
  /\ status' = CASE err \in {"ConfirmEmpty", "ConfirmQuit"} -> "confirm"
                 [] err = "ErrCommandQuit" -> "stopped"
                 [] OTHER -> "idle"
  /\ frames' = <<>> /\ stack' = <<>> /\ gas' = Gas
  /\ UNCHANGED <<err, code, heap, registers, settings, output>>
  /\ UNCHANGED <<src, oldEnv, evals>>

(* The prompt of a confirmation: on "y" the shell runs the action.         *)
Confirm ==
  /\ status = "confirm"
  /\ \/ /\ result = "ConfirmEmpty"
        /\ env' = NoVariables /\ status' = "idle"
     \/ /\ result = "ConfirmQuit"
        /\ status' = "stopped" /\ UNCHANGED env
  /\ UNCHANGED <<err, code, gas, frames, stack, heap, registers, settings, output>>
  /\ UNCHANGED <<src, oldEnv, result, evals>>

Decline ==
  /\ status = "confirm"
  /\ status' = "idle"
  /\ UNCHANGED <<err, code, gas, frames, stack, env, heap, registers, settings>>
  /\ UNCHANGED <<output, src, oldEnv, result, evals>>

RunStep == Run /\ UNCHANGED <<src, oldEnv, result, evals>>

Next ==
  \/ \E s \in Sources : Eval(s) \/ CancelCompile(s)
  \/ RunStep \/ Finish \/ Confirm \/ Decline

Spec == Init /\ [][Next]_vars

(* Once it was given a source the evaluator is sequential code and runs on *)
(* until it returns; when the user types, or presses Ctrl-C, is up to the  *)
(* user.                                                                   *)
FairSpec == Spec /\ WF_vars(Execute /\ UNCHANGED <<code, src, oldEnv, result, evals>>)
                 /\ WF_vars(Finish)

-----------------------------------------------------------------------------
(* Every variable holds a value of its kind.  Whatever a failed, cancelled *)
(* or rolled back source left behind, each reference in the workspace, on  *)
(* the stack and in the registers leads to a dump.                         *)
TypeOK ==
  /\ VMTypeOK
  /\ src \in Sources
  /\ evals \in 0..MaxEvals
  /\ result \in Errors \cup {"CompileError"}
  /\ VariablesOver(oldEnv, Len(heap))

(* No source of the run makes the compiler or the machine panic: the       *)
(* process, and every dump loaded so far with it, would be gone.  (Some    *)
(* sources do: see MistakesAreErrors in MCEvaluator.)                      *)
NeverCrashes == status # "crashed"

(* The dumps that a value refers to.                                       *)
RefsOf(v) == CASE v.tag = "dump" -> {v.ref}
               [] v.tag = "diff" -> {v.left, v.common, v.right}
               [] OTHER -> {}

(* Those that the values in f refer to: a stack, or variables.             *)
RefsIn(f) == UNION {RefsOf(f[x]) : x \in DOMAIN f}

InUse == RefsIn(stack) \cup RefsIn(env) \cup RefsIn(oldEnv)

(* "Dump contents should be immutable once returned from the VM"           *)
(* (goroutines.go:38): once a dump lies on the stack or is a value of the  *)
(* workspace, no step changes its goroutines, although loops, variables    *)
(* and the register share it by reference.                                 *)
DumpsImmutable ==
  [][\A ref \in InUse : heap'[ref].goroutines = heap[ref].goroutines]_vars

(* The goroutine of the innermost loop, if a loop is running: the last one *)
(* on the stack.                                                           *)
Looping == status = "running" /\ \E i \in DOMAIN stack : stack[i].tag = "goroutine"
LoopAt  == Max({i \in DOMAIN stack : stack[i].tag = "goroutine"})

(* While a filter evaluates its predicate, the register that the field     *)
(* accessors read, the goroutine on the stack and the iterator of the dump *)
(* below it agree, whatever the operands above them.                       *)
IteratorAgrees ==
  Looping =>
    /\ regGoroutine = stack[LoopAt].goroutine
    /\ LoopAt > 1 /\ stack[LoopAt - 1].tag = "dump"
    /\ LET d == heap[stack[LoopAt - 1].ref]
       IN  d.iterIndex > 0 /\ d.goroutines[d.iterIndex] = regGoroutine

(* The dump a filter collects into is nobody else's until it is pushed, in *)
(* spite of the register that outlives its source.                         *)
TempDumpIsPrivate == Looping => regDumpDst > 0 /\ regDumpDst \notin InUse

(* A filter keeps goroutines of the dump it walks, in their order, and has *)
(* not got ahead of the iterator.                                          *)
CollectsWhatItSaw ==
  Looping =>
    LET d == heap[stack[LoopAt - 1].ref]
        kept == heap[regDumpDst].goroutines
    IN  \E at \in [1..Len(kept) -> 1..d.iterIndex] :
          /\ \A i \in 1..Len(kept) : kept[i] = d.goroutines[at[i]]
          /\ \A i, j \in 1..Len(kept) : i < j => at[i] < at[j]

(* The variables go away, and the shell with them, only after the user     *)
(* said so: at the prompt, or before by the pragma of that command.        *)
ConfirmedFirst ==
  [][/\ env # NoVariables /\ env' = NoVariables /\ oldEnv # NoVariables =>
          status = "confirm" \/ ~pragma["empty.confirm"].bool
     /\ status' = "stopped" /\ status # "stopped" =>
          status = "confirm" \/ ~pragma["exit.confirm"].bool]_vars

(* Eval returns to the prompt, with an answer or an error, whatever the    *)
(* source: a loop that does not end runs out of gas.  (A panic ends the    *)
(* process; NeverCrashes excludes that for code the compiler emits.)       *)
EvalReturns ==
  status = "running" ~> status \in {"idle", "confirm", "stopped", "crashed"}

=============================================================================
