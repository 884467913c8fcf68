---------------------------- MODULE ShellProofs ----------------------------
(***************************************************************************)
(* What the evaluator promises holds in the program around it, and what    *)
(* that program promises, for every source, option and line.               *)
(***************************************************************************)
EXTENDS Shell, EvaluatorProofs

-----------------------------------------------------------------------------
(* The shell gives the evaluator nothing but sources, and runs an option   *)
(* only while there is one.                                                *)
Given ==
  /\ options \in Seq(Sources)
  /\ shell = "option" => options # <<>>

LEMMA HeadsAreSources ==
  \A s \in Seq(Sources) : s # <<>> => Head(s) \in Sources /\ Tail(s) \in Seq(Sources)
OBVIOUS

LEMMA Submits ==
  ASSUME NEW lines, Submit(lines)
  PROVE  /\ \E s \in Sources : Eval(s) \/ CancelCompile(s)
         /\ UNCHANGED <<options, canceled, pressed>> /\ shell' = "evaluating"
BY ShellAssumption DEF Submit

(* Every step of the program is one of the evaluator or leaves it alone.   *)
Typing == TypeLine \/ TypeBlank
Waiting ==
  \/ OptionDone \/ ReadHistory \/ CannotReadHistory \/ NextPrompt \/ Signal
  \/ ContinueLine \/ Abort \/ EndOfInput \/ Dispatch \/ SaveHistory \/ Killed

LEMMA WaitingLeavesAlone == Waiting => UNCHANGED vars
BY Zenon DEF Waiting, OptionDone, ReadHistory, CannotReadHistory, NextPrompt, Signal,
  ContinueLine, Abort, EndOfInput, Dispatch, SaveHistory, Killed

LEMMA EvalStepSteps == EvalStep => RunStep \/ Finish
BY Zenon DEF EvalStep, RunStep, Run

LEMMA Stepping == Given /\ ShellNext => Next \/ UNCHANGED vars
<1> SUFFICES ASSUME Given, ShellNext
             PROVE  Next \/ UNCHANGED vars
  OBVIOUS
<1>1. CASE EvalOption
  <2>1. Head(options) \in Sources
    BY <1>1, HeadsAreSources DEF EvalOption, Given
  <2>2. Eval(Head(options)) \/ CancelCompile(Head(options))
    BY <1>1, Zenon DEF EvalOption
  <2> QED BY <2>1, <2>2, Zenon DEF Next
<1>2. CASE Typing
  <2>1. \E lines : Submit(lines)
    BY <1>2, Zenon DEF Typing, TypeLine, TypeBlank
  <2> QED BY <2>1, Submits, Zenon DEF Next
<1>3. CASE EvalStep
  BY <1>3, EvalStepSteps, Zenon DEF Next
<1>4. CASE Answer
  BY <1>4, Zenon DEF Answer, Next
<1>5. CASE Waiting
  BY <1>5, WaitingLeavesAlone
<1> QED BY <1>1, <1>2, <1>3, <1>4, <1>5, Zenon DEF ShellNext, Typing, Waiting

LEMMA InitGiven == ShellInit => Given
BY ShellAssumption DEF ShellInit, Given

LEMMA GivenKept == Given /\ [ShellNext]_shellVars => Given'
<1> SUFFICES ASSUME Given, [ShellNext]_shellVars
             PROVE  Given'
  OBVIOUS
<1>1. CASE EvalOption
  BY <1>1, Zenon DEF EvalOption, Given
<1>2. CASE OptionDone
  <2>1. options' \in Seq(Sources)
    BY <1>2, HeadsAreSources DEF OptionDone, Given
  <2>2. shell' \in {"ended", "starting"}
    BY <1>2, Zenon DEF OptionDone, End
  <2> QED BY <2>1, <2>2 DEF Given
<1>3. CASE Typing
  <2>1. \E lines : Submit(lines)
    BY <1>3, Zenon DEF Typing, TypeLine, TypeBlank
  <2> QED BY <2>1, Submits DEF Given
<1>4. CASE EvalStep \/ Signal \/ ContinueLine \/ UNCHANGED shellVars
  <2>1. options' = options /\ shell' = shell
    BY <1>4, Zenon DEF EvalStep, Signal, ContinueLine, shellVars, shellState
  <2> QED BY <2>1 DEF Given
<1>5. CASE \/ ReadHistory \/ CannotReadHistory \/ NextPrompt \/ Abort
           \/ EndOfInput \/ SaveHistory \/ Killed
  <2>1. options' = options /\ shell' \in {"between", "ended", "reading", "leaving"}
    BY <1>5, Zenon DEF ReadHistory, CannotReadHistory, NextPrompt, Abort,
       EndOfInput, SaveHistory, Killed, End
  <2> QED BY <2>1 DEF Given
<1>6. CASE Dispatch
  BY <1>6 DEF Dispatch, Returned, Given
<1>7. CASE Answer
  BY <1>7 DEF Answer, Given
<1> QED BY <1>1, <1>2, <1>3, <1>4, <1>5, <1>6, <1>7, Zenon DEF ShellNext, Typing

LEMMA GivenHolds == ShellSpec => []Given
BY InitGiven, GivenKept, PTL DEF ShellSpec

(* The program runs the evaluator as module Evaluator says: whatever holds *)
(* of the evaluator whenever it is asked, holds of it in the shell (the    *)
(* loops of main and repl around Eval).                                    *)
THEOREM ShellUsesEvaluator == ShellSpec => Spec
<1>1. ShellInit => Init
  BY DEF ShellInit
<1>2. Given /\ [ShellNext]_shellVars => [Next]_vars
  BY Stepping, Zenon DEF shellVars
<1> QED BY <1>1, <1>2, GivenHolds, PTL DEF ShellSpec, Spec

(* From the first option to the last line, nothing is emptied and no shell *)
(* is ended without the user's consent (ErrCommandConfirm in repl).        *)
THEOREM ShellAsksFirst == ShellSpec => ConfirmedFirst
BY ShellUsesEvaluator, ConsentRequired

(* Nor does a line that the shell makes up, for an option of the command   *)
(* line or a signal, take the machine out of its types.                    *)
THEOREM ShellTyped == ShellSpec => []TypeOK
BY ShellUsesEvaluator, AlwaysTyped

-----------------------------------------------------------------------------
(* A shell that ends with code 0 has been through saveLiner, or through a  *)
(* confirmed exit: repl has no other way out.                              *)
THEOREM HistoryIsKept == ShellSpec => []HistoryKept
<1>1. ShellInit => HistoryKept
  BY DEF ShellInit, HistoryKept
<1>2. HistoryKept /\ [ShellNext]_shellVars => HistoryKept'
  <2> SUFFICES ASSUME HistoryKept, [ShellNext]_shellVars
               PROVE  HistoryKept'
    OBVIOUS
  <2>1. CASE OptionDone
    BY <2>1 DEF OptionDone, OptionFailed, End, HistoryKept
  <2>2. CASE CannotReadHistory \/ SaveHistory \/ Killed
    BY <2>2 DEF CannotReadHistory, SaveHistory, Killed, End, HistoryKept
  <2>3. CASE Answer
    BY <2>3 DEF Answer, Confirm, Decline, HistoryKept
  <2>4. CASE Dispatch
    BY <2>4 DEF Dispatch, Returned, HistoryKept
  <2>5. CASE EvalOption \/ ReadHistory \/ NextPrompt \/ Abort \/ EndOfInput
    <3>1. shell' # "ended"
      BY <2>5, Zenon DEF EvalOption, ReadHistory, NextPrompt, Abort, EndOfInput
    <3> QED BY <3>1 DEF HistoryKept
  <2>6. CASE Typing
    BY <2>6, Submits DEF Typing, TypeLine, TypeBlank, HistoryKept
  <2>7. CASE Signal \/ ContinueLine
    BY <2>7 DEF Signal, ContinueLine, vars, shellState, HistoryKept
  <2>8. CASE EvalStep
    BY <2>8 DEF EvalStep, shellState, HistoryKept
  <2>9. CASE UNCHANGED shellVars
    BY <2>9 DEF shellVars, shellState, vars, HistoryKept
  <2> QED BY <2>1, <2>2, <2>3, <2>4, <2>5, <2>6, <2>7, <2>8, <2>9, Zenon
          DEF ShellNext, Typing
<1> QED BY <1>1, <1>2, PTL DEF ShellSpec

-----------------------------------------------------------------------------
(* The context is done if and only if the user pressed Ctrl-C for this     *)
(* source, and only then does the machine, or the tokenizer, say so.       *)
Agreed == canceled = pressed

LEMMA AgreedHolds == ShellSpec => []Agreed
<1>1. ShellInit => Agreed
  BY DEF ShellInit, Agreed
<1>2. Agreed /\ [ShellNext]_shellVars => Agreed'
  <2> SUFFICES ASSUME Agreed, [ShellNext]_shellVars
               PROVE  Agreed'
    OBVIOUS
  <2>1. CASE EvalOption \/ NextPrompt \/ Signal
    BY <2>1, Zenon DEF EvalOption, NextPrompt, Signal, Agreed
  <2>2. CASE Typing
    BY <2>2, Submits DEF Typing, TypeLine, TypeBlank, Agreed
  <2>3. CASE \/ OptionDone \/ ReadHistory \/ CannotReadHistory \/ ContinueLine
             \/ Abort \/ EndOfInput \/ EvalStep \/ Dispatch \/ Answer
             \/ SaveHistory \/ Killed \/ UNCHANGED shellVars
    <3>1. canceled' = canceled /\ pressed' = pressed
      BY <2>3, Zenon DEF OptionDone, ReadHistory, CannotReadHistory,
         ContinueLine, Abort, EndOfInput, EvalStep, Dispatch, Answer,
         SaveHistory, Killed, shellVars
    <3> QED BY <3>1 DEF Agreed
  <2> QED BY <2>1, <2>2, <2>3, Zenon DEF ShellNext, Typing
<1> QED BY <1>1, <1>2, PTL DEF ShellSpec

(* What StopsItsSourceOnly says of a step.                                 *)
StopsOnlyThis ==
  /\ evals' # evals /\ status' = "idle" =>
       pressed' \/ Compiled[src'] = CompileError
  /\ status = "running" /\ status' = "returned" /\ err' = "Canceled" => pressed
  /\ status \in {"running", "returned"} /\ pressed =>
       env' = env \/ env' = oldEnv

LEMMA EvalStopsNone ==
  ASSUME NEW s, Eval(s)
  PROVE  StopsOnlyThis
<1>1. status = "idle" /\ src' = s
  BY DEF Eval
<1>2. CASE Compiled[s] = CompileError
  BY <1>1, <1>2 DEF StopsOnlyThis
<1>3. CASE Compiled[s] # CompileError
  <2>1. status' \in {"crashed", "running"}
    BY <1>3 DEF Eval
  <2> QED BY <1>1, <2>1 DEF StopsOnlyThis
<1> QED BY <1>2, <1>3

LEMMA CancelStopsThis ==
  ASSUME NEW s, CancelCompile(s), pressed'
  PROVE  StopsOnlyThis
BY DEF CancelCompile, StopsOnlyThis

LEMMA EvalStepStopsThis == Agreed /\ EvalStep => StopsOnlyThis
<1> SUFFICES ASSUME Agreed, EvalStep
             PROVE  StopsOnlyThis
  OBVIOUS
<1>1. CASE Finish
  BY <1>1 DEF Finish, StopsOnlyThis
<1>2. CASE canceled /\ ~Finish
  <2>1. pressed /\ Interrupt /\ UNCHANGED evals
    BY <1>2, Zenon DEF EvalStep, Agreed
  <2> QED BY <2>1 DEF Interrupt, StopsOnlyThis
<1>3. CASE ~canceled /\ ~Finish
  <2>1. ~pressed /\ Execute /\ UNCHANGED evals
    BY <1>3, Zenon DEF EvalStep, Agreed
  <2>2. status' = "returned" => err' # "Canceled"
    BY <2>1, StepsOfExecute, CommandsNeedConsent DEF Harmless
  <2> QED BY <2>1, <2>2 DEF StopsOnlyThis
<1> QED BY <1>1, <1>2, <1>3

(* Ctrl-C stops the source it was pressed for and no other, whatever the   *)
(* code of the source is at when it arrives (NotifyContext in replOnce).   *)
THEOREM CtrlCStopsItsSource == ShellSpec => StopsItsSourceOnly
<1>1. Agreed /\ [ShellNext]_shellVars => [StopsOnlyThis]_shellVars
  <2> SUFFICES ASSUME Agreed, ShellNext
               PROVE  StopsOnlyThis
    OBVIOUS
  <2>1. CASE EvalOption
    <3>1. \/ Eval(Head(options))
          \/ CancelCompile(Head(options)) /\ pressed'
      BY <2>1, Zenon DEF EvalOption
    <3> QED BY <3>1, EvalStopsNone, CancelStopsThis
  <2>2. CASE Typing
    <3>1. PICK lines : Submit(lines)
      BY <2>2, Zenon DEF Typing, TypeLine, TypeBlank
    <3>2. \/ Eval(SourceOf[lines])
          \/ CancelCompile(SourceOf[lines]) /\ pressed'
      BY <3>1, Zenon DEF Submit, Agreed
    <3> QED BY <3>2, EvalStopsNone, CancelStopsThis
  <2>3. CASE EvalStep
    BY <2>3, EvalStepStopsThis
  <2>4. CASE Answer
    BY <2>4 DEF Answer, Confirm, Decline, StopsOnlyThis
  <2>5. CASE Waiting
    BY <2>5, WaitingLeavesAlone DEF vars, vmVars, control, StopsOnlyThis
  <2> QED BY <2>1, <2>2, <2>3, <2>4, <2>5, Zenon DEF ShellNext, Typing, Waiting
<1> QED BY <1>1, AgreedHolds, PTL DEF ShellSpec, StopsItsSourceOnly, StopsOnlyThis

=============================================================================
