------------------------------- MODULE Shell --------------------------------
(***************************************************************************)
(* The program around the evaluator (main.go, conf.go): the options that   *)
(* are evaluated first, the loop that reads lines, hands a source to Eval  *)
(* and asks for confirmations, Ctrl-C, which reaches the machine through a *)
(* context made for each source, and the file with the history.            *)
(*                                                                         *)
(* Every source that is evaluated was added to the history before, so all  *)
(* that is left to tell of the file is whether it is as it was, has the    *)
(* entries of this session too, or was truncated and not written.          *)
(***************************************************************************)
EXTENDS Evaluator

CONSTANTS
  TypedLines,  \* the lines, not blank, that a user may type
  Continues,   \* those that end in a backslash, a parenthesis or a pipe
  SourceOf,    \* the source that lines make up: a function on those
               \* sequences of lines that are typed
  Options      \* what the program may be started with: the sources of the
               \* -p options and of -e, and whether a shell follows

ASSUME ShellAssumption ==
  /\ Continues \subseteq TypedLines
  /\ \A lines \in DOMAIN SourceOf : SourceOf[lines] \in Sources
  /\ \A o \in Options : o.sources \in Seq(Sources) /\ o.interactive \in BOOLEAN

VARIABLES
  shell,        \* what the program is at: "starting", "option" in evalOnce,
                \* "reading" a line, "evaluating", "confirming", "between"
                \* two calls of replOnce, "leaving" repl, "ended"
  options,      \* the sources of the options still to evaluate
  interactive,  \* whether there is a shell after them
  gathered,     \* src of nextSrc: the lines of a source that goes on
  canceled,     \* whether the context is done
  historyFile,  \* "old", "new" or "lost"
  exitCode,     \* what the process returns
  pressed       \* Ctrl-C was pressed since the prompt of this source appeared

shellState == <<shell, options, interactive, gathered, historyFile, exitCode>>
shellVars  == <<vars, shellState, canceled, pressed>>

ShellInit ==
  /\ Init
  /\ \E o \in Options : options = o.sources /\ interactive = o.interactive
  /\ shell = "starting" /\ gathered = <<>>
  /\ canceled = FALSE /\ pressed = FALSE
  /\ historyFile = "old" /\ exitCode = 0

End(c) == shell' = "ended" /\ exitCode' = c

-----------------------------------------------------------------------------
(* evalOnce, for an option.                                                *)
EvalOption ==
  /\ shell = "starting" /\ options # <<>>
  /\ \/ Eval(Head(options)) /\ canceled' = FALSE /\ pressed' = FALSE
     \/ CancelCompile(Head(options)) /\ canceled' = TRUE /\ pressed' = TRUE
  /\ shell' = "option"
  /\ UNCHANGED <<options, interactive, gathered, historyFile, exitCode>>

Returned == status \notin {"running", "returned"}

(* A confirmation is nobody's to give here: it counts as an error.         *)
OptionFailed ==
  status \in {"crashed", "confirm"} \/ result \notin {"none", "ErrCommandQuit"}

OptionDone ==
  /\ shell = "option" /\ Returned
  /\ options' = Tail(options)
  /\ IF OptionFailed THEN End(IF status = "crashed" THEN 2 ELSE 1)
     ELSE IF options' = <<>> /\ ~interactive THEN End(0)
     ELSE shell' = "starting" /\ UNCHANGED exitCode
  /\ UNCHANGED <<vars, interactive, gathered, historyFile, canceled, pressed>>

(* createLiner.                                                            *)
ReadHistory ==
  /\ shell = "starting" /\ options = <<>> /\ interactive
  /\ shell' = "between"
  /\ UNCHANGED <<vars, options, interactive, gathered, historyFile, exitCode>>
  /\ UNCHANGED <<canceled, pressed>>

(* createLiner returns no line editor when it cannot read the history: the *)
(* first Prompt panics, and so does saveLiner after truncating the file.   *)
CannotReadHistory ==
  /\ shell = "starting" /\ options = <<>> /\ interactive
  /\ \/ End(2) /\ historyFile' = "lost"
     \/ End(1) /\ UNCHANGED historyFile
  /\ UNCHANGED <<vars, options, interactive, gathered, canceled, pressed>>

-----------------------------------------------------------------------------
\* Mutant: one context for the whole session.
NextPromptSameContext ==
  /\ shell = "between"
  /\ shell' = "reading" /\ gathered' = <<>>
  /\ pressed' = FALSE
  /\ UNCHANGED <<vars, options, interactive, historyFile, exitCode, canceled>>

(* replOnce makes a context and prompts.                                   *)
NextPrompt ==
  /\ shell = "between"
  /\ shell' = "reading" /\ gathered' = <<>>
  /\ canceled' = FALSE /\ pressed' = FALSE
  /\ UNCHANGED <<vars, options, interactive, historyFile, exitCode>>

(* An interrupt cancels the context.  (While a line is read the terminal   *)
(* hands Ctrl-C to the editor: see Abort; another process may send it.)    *)
Signal ==
  /\ shell \in {"reading", "evaluating", "option"} /\ ~canceled
  /\ canceled' = TRUE /\ pressed' = TRUE
  /\ UNCHANGED <<vars, shellState>>

(* nextSrc has a source: a context that is done cancels the compilation.   *)
Submit(lines) ==
  /\ lines \in DOMAIN SourceOf
  /\ IF canceled THEN CancelCompile(SourceOf[lines]) ELSE Eval(SourceOf[lines])
  /\ shell' = "evaluating" /\ gathered' = <<>>
  /\ UNCHANGED <<options, interactive, historyFile, exitCode, canceled, pressed>>

TypeLine ==
  /\ shell = "reading"
  /\ \E line \in TypedLines \ Continues : Submit(Append(gathered, line))

ContinueLine ==
  /\ shell = "reading"
  /\ \E line \in Continues :
       /\ Append(gathered, line) \in DOMAIN SourceOf
       /\ gathered' = Append(gathered, line)
  /\ UNCHANGED <<vars, shell, options, interactive, historyFile, exitCode>>
  /\ UNCHANGED <<canceled, pressed>>

(* A blank line ends what was gathered, even if that goes on.              *)
TypeBlank == shell = "reading" /\ Submit(gathered)

(* Ctrl-C at the prompt drops what was gathered.                           *)
Abort ==
  /\ shell = "reading"
  /\ shell' = "between"
  /\ UNCHANGED <<vars, options, interactive, gathered, historyFile, exitCode>>
  /\ UNCHANGED <<canceled, pressed>>

(* Ctrl-D.                                                                 *)
EndOfInput ==
  /\ shell = "reading"
  /\ shell' = "leaving"
  /\ UNCHANGED <<vars, options, interactive, gathered, historyFile, exitCode>>
  /\ UNCHANGED <<canceled, pressed>>

-----------------------------------------------------------------------------
(* Run looks at the context before each instruction.                       *)
EvalStep ==
  /\ shell \in {"evaluating", "option"}
  /\ \/ /\ IF canceled THEN Interrupt ELSE Execute
        /\ UNCHANGED <<code, src, oldEnv, result, evals>>
     \/ Finish
  /\ UNCHANGED <<shellState, canceled, pressed>>

\* Mutant: the shell exits where it should return.
DispatchExits ==
  /\ shell = "evaluating" /\ Returned
  /\ shell' = CASE status = "idle"    -> "between"
                [] status = "confirm" -> "confirming"
                [] status = "stopped" -> "ended"
                [] status = "crashed" -> "leaving"
  /\ exitCode' = IF status = "crashed" THEN 2 ELSE exitCode
  /\ UNCHANGED <<vars, options, interactive, gathered, historyFile, canceled, pressed>>

\* Mutant: repl looks at the same error again and again.
DispatchSameError ==
  /\ shell = "evaluating" /\ Returned
  /\ shell' = CASE status = "idle"    -> "between"
                [] status = "confirm" -> shell
                [] OTHER              -> "leaving"
  /\ exitCode' = IF status = "crashed" THEN 2 ELSE exitCode
  /\ UNCHANGED <<vars, options, interactive, gathered, historyFile, canceled, pressed>>

(* repl looks at the error.  A panic too runs the deferred function.       *)
Dispatch ==
  /\ shell = "evaluating" /\ Returned
  /\ shell' = CASE status = "idle"    -> "between"
                [] status = "confirm" -> "confirming"
                [] OTHER              -> "leaving"
  /\ exitCode' = IF status = "crashed" THEN 2 ELSE exitCode
  /\ UNCHANGED <<vars, options, interactive, gathered, historyFile, canceled, pressed>>

(* The action of a confirmed exit is os.Exit: nothing deferred runs.       *)
Answer ==
  /\ shell = "confirming"
  /\ Confirm \/ Decline
  /\ shell' = IF status' = "stopped" THEN "ended" ELSE "between"
  /\ UNCHANGED <<options, interactive, gathered, historyFile, exitCode>>
  /\ UNCHANGED <<canceled, pressed>>

(* saveLiner: it truncates the file and writes the history, each of which  *)
(* may fail; log.Fatal ends the process if the first one does.             *)
SaveHistory ==
  /\ shell = "leaving"
  /\ \/ historyFile' \in {"new", "lost"} /\ End(exitCode)
     \/ UNCHANGED historyFile /\ End(1)
  /\ UNCHANGED <<vars, options, interactive, gathered, canceled, pressed>>

(* "there's a race between here and the next loop iteration where Ctrl-C   *)
(* is unhandled": between two contexts it kills the process.               *)
Killed ==
  /\ shell \in {"starting", "between", "confirming", "leaving"}
  /\ \/ UNCHANGED historyFile
     \/ shell = "leaving" /\ historyFile' = "lost"
  /\ End(130)
  /\ UNCHANGED <<vars, options, interactive, gathered, canceled, pressed>>

ShellNext ==
  \/ EvalOption \/ OptionDone \/ ReadHistory \/ CannotReadHistory
  \/ NextPrompt \/ Signal \/ TypeLine \/ ContinueLine \/ TypeBlank
  \/ Abort \/ EndOfInput \/ EvalStep \/ Dispatch \/ Answer
  \/ SaveHistory \/ Killed

ShellSpec == ShellInit /\ [][ShellNext]_shellVars

(* The program goes on by itself when it is not waiting for the user.      *)
Proceed == EvalStep \/ Dispatch \/ NextPrompt \/ SaveHistory

ShellFairness == WF_shellVars(Proceed)

-----------------------------------------------------------------------------
(* Ctrl-C ends the source it was pressed for, before or while it runs, and *)
(* no other, and that source does nothing to the variables any more but to *)
(* take back what it did (NotifyContext in replOnce, Done in Run and in    *)
(* the tokenizer).                                                         *)
StopsItsSourceOnly ==
  [][/\ evals' # evals /\ status' = "idle" =>
          pressed' \/ Compiled[src'] = CompileError
     /\ status = "running" /\ status' = "returned" /\ err' = "Canceled" => pressed
     /\ status \in {"running", "returned"} /\ pressed =>
          env' = env \/ env' = oldEnv]_shellVars

(* A source that was typed leads back to the prompt, to a question, or to  *)
(* the end of the program, whatever becomes of it and whenever Ctrl-C is   *)
(* pressed: no instruction, error or answer of Eval leaves repl hanging.   *)
ComesBack ==
  shell = "evaluating" ~> shell \in {"reading", "confirming", "ended"}

(* "Shell history is saved" (README.md:105-106): when the shell ends well  *)
(* the file has the sources of this session, unless writing it failed.     *)
HistorySaved ==
  shell = "ended" /\ interactive /\ exitCode = 0 => historyFile # "old"

(* There is one way around saveLiner for a shell that ends well: the exit  *)
(* that the user confirmed.                                                *)
HistoryKept ==
  shell = "ended" /\ interactive /\ exitCode = 0 /\ historyFile = "old" =>
    result = "ConfirmQuit"

=============================================================================
