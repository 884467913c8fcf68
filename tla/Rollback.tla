------------------------------ MODULE Rollback ------------------------------
(***************************************************************************)
(* How the evaluator keeps the promise of module Workspace: the variables  *)
(* as the user knows them are those of the machine between two sources,    *)
(* and Eval's copy of them (oldEnv in evaluator.go) while one runs.        *)
(*                                                                         *)
(* What a source means is a constant here.                                 *)
(***************************************************************************)
EXTENDS Evaluator

CONSTANTS
  Workspaces,    \* the workspaces the shell may start with
  Effects(_, _)  \* those that a source may lead to from a workspace

ASSUME RollbackAssumption == [name \in {} |-> <<>>] \in Workspaces

(* The goroutines of the dump a variable refers to, or its value.          *)
Contents(e) ==
  [name \in DOMAIN e |-> IF e[name].tag = "dump" THEN heap[e[name].ref].goroutines
                                                 ELSE e[name]]

(* Finish clears the frames, so there are some while a source runs, until  *)
(* it was rolled back or not, and for good when the machine panicked.      *)
Visible == Contents(IF frames = <<>> THEN env ELSE oldEnv)

Pending == status \in {"running", "returned", "confirm", "crashed"}

W == INSTANCE Workspace WITH Initial <- Workspaces, Programs <- Sources,
                             program <- src, pending <- Pending,
                             workspace <- Visible

(* Typing, running and failing a source is one atomic step on the          *)
(* workspace, or none, and taken once: the machine implements module       *)
(* Workspace.  (A panic leaves its source pending for good.)               *)
ActsAsAWhole == W!Spec

(* When Run has returned nil, and when the user is asked to confirm        *)
(* "empty", what is about to become of the variables is something that the *)
(* source means, from the variables it was typed with.                     *)
DoesWhatItMeans ==
  /\ status = "returned" /\ err = "none" =>
       Contents(env) \in Effects(src, Visible)
  /\ status = "confirm" /\ result = "ConfirmEmpty" =>
       Contents(NoVariables) \in Effects(src, Visible)

=============================================================================
