----------------------------- MODULE Workspace -----------------------------
(***************************************************************************)
(* What the shell promises: a workspace of variables on which a source     *)
(* acts as a whole.  A source that was typed either gives the variables    *)
(* the values it means, once, or changes nothing at all: "If an error      *)
(* occurs while evaluating the pipeline, the target variable will not be   *)
(* defined or updated" (README.md:432-433), and "the value a variable      *)
(* points to is immutable" (README.md:194-195).                            *)
(***************************************************************************)
CONSTANTS
  Initial,       \* the workspaces the shell may start with
  Programs,      \* the sources the user may type
  Effects(_, _)  \* the workspaces that completing a source may lead to

VARIABLES program,    \* the source last typed
          pending,    \* it has neither taken effect nor failed yet
          workspace   \* the value of every variable

vars == <<program, pending, workspace>>

Init == program \in Programs /\ pending = FALSE /\ workspace \in Initial

(* The user types a source; one with a mistake is answered at once.        *)
Submit ==
  /\ ~pending
  /\ program' \in Programs /\ pending' \in BOOLEAN
  /\ UNCHANGED workspace

(* It takes effect, and is done.                                           *)
Complete ==
  /\ pending /\ pending' = FALSE
  /\ workspace' \in Effects(program, workspace)
  /\ UNCHANGED program

(* It fails, is cancelled, or is not confirmed.                            *)
Fail ==
  /\ pending /\ pending' = FALSE
  /\ UNCHANGED <<program, workspace>>

Next == Submit \/ Complete \/ Fail

Spec == Init /\ [][Next]_vars

=============================================================================
