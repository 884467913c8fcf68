----------------------------- MODULE MCFindings -----------------------------
(***************************************************************************)
(* Sources on which the program does something else than its documentation *)
(* and its assertions say, and these as properties.                        *)
(***************************************************************************)
EXTENDS MCEvaluator

NoPrompt    == Set(Key(".empty", ".confirm"), Id("false"))
EmptyIt     == Command("empty")
FieldSource == Verbatim(<<FieldTok(".id")>>)
LoopSource  == Show(Method(va, "where", Slow))
NestedSource == Verbatim(<<Id("c"), Mark("Assign"), Id("a"), Tok("Method", "where")>>
                  \o Bracketed(PredicateTokens(Slow) \o <<Mark("KeywordAnd")>>
                       \o ExprTokens(Method(vb, "where", Second))))

EmptySources == {NoPrompt, EmptyIt}
FilterSources == {LoopSource, FieldSource}
NestedSources == {NestedSource, LoopSource}

EmptyCompiled == LET sources == EmptySources IN MCCompiled(sources)
FilterCompiled == LET sources == FilterSources IN MCCompiled(sources)
NestedCompiled == LET sources == NestedSources IN MCCompiled(sources)

-----------------------------------------------------------------------------
(* README.md:148-149: "empty: Erases all variables in the workspace, with  *)
(* confirmation (y/N). You can bypass confirmation by setting              *)
(* pragma.empty.confirm false."                                            *)
EmptyErases ==
  [][Finish /\ src = EmptyIt /\ err = "ErrCommandOk" => env' = NoVariables]_vars


(* vm.go:258 and 599-602: outside of a loop a field accessor is an error,  *)
(* "not iterating a goroutine dump when accessing field".                  *)
FieldsNeedALoop ==
  [][Ready /\ Instr.op = "LoadFieldAccessor" /\ status' = "running" => Looping]_vars

=============================================================================
