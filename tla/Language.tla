------------------------------ MODULE Language ------------------------------
(***************************************************************************)
(* Sources of the expression language as syntax trees: how a tree is       *)
(* written down, as the tokens that the compiler reads.                    *)
(*                                                                         *)
(* An expression denotes a dump.  A call has a receiver and one argument,  *)
(* written as receiver.fun(argument), "method", as                         *)
(* receiver | fun(argument), "pipe", or as fun(receiver, argument),        *)
(* "function".  A predicate is a comparison of a field with a literal, or  *)
(* the conjunction or disjunction of two predicates.                       *)
(***************************************************************************)
EXTENDS Compiler

Var(name) == [kind |-> "var", name |-> name]
LoadFrom(path) == [kind |-> "load", path |-> path]
Call2(fun, form, receiver, arg) ==
  [kind |-> "call", fun |-> fun, form |-> form, receiver |-> receiver, arg |-> arg]
Paren(e) == [kind |-> "paren", inner |-> e]

Cmp(field, op, literal) ==
  [kind |-> "cmp", field |-> field, op |-> op, literal |-> literal]
Logic(op, left, right) ==
  [kind |-> "logic", op |-> op, left |-> left, right |-> right]

(* Statements: an expression by itself, a page of one, one assigned to a   *)
(* name, one assigned while it is filtered, and the diff of two            *)
(* expressions assigned to three.                                          *)
Show(e)       == [kind |-> "expr", expr |-> e]
Page(e, ns)   == [kind |-> "page", expr |-> e, numbers |-> ns]
Assign(n, e)  == [kind |-> "assign", name |-> n, expr |-> e]
AssignWithin(n, inner, e, q) ==
  [kind |-> "within", name |-> n, inner |-> inner, expr |-> e, arg |-> q]
AssignDiff(ns, left, right) ==
  [kind |-> "diff", names |-> ns, left |-> left, right |-> right]
Verbatim(ts)  == [kind |-> "verbatim", tokens |-> ts]

-----------------------------------------------------------------------------
Mark(type) == Tok(type, type)
Id(name) == Tok("Identifier", name)
Quoted(s) == Tok("String", s)
Num(n) == Tok("Number", ToString(n))
FieldTok(f) == Tok("FieldAccessor", f)

Bracketed(ts) == <<Mark("LeftParen")>> \o ts \o <<Mark("RightParen")>>

Predicates == {"where", "delete", "graph"}

(* The token of each comparison; the machine has one instruction for       *)
(* "matches" and "=~".                                                     *)
OpToken ==
  [Equal |-> "Equal", NotEqual |-> "NotEqual", Less |-> "LessThan",
   LessEqual |-> "LessEqualThan", Greater |-> "GreaterThan",
   GreaterEqual |-> "GreaterEqualThan", Contains |-> "KeywordContains",
   In |-> "KeywordIn", RegexMatches |-> "KeywordMatches",
   RegexNotMatches |-> "RegexNotMatch"]

Literal(v) == IF v.tag = "number" THEN Num(v.num) ELSE Quoted(v.str)

(* ".labels.key" is read as two tokens.                                    *)
FieldTokens(f) ==
  IF f = ".labels.job" THEN <<FieldTok(".labels"), FieldTok(".job")>>
                       ELSE <<FieldTok(f)>>

RECURSIVE PredicateTokens(_)
PredicateTokens(q) ==
  CASE q.kind = "paren" -> Bracketed(PredicateTokens(q.inner))
    [] q.kind = "logic" ->
         PredicateTokens(q.left)
           \o <<Mark(IF q.op = "and" THEN "KeywordAnd" ELSE "KeywordOr")>>
           \o PredicateTokens(q.right)
    [] q.kind = "cmp" /\ q.op = "In" ->
         <<Literal(q.literal), Mark("KeywordIn")>> \o FieldTokens(q.field)
    [] OTHER ->
         FieldTokens(q.field) \o <<Mark(OpToken[q.op]), Literal(q.literal)>>

RECURSIVE ExprTokens(_)
ExprTokens(e) ==
  CASE e.kind = "var"   -> <<Id(e.name)>>
    [] e.kind = "load"  -> <<Tok("Method", "load")>> \o Bracketed(<<Quoted(e.path)>>)
    [] e.kind = "paren" -> Bracketed(ExprTokens(e.inner))
    [] e.kind = "call"  ->
         LET receiver == ExprTokens(e.receiver)
             arg == IF e.fun \in Predicates THEN PredicateTokens(e.arg)
                                            ELSE ExprTokens(e.arg)
         IN  CASE e.form = "method" ->
                    receiver \o <<Tok("Method", e.fun)>> \o Bracketed(arg)
               [] e.form = "pipe" ->
                    receiver \o <<Mark("Pipe"), Tok("Function", e.fun)>>
                      \o Bracketed(arg)
               [] e.form = "function" ->
                    <<Tok("Function", e.fun)>>
                      \o Bracketed(receiver \o <<Mark("Comma")>> \o arg)

TokensOf(s) ==
  CASE s.kind = "expr"   -> ExprTokens(s.expr)
    [] s.kind = "page"   ->
         ExprTokens(s.expr) \o <<Tok("Method", "show")>>
           \o Bracketed(CASE Len(s.numbers) = 0 -> <<>>
                          [] Len(s.numbers) = 1 -> <<Num(s.numbers[1])>>
                          [] OTHER -> <<Num(s.numbers[1]), Mark("Comma"),
                                        Num(s.numbers[2])>>)
    [] s.kind = "assign" -> <<Id(s.name), Mark("Assign")>> \o ExprTokens(s.expr)
    [] s.kind = "within" ->
         <<Id(s.name), Mark("Assign")>>
           \o Bracketed(<<Id(s.inner), Mark("Assign")>> \o ExprTokens(s.expr))
           \o <<Tok("Method", "where")>> \o Bracketed(PredicateTokens(s.arg))
    [] s.kind = "diff"   ->
         <<Id(s.names[1]), Mark("Comma"), Id(s.names[2]), Mark("Comma"),
           Id(s.names[3]), Mark("Assign")>>
           \o ExprTokens(Call2("diff", "method", s.left, s.right))
    [] s.kind = "verbatim" -> s.tokens

=============================================================================
