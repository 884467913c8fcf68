------------------------------ MODULE Compiler ------------------------------
(***************************************************************************)
(* The compiler of compiler.go: a recursive-descent ("Pratt") parser that  *)
(* emits code while it reads the tokens of a source, and the optimizer     *)
(* that then fuses adjacent filters into one loop.                         *)
(*                                                                         *)
(* A token is a record of its type and lexeme, named as in tokenizer.go;   *)
(* the lexeme of a number is the number.  The state of the compiler is a   *)
(* record that every parse function maps to the next one:                  *)
(*   rest       the tokens not read yet                                    *)
(*   chunks     code.chunks                                                *)
(*   chunk      the one being emitted to, p.chunk                          *)
(*   constants  code.constants                                             *)
(*   st         "ok", or the error being returned: "eof" when it wraps     *)
(*              ErrEOF, "error" when it does not, "panic" for a Go panic   *)
(* Positions in the source and messages are left out, and the cancelling   *)
(* of a compilation, which is an action of Evaluator.                      *)
(***************************************************************************)
EXTENDS Values, SequencesExt

Placeholder == 65535

Tok(type, lexeme) == [type |-> type, lexeme |-> lexeme]

(* BindingNone is 0, and so on.                                            *)
BindingAssignment == 2
BindingFunc == 4
BindingCall == 10

InfixPrecedence ==
  [t \in {"RightParen"} |-> 0] @@ [t \in {"Pipe"} |-> 3]
    @@ [t \in {"Method"} |-> BindingFunc]
    @@ [t \in {"KeywordOr"} |-> 5] @@ [t \in {"KeywordAnd"} |-> 6]
    @@ [t \in {"Equal", "NotEqual", "RegexMatch", "RegexNotMatch"} |-> 7]
    @@ [t \in {"GreaterEqualThan", "GreaterThan", "LessEqualThan", "LessThan",
               "KeywordContains", "KeywordIn", "KeywordMatches"} |-> 8]

ComparisonOp ==
  [Equal |-> "Equal", NotEqual |-> "NotEqual", GreaterThan |-> "Greater",
   GreaterEqualThan |-> "GreaterEqual", LessThan |-> "Less",
   LessEqualThan |-> "LessEqual", KeywordContains |-> "Contains",
   KeywordIn |-> "In", KeywordMatches |-> "RegexMatches",
   RegexMatch |-> "RegexMatches", RegexNotMatch |-> "RegexNotMatches"]

(* The arguments of every function after its receiver; Noop where the      *)
(* parser emits more than one instruction.                                 *)
Signature(op, args, optional) == [op |-> op, args |-> args, optional |-> optional]

Signatures == [
  union     |-> Signature("FuncUnion", <<"expr">>, FALSE),
  diff      |-> Signature("FuncDiff", <<"expr">>, FALSE),
  intersect |-> Signature("FuncIntersect", <<"expr">>, FALSE),
  load      |-> Signature("FuncLoad", <<"str">>, FALSE),
  save      |-> Signature("FuncSave", <<"str">>, FALSE),
  as        |-> Signature("Assignment", <<"identifier">>, FALSE),
  show      |-> Signature("FuncShowDump", <<"numeric", "numeric">>, TRUE),
  json      |-> Signature("FuncToJSON", <<"str">>, TRUE),
  dot       |-> Signature("FuncToDot", <<"str">>, TRUE),
  where     |-> Signature("Noop", <<"predicate">>, FALSE),
  delete    |-> Signature("Noop", <<"predicate">>, FALSE),
  graph     |-> Signature("FuncGraph", <<"predicate">>, FALSE),
  cd        |-> Signature("CommandChangeDir", <<"str">>, FALSE),
  ls        |-> Signature("CommandListDir", <<>>, FALSE),
  empty     |-> Signature("CommandEmpty", <<>>, FALSE),
  exit      |-> Signature("CommandQuit", <<>>, FALSE),
  quit      |-> Signature("CommandQuit", <<>>, FALSE),
  help      |-> Signature("CommandHelp", <<"helptopic">>, TRUE),
  pwd       |-> Signature("CommandGetWorkingDir", <<>>, FALSE),
  vars      |-> Signature("CommandVars", <<>>, FALSE)]

-----------------------------------------------------------------------------
(* Reading tokens.                                                         *)
AtEnd(p) == p.rest = <<>>
Peek(p)  == Head(p.rest)
Shift(p) == [p EXCEPT !.rest = Tail(@)]

Stop(p, st) == [p EXCEPT !.st = st]

(* F goes on from p unless p returns an error.                             *)
Then(p, F(_)) == IF p.st = "ok" THEN F(p) ELSE p

(* expect and consume differ in one thing: the error of expect at the end  *)
(* of the source no longer is an ErrEOF.                                   *)
Expect(p, type) ==
  IF AtEnd(p) \/ Peek(p).type # type THEN Stop(p, "error") ELSE Shift(p)

Consume(p, type) == IF AtEnd(p) THEN Stop(p, "eof") ELSE Expect(p, type)

MaybeConsume(p, type) == IF AtEnd(p) THEN p ELSE Expect(p, type)

-----------------------------------------------------------------------------
(* Emitting code.                                                          *)
OpsOf(p) == p.chunks[p.chunk]

Emit(p, op, arg) == [p EXCEPT !.chunks[p.chunk] = Append(@, Op(op, arg))]

(* createConst.  Two MultiAssignments cannot be compared: looking one up   *)
(* panics when it meets another.                                           *)
CreateConst(p, x) ==
  IF \E i \in DOMAIN p.constants : p.constants[i] = x /\ x.tag # "multi" THEN p
  ELSE IF x.tag = "multi" /\ \E i \in DOMAIN p.constants :
                               p.constants[i].tag = "multi"
       THEN Stop(p, "panic")
  ELSE [p EXCEPT !.constants = Append(@, x)]

ConstIndex(p, x) ==
  (CHOOSE i \in DOMAIN p.constants :
     p.constants[i] = x /\ \A j \in 1..(i - 1) : p.constants[j] # x) - 1

EmitLoadConst(p, op, x) ==
  Then(CreateConst(p, x), LAMBDA q : Emit(q, op, ConstIndex(q, x)))

(* strconv.Atoi, for the numbers up to MaxNumeral, and ParseBool.          *)
MaxNumeral == 20
Truths   == {"1", "t", "T", "TRUE", "true", "True"}
Untruths == {"0", "f", "F", "FALSE", "false", "False"}

ParseNumber(p, tok) ==
  LET value == {n \in 0..MaxNumeral : ToString(n) = tok.lexeme}
  IN  IF value = {} THEN Stop(p, "error")
      ELSE EmitLoadConst(p, "LoadNumber", Number(CHOOSE n \in value : TRUE))

ParseBool(p, tok) ==
  IF tok.lexeme \in Truths \cup Untruths
  THEN Emit(p, "PushBool", IF tok.lexeme \in Truths THEN 1 ELSE 0)
  ELSE Stop(p, "error")

(* patchJump: the instruction at addr, 0-based, will jump to the last one  *)
(* plus offset.                                                            *)
PatchJump(p, addr, offset) ==
  LET ops == OpsOf(p)
  IN  IF addr >= Len(ops) \/ ops[addr + 1].op \notin Jumps
      THEN Stop(p, "panic")
      ELSE [p EXCEPT !.chunks[p.chunk][addr + 1].arg = Len(ops) - 1 + offset]

-----------------------------------------------------------------------------
RECURSIVE ParseExpr(_, _), InfixLoop(_, _), DumpAccessor(_, _, _),
          FunctionArgs(_, _, _)

\* Mutant: the call refers to the chunk after the predicate's.
ParsePredicateOffByOne(p) ==
  LET new == Len(p.chunks)
      body == ParseExpr([p EXCEPT !.chunks = Append(@, <<>>), !.chunk = new + 1],
                        BindingFunc)
  IN  IF body.st \in {"ok", "eof"}
      THEN Emit([Emit(body, "Return", 0) EXCEPT !.chunk = 1, !.st = "ok"],
                "Call", new + 1)
      ELSE body

(* parsePredicate emits to a chunk of its own and goes back to the first.  *)
ParsePredicate(p) ==
  LET new == Len(p.chunks)
      body == ParseExpr([p EXCEPT !.chunks = Append(@, <<>>), !.chunk = new + 1],
                        BindingFunc)
  IN  IF body.st \in {"ok", "eof"}
      THEN Emit([Emit(body, "Return", 0) EXCEPT !.chunk = 1, !.st = "ok"],
                "Call", new)
      ELSE body

Filter(p, fun) ==
  LET start == IF fun = "graph" THEN Emit(p, "Dup", 0) ELSE p
      temp  == Emit(start, "TempDump", 0)
      addr  == Len(OpsOf(temp))
      body  == ParsePredicate(Emit(temp, "NextGoroutine", Placeholder))
      test  == IF fun = "delete" THEN "JumpIfTrue" ELSE "JumpIfFalse"
      keep(q) == Emit(Emit(q, test, addr), "AddGoroutine", 0)
      loop(q) == Emit(Emit(q, "JumpTo", addr), "PushDump", 0)
  IN  Then(body, LAMBDA q : PatchJump(loop(keep(q)), addr, 0))

(* One argument that is there; p still has its first token.                *)
FunctionArg(p, fun, arg) ==
  CASE arg = "expr" -> ParseExpr(p, BindingCall)
    [] arg = "numeric" ->
         Then(Consume(p, "Number"), LAMBDA q :
                ParseNumber(q, Peek(p)))
    [] arg = "str" ->
         Then(Consume(p, "String"), LAMBDA q :
                EmitLoadConst(q, "LoadString", Str(Peek(p).lexeme)))
    [] arg = "identifier" ->
         Then(Consume(p, "Identifier"), LAMBDA q :
                DumpAccessor(q, Peek(p), <<>>))
    [] arg = "helptopic" ->
         Then(Consume(p, "Identifier"), LAMBDA q :
                EmitLoadConst(q, "LoadString", Str(Peek(p).lexeme)))
    [] arg = "predicate" -> Filter(p, fun.lexeme)

(* The end of parseFunctionArgs.  A command has to be the last thing of    *)
(* the source.                                                             *)
CloseArgs(p, fun) ==
  LET op == Signatures[fun.lexeme].op
      q  == IF op = "Noop" THEN p ELSE Emit(p, op, 0)
  IN  IF fun.type = "Command"
      THEN Then(MaybeConsume(q, "RightParen"), LAMBDA r :
                  IF AtEnd(r) THEN r ELSE Stop(r, "error"))
      ELSE Expect(q, "RightParen")

(* The arguments from the i-th on.                                         *)
FunctionArgs(p, fun, i) ==
  LET sig == Signatures[fun.lexeme]
      default(q) == IF sig.args[i] = "numeric"
                    THEN EmitLoadConst(q, "LoadNumber", Number(0))
                    ELSE EmitLoadConst(q, "LoadString", Str(""))
      comma(q) == IF i = 1 THEN q ELSE Expect(q, "Comma")
      given(q) == Then(comma(q), LAMBDA r : FunctionArg(r, fun, sig.args[i]))
      next(q) == Then(q, LAMBDA r : FunctionArgs(r, fun, i + 1))
  IN  IF i > Len(sig.args) THEN CloseArgs(p, fun)
      ELSE IF sig.optional /\ AtEnd(p) THEN Stop(p, "eof")
      ELSE IF sig.optional /\ Peek(p).type = "RightParen" THEN next(default(p))
      ELSE next(given(p))

ParseMethod(p, fun) ==
  Then(Expect(p, "LeftParen"), LAMBDA q : FunctionArgs(q, fun, 1))

ParseFunction(p, fun) ==
  Then(Expect(p, "LeftParen"), LAMBDA q :
    Then(ParseExpr(q, BindingCall), LAMBDA r : FunctionArgs(r, fun, 1)))

ParseCommand(p, cmd) ==
  LET sig == Signatures[cmd.lexeme]
  IN  IF AtEnd(p)
      THEN IF sig.args # <<>> /\ ~sig.optional THEN Stop(p, "error")
                                               ELSE Emit(p, sig.op, 0)
      ELSE Then(Consume(p, "LeftParen"), LAMBDA q : FunctionArgs(q, cmd, 1))

-----------------------------------------------------------------------------
(* A variable: read, assigned to, one of several to assign to, or the      *)
(* receiver of a method.  targets are the names before it.                 *)
DumpAccessor(p, tok, targets) ==
  LET name == Str(tok.lexeme)
      q    == CreateConst(p, name)
      all  == Append(targets, ConstIndex(q, name))
      load == EmitLoadConst(q, "LoadGoroutineDump", name)
      target == IF Len(all) > 1 THEN Multi(all) ELSE name
      another == Consume(Shift(q), "Identifier")
  IN  IF AtEnd(q) THEN
           IF Len(all) = 1 THEN load
           ELSE FoldLeft(LAMBDA r, i : Emit(r, "LoadGoroutineDump", i), q, all)
      ELSE CASE Peek(q).type = "Assign" ->
                  Then(ParseExpr(Shift(q), BindingAssignment),
                       LAMBDA r : EmitLoadConst(r, "Assignment", target))
             [] Peek(q).type = "Comma" ->
                  Then(another, LAMBDA r : DumpAccessor(r, Peek(Shift(q)), all))
             [] Peek(q).type = "Method" -> ParseMethod(Shift(load), Peek(q))
             [] OTHER -> load

(* ".labels" takes the field accessor after it as the key of a label; the  *)
(* error of maybeConsume on any other token is ignored.                    *)
FieldAccessor(p, tok) ==
  IF tok.lexeme = ".labels" /\ ~AtEnd(p) /\ Peek(p).type = "FieldAccessor"
  THEN EmitLoadConst(Shift(p), "LoadFieldAccessor",
                     Str(".labels" \o Peek(p).lexeme))
  ELSE EmitLoadConst(p, "LoadFieldAccessor", Str(tok.lexeme))

(* "and" and "or".  The left operand is on the stack: when it decides, the *)
(* code pushes it again and jumps over the right operand.                  *)
BinaryLogicExpr(p, tok) ==
  LET and   == tok.type = "KeywordAnd"
      short == Len(OpsOf(p))
      long  == short + 2
      left  == Emit(Emit(Emit(p,
                 IF and THEN "JumpIfTrue" ELSE "JumpIfFalse", Placeholder),
                 "PushBool", IF and THEN 0 ELSE 1),
                 "JumpTo", Placeholder)
      patch(q) == PatchJump(q, short, long + 2 - Len(OpsOf(q)))
  IN  Then(ParseExpr(left, InfixPrecedence[tok.type] + 1), LAMBDA q :
        Then(patch(q), LAMBDA r : PatchJump(r, long, 1)))

CompareExpr(p, tok) ==
  Then(ParseExpr(p, InfixPrecedence[tok.type] + 1),
       LAMBDA q : Emit(q, ComparisonOp[tok.type], 0))

-----------------------------------------------------------------------------
(* Pragmas.  A setting is two words, the first without its dot.            *)
TrimDot(s) == IF SubSeq(s, 1, 1) = "." THEN SubSeq(s, 2, Len(s)) ELSE s

GetPragma(p, setting) ==
  Then(EmitLoadConst(p, "LoadString", Str(setting)),
       LAMBDA q : Emit(q, "CommandGetPragma", 0))

SettingChoices(setting) ==
  CASE setting = "show.dedup" -> {"ids", "none", "number"}
    [] setting = "debug.disassemble" -> {"none", "error", "return"}
    [] setting = "vars.display" -> {"count", "none", "summary"}
    [] OTHER -> {}

(* The value of a setting.  Nothing is emitted for a setting that does not *)
(* exist.                                                                  *)
PragmaValue(p, setting, tok) ==
  CASE setting \in {"empty.confirm", "exit.confirm", "show.color"} ->
         ParseBool(p, tok)
    [] setting \in {"show.count", "limits.stack", "limits.steps"} ->
         ParseNumber(p, tok)
    [] SettingChoices(setting) # {} ->
         IF tok.lexeme \in SettingChoices(setting)
         THEN EmitLoadConst(p, "LoadString", Str(tok.lexeme))
         ELSE Stop(p, "error")
    [] setting = "ls.format" ->
         EmitLoadConst(p, "LoadString", Str(tok.lexeme))
    [] OTHER -> p

SetPragma(p, setting) ==
  IF AtEnd(p) THEN Stop(p, "eof")
  ELSE Then(PragmaValue(Shift(p), setting, Peek(p)), LAMBDA q :
         Then(EmitLoadConst(q, "LoadString", Str(setting)),
              LAMBDA r : Emit(r, "CommandSetPragma", 0)))

ParsePragma(p) ==
  LET topic   == TrimDot(Peek(p).lexeme)
      key     == Shift(p)
      setting == topic \o Peek(key).lexeme
      assign  == Shift(key)
  IN  IF AtEnd(p) THEN GetPragma(p, "*.*")
      ELSE IF AtEnd(key) THEN GetPragma(key, topic \o ".*")
      ELSE IF AtEnd(assign) THEN GetPragma(assign, setting)
      ELSE Then(Expect(assign, "Assign"), LAMBDA q : SetPragma(q, setting))

-----------------------------------------------------------------------------
(* The two tables of parse functions; other tokens have none.              *)
Starters == {"LeftParen", "Identifier", "FieldAccessor", "String", "Number",
             "Function", "Method", "Command", "Pragma"}

Prefix(p, tok) ==
  CASE tok.type = "LeftParen" ->
         Then(ParseExpr(p, 1), LAMBDA q : Expect(q, "RightParen"))
    [] tok.type = "Identifier" -> DumpAccessor(p, tok, <<>>)
    [] tok.type = "FieldAccessor" -> FieldAccessor(p, tok)
    [] tok.type = "String" -> EmitLoadConst(p, "LoadString", Str(tok.lexeme))
    [] tok.type = "Number" -> ParseNumber(p, tok)
    [] tok.type = "Function" -> ParseFunction(p, tok)
    [] tok.type = "Method" -> ParseMethod(p, tok)
    [] tok.type = "Command" -> ParseCommand(p, tok)
    [] tok.type = "Pragma" -> ParsePragma(p)

Infix(p, tok) ==
  CASE tok.type \in {"KeywordAnd", "KeywordOr"} -> BinaryLogicExpr(p, tok)
    [] tok.type \in DOMAIN ComparisonOp -> CompareExpr(p, tok)
    [] tok.type = "Pipe" ->
         Then(Consume(p, "Function"), LAMBDA q : ParseMethod(q, Peek(p)))
    [] tok.type = "Method" -> ParseMethod(p, tok)

(* A prefix that meets the end of the source ends the expression without   *)
(* an error; an infix does not.                                            *)
ParseExpr(p, precedence) ==
  IF AtEnd(p) THEN Stop(p, "eof")
  ELSE IF Peek(p).type \notin Starters THEN Stop(p, "error")
  ELSE LET q == Prefix(Shift(p), Peek(p))
       IN  IF q.st = "eof" THEN [q EXCEPT !.st = "ok"]
           ELSE Then(q, LAMBDA r : InfixLoop(r, precedence))

(* A token without an infix function ends the expression and is consumed.  *)
InfixLoop(p, precedence) ==
  IF AtEnd(p) THEN p
  ELSE LET type == Peek(p).type
       IN  IF type \in DOMAIN InfixPrecedence /\ InfixPrecedence[type] < precedence
             THEN p
           ELSE IF type \notin DOMAIN InfixPrecedence \ {"RightParen"}
             THEN Shift(p)
           ELSE Then(Infix(Shift(p), Peek(p)),
                     LAMBDA q : InfixLoop(q, precedence))

-----------------------------------------------------------------------------
(* The optimizer.  The seven instructions of a filter; any conditional     *)
(* jump, in fact any instruction, may be the fourth.                       *)
FilterOps == <<"TempDump", "NextGoroutine", "Call", "Noop",
               "AddGoroutine", "JumpTo", "PushDump">>

IsFilter(ops, i) ==
  /\ Len(ops) >= i + 7
  /\ \A j \in (1..7) \ {4} : ops[i + j].op = FilterOps[j]

(* How many filters follow one another from i, 0-based, on.                *)
Chained(ops, i) ==
  CHOOSE n \in 0..Len(ops) :
    /\ \A j \in 0..(n - 1) : IsFilter(ops, i + 7 * j)
    /\ ~IsFilter(ops, i + 7 * n)

(* patchOut drops by instructions from first on and moves the targets of   *)
(* the jumps after them, or gives up when one lands in the gap.            *)
PatchOut(ops, first, by) ==
  LET tail == SubSeq(ops, first + by + 1, Len(ops))
      jumpsTo(o, a, b) == o.op \in Jumps /\ o.arg >= a /\ o.arg < b
      moved(o) == IF o.op \in Jumps /\ o.arg >= first
                  THEN [o EXCEPT !.arg = @ - by] ELSE o
  IN  IF \E i \in DOMAIN tail : jumpsTo(tail[i], first, first + by) THEN ops
      ELSE SubSeq(ops, 1, first) \o [i \in DOMAIN tail |-> moved(tail[i])]

\* Mutant: every fused filter keeps what matches.
FuseAsWhere(ops, start, n) ==
  LET next  == start + 1
      tests == [i \in 1..(2 * n) |->
                  IF i % 2 = 1 THEN ops[start + 7 * ((i + 1) \div 2) - 4]
                               ELSE Op("JumpIfFalse", next)]
      end   == start + 2 * n + 4
      written == SubSeq(ops, 1, start)
                   \o <<Op("TempDump", 0), Op("NextGoroutine", end)>> \o tests
                   \o <<Op("AddGoroutine", 0), Op("JumpTo", next),
                        Op("PushDump", 0)>>
  IN  PatchOut(written \o SubSeq(ops, Len(written) + 1, Len(ops)),
               Len(written), 5 * (n - 1))

(* One loop in place of the n filters from start on.                       *)
Fuse(ops, start, n) ==
  LET next  == start + 1
      call(j) == ops[start + 7 * j - 4]
      test(j) == [ops[start + 7 * j - 3] EXCEPT !.arg = next]
      tests == [i \in 1..(2 * n) |->
                  IF i % 2 = 1 THEN call((i + 1) \div 2) ELSE test(i \div 2)]
      end   == start + 2 * n + 4
      loop  == <<Op("TempDump", 0), Op("NextGoroutine", end)>> \o tests
                 \o <<Op("AddGoroutine", 0), Op("JumpTo", next),
                      Op("PushDump", 0)>>
      written == SubSeq(ops, 1, start) \o loop
  IN  PatchOut(written \o SubSeq(ops, Len(written) + 1, Len(ops)),
               Len(written), 5 * (n - 1))

RECURSIVE OptimizePredicates(_, _)
OptimizePredicates(ops, i) ==
  LET n == Chained(ops, i)
  IN  IF i >= Len(ops) THEN ops
      ELSE IF n = 0 THEN OptimizePredicates(ops, i + 1)
      ELSE OptimizePredicates(IF n = 1 THEN ops ELSE Fuse(ops, i, n),
                              i + 7 * n + 1)

-----------------------------------------------------------------------------
Parse(tokens) ==
  ParseExpr([rest |-> tokens, chunks |-> << <<>> >>, chunk |-> 1,
             constants |-> <<>>, st |-> "ok"], 0)

Optimized(p) ==
  [p.chunks EXCEPT ![p.chunk] = OptimizePredicates(@, 0)]

(* The code of the tokens and how compiling them ended.                    *)
Compile(tokens) ==
  LET p == Parse(tokens)
  IN  [outcome |-> IF p.st = "eof" THEN "error" ELSE p.st,
       code |-> Code(IF p.st = "ok" THEN Optimized(p) ELSE p.chunks,
                     p.constants)]

=============================================================================
