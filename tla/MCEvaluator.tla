---------------------------- MODULE MCEvaluator ----------------------------
(***************************************************************************)
(* Instances of Evaluator that run what Compiler makes of sources written  *)
(* as syntax trees (Language), and the meaning of those trees, to compare  *)
(* with what the machine computes.                                         *)
(***************************************************************************)
EXTENDS MCDumps, Panics, Rollback, Language
LOCAL INSTANCE Relation

(* The meaning of a predicate: a tree of comparisons, whatever the order   *)
(* they are evaluated in.                                                  *)
RECURSIVE Satisfies(_, _)
Satisfies(g, q) ==
  CASE q.kind = "paren" -> Satisfies(g, q.inner)
    [] q.kind = "logic" ->
         IF q.op = "and" THEN Satisfies(g, q.left) /\ Satisfies(g, q.right)
                         ELSE Satisfies(g, q.left) \/ Satisfies(g, q.right)
    [] q.kind = "cmp" ->
         LET v == Field(g, q.field)[1]
             s == q.literal
         IN  CASE q.op = "Contains" -> <<s.str, v.str>> \in Substrings
               [] q.op = "In" -> s.str \in DOMAIN v.labels
               [] q.op = "RegexMatches" -> <<s.str, v.str>> \in Matches
               [] q.op = "RegexNotMatches" -> <<s.str, v.str>> \notin Matches
               [] OTHER -> Compare(q.op, v, s)

(* Whether the predicate has a value: a comparison has one when both sides *)
(* are of the same kind, and what "and" and "or" do not reach is not       *)
(* evaluated.                                                              *)
RECURSIVE Defined(_, _)
Defined(g, q) ==
  CASE q.kind = "paren" -> Defined(g, q.inner)
    [] q.kind = "logic" ->
         /\ Defined(g, q.left)
         /\ (Satisfies(g, q.left) <=> q.op = "and") => Defined(g, q.right)
    [] q.kind = "cmp" ->
         q.op \in Comparisons => Field(g, q.field)[1].tag = q.literal.tag

(* The goroutines of a dump that are matches, ancestors or descendants of  *)
(* one, "by following the graph implied by the created by lines of their   *)
(* traces" (README.md:516-518).                                            *)
Relatives(gs, matches) ==
  LET nodes == ToSet(gs)
      above == TransitiveClosure([p, c \in nodes |-> p.id = c.createdBy], nodes)
  IN  {g \in nodes : \E m \in ToSet(matches) : g = m \/ above[g, m] \/ above[m, g]}

(* Union "combines them.  Goroutines with the same ID in both dumps will   *)
(* be deduplicated if they are identical.  If they are not identical, this *)
(* expression will return an error" (README.md:610-613).                   *)
Combined(gs, hs) ==
  IF \E g \in ToSet(gs), h \in ToSet(hs) : g.id = h.id /\ ~Same(g, h)
  THEN {} ELSE Sortings(gs \o Missing(hs, gs))

(* The goroutines an expression may denote in the workspace w, as the      *)
(* manual has it: none when it has no meaning, several when sorting leaves *)
(* a choice.                                                               *)
RECURSIVE Denotes(_, _)
Denotes(e, w) ==
  CASE e.kind = "var" -> IF e.name \in DOMAIN w THEN {w[e.name]} ELSE {}
    [] e.kind = "load" ->
         IF e.path \in DOMAIN Files THEN {Files[e.path]} ELSE {}
    [] e.kind = "paren" -> Denotes(e.inner, w)
    [] e.kind = "call" ->
         LET matching(gs) == SelectSeq(gs, LAMBDA g : Satisfies(g, e.arg))
             rest(gs) == SelectSeq(gs, LAMBDA g : ~Satisfies(g, e.arg))
             defined(gs) == e.fun \in Predicates =>
                              \A i \in DOMAIN gs : Defined(gs[i], e.arg)
             receivers == {gs \in Denotes(e.receiver, w) : defined(gs)}
             args == IF e.fun \in Predicates THEN {} ELSE Denotes(e.arg, w)
         IN  CASE e.fun = "where" -> {matching(gs) : gs \in receivers}
               [] e.fun = "delete" -> {rest(gs) : gs \in receivers}
               [] e.fun = "graph" ->
                    UNION {Sortings(Only(gs, Relatives(gs, matching(gs)))) : gs \in receivers}
               [] e.fun = "union" ->
                    UNION {Combined(gs, hs) : gs \in receivers, hs \in args}
               [] e.fun = "intersect" ->
                    {Shared(hs, gs) : gs \in receivers, hs \in args}

With(w, name, gs) == [n \in DOMAIN w \cup {name} |-> IF n = name THEN gs ELSE w[n]]
WithTarget(w, name, gs) == IF name = "_" THEN w ELSE With(w, name, gs)

(* The workspaces a statement may lead to.  A statement given by its       *)
(* tokens is a command or a mistake.                                       *)
Meaning(s, w) ==
  CASE s.kind \in {"expr", "page"} -> IF Denotes(s.expr, w) = {} THEN {} ELSE {w}
    [] s.kind = "assign" -> {With(w, s.name, gs) : gs \in Denotes(s.expr, w)}
    [] s.kind = "within" ->
         UNION {LET bound == With(w, s.inner, gs)
                    filtered == Call2("where", "method", Var(s.inner), s.arg)
                IN  {With(bound, s.name, hs) : hs \in Denotes(filtered, bound)} :
                   gs \in Denotes(s.expr, w)}
    [] s.kind = "diff" ->
         {WithTarget(WithTarget(WithTarget(w,
            s.names[1], Missing(gs, hs)),
            s.names[2], DiffCommon(gs, hs)),
            s.names[3], Missing(hs, gs)) :
              gs \in Denotes(s.left, w), hs \in Denotes(s.right, w)}
    [] OTHER -> {w} \cup (IF s.tokens = <<Tok("Command", "empty")>>
                          THEN {[n \in {} |-> <<>>]} ELSE {})

(* The goroutines on a page: those that are not duplicates of an earlier   *)
(* one, "with the same header and stack" (README.md:486), unless this is   *)
(* turned off, counted from the first, without those before the offset and *)
(* without those after the limit, 0 being no limit.                        *)
OnPage(gs, dedup, limit, offset) ==
  LET alike(g, h) == [g EXCEPT !.id = h.id] = h
      counts(i) == dedup = "none" \/ \A j \in 1..(i - 1) : ~alike(gs[j], gs[i])
      before(i) == Cardinality({j \in 1..(i - 1) : counts(j)})
      shows(i)  == /\ counts(i) /\ before(i) >= offset
                   /\ limit > 0 => before(i) < offset + limit
      places    == SelectSeq([i \in DOMAIN gs |-> i], shows)
  IN  [k \in DOMAIN places |-> gs[places[k]]]

MCCompiled(sources) ==
  [s \in sources |->
     LET c == Compile(TokensOf(s))
     IN  CASE c.outcome = "ok" -> c.code
           [] c.outcome = "error" -> CompileError
           [] c.outcome = "panic" -> CompilePanic]

-----------------------------------------------------------------------------
MCWorkspaces == {[n \in {} |-> <<>>],
                 [n \in {"a", "b"} |-> IF n = "a" THEN FileA ELSE FileB]}

(* A source that was not interrupted fails, in the compiler or while it    *)
(* runs, exactly when it has no meaning, and otherwise leaves in the       *)
(* variables what it means: fused or not, as a method, in a pipe or as a   *)
(* function.  (What is given by its tokens has none to compare with.)      *)
MeansWhatItSays ==
  evals > 0 /\ src.kind # "verbatim" =>
    /\ status = "idle" /\ Compiled[src] = CompileError =>
         Effects(src, Visible) = {}
    /\ status = "returned" /\ err # "Canceled" =>
         LET meant == Effects(src, Visible)
         IN  IF err = "none" THEN Contents(env) \in meant ELSE meant = {}

(* A show that succeeds prints the page it was asked for, under the        *)
(* settings of the moment, wherever the page begins and ends.  "The show   *)
(* function takes the following optional number arguments: limit and       *)
(* offset", a limit of zero being none (README.md:493-495); the setting    *)
(* show.count stands for one that is not given (README.md:254-256).        *)
ShowsThePage ==
  status = "returned" /\ err = "none" /\ src.kind = "page" =>
    LET ns     == src.numbers
        limit  == IF ns = <<>> THEN pragma["show.count"].num ELSE ns[1]
        offset == IF Len(ns) < 2 THEN 0 ELSE ns[2]
    IN  \E gs \in Denotes(src.expr, Visible) :
          shown = OnPage(gs, pragma["show.dedup"].str, limit, offset)

-----------------------------------------------------------------------------
(* The sources of run "pipelines": every function that yields a dump, in   *)
(* each form, filters that the compiler fuses, and failures before,        *)
(* between and after the steps of a pipeline.  No two dumps of a union     *)
(* have an ID in common, for which the code departs from Combined, and no  *)
(* argument list begins with a name, which the code does not compile.      *)
va == Var("a")
vb == Var("b")
Select == Cmp(".state", "Equal", Str("select"))
Grpc   == Cmp(".trace", "RegexMatches", Str("gr.c"))
Slow   == Cmp(".duration", "Greater", Number(10))
Second == Cmp(".id", "Equal", Number(2))
vd == LoadFrom("d")
InJob  == Cmp(".labels", "In", Str("job"))
Broken == Cmp(".state", "Less", Number(1))

Method(e, fun, arg) == Call2(fun, "method", e, arg)
Piped(e, fun, arg) == Call2(fun, "pipe", e, arg)
Function(e, fun, arg) == Call2(fun, "function", e, arg)

PipelineSources == {
  Assign("a", Method(va, "where", Logic("and", Select, Slow))),
  Assign("b", Piped(Piped(Piped(va, "where", Select), "delete", Slow), "where", Grpc)),
  Assign("c", Method(vb, "delete", Logic("or", Logic("and", InJob, Slow), Second))),
  Assign("b", Method(Method(va, "delete", Second), "union",
                     Paren(Method(Method(vb, "where", Second), "where", Slow)))),
  Assign("a", Function(Method(vb, "where", Select), "intersect", va)),
  Assign("b", Piped(va, "graph", Second)),
  AssignDiff(<<"a", "_", "b">>, va, vb),
  Assign("b", Piped(Method(va, "where", Second), "where", Broken)),
  Assign("a", Method(Var("c"), "where", Select)),
  AssignWithin("d", "c", Method(va, "where", Select), Broken),
  Show(LoadFrom("b"))}

PipelinesCompiled == LET sources == PipelineSources IN MCCompiled(sources)

-----------------------------------------------------------------------------
(* The sources of run "session": every command, every kind of setting,     *)
(* output to files that cannot be written, mistakes, and a filter that a   *)
(* Ctrl-C may leave half-way.                                              *)
Command(name) == Verbatim(<<Tok("Command", name)>>)
CommandWith(name, arg) ==
  Verbatim(<<Tok("Command", name)>> \o Bracketed(<<arg>>))
Pragma(key) == <<Tok("Pragma", "pragma")>> \o key
Get(key) == Verbatim(Pragma(key))
Set(key, value) == Verbatim(Pragma(key) \o <<Mark("Assign"), value>>)
Key(topic, setting) == <<FieldTok(topic), FieldTok(setting)>>
Showing(setting) == <<Tok("Method", "show"), FieldTok(setting)>>
Apply(name, fun, args) ==
  Verbatim(<<Id(name), Tok("Method", fun)>> \o Bracketed(args))

SessionSources == {
  Command("empty"), Command("exit"), Command("ls"), Command("pwd"),
  Command("vars"), CommandWith("help", Id("pragmas")), Command("help"),
  CommandWith("cd", Quoted("/tmp")), CommandWith("cd", Quoted("/gone")),
  Get(<<>>), Get(Key(".empty", ".confirm")),
  Set(Key(".empty", ".confirm"), Id("false")),
  Set(Key(".exit", ".confirm"), Id("false")),
  Set(Key(".limits", ".steps"), Num(1)),
  Set(Showing(".count"), Num(1)),
  Set(Showing(".dedup"), Id("none")),
  Set(Key(".exit", ".confirm"), Id("no")),
  Verbatim(<<Mark("RightParen")>>),
  Page(vb, <<>>), Page(Method(vb, "where", Second), <<1, 1>>),
  Apply("a", "json", <<Quoted("ro")>>), Apply("b", "dot", <<>>),
  Apply("a", "save", <<Quoted("out")>>), Apply("a", "save", <<Quoted("ro")>>),
  Verbatim(<<FieldTok(".id")>>),
  Assign("c", LoadFrom("b")), Assign("c", LoadFrom("gone")),
  Assign("a", Method(vb, "where", Logic("and", Select, Slow)))}

-----------------------------------------------------------------------------
(* The sources of run "grammar": every function applied to every variable  *)
(* as a method and in a pipe, and every filter and binary function applied *)
(* to those; binary functions as functions, of what does not begin with a  *)
(* name; and the sources of the other runs with one mistake each.          *)
GrammarPredicates == {
  Slow, Broken, Logic("and", Select, Broken),
  Logic("or", Select, Broken),
  Logic("or", Logic("and", InJob, Paren(Logic("or", Slow, Grpc))), Second)}

FiltersOf(exprs, predicates) ==
  {Call2(fun, form, e, q) : fun \in Predicates, form \in {"method", "pipe"},
                            e \in exprs, q \in predicates}
(* Union with a dump that has no ID in common with the variables.          *)
BinaryOf(exprs, forms) ==
  {Call2("union", form, e, vd) :
     form \in forms, e \in {f \in exprs : ~(f.kind = "call" /\ f.fun = "union")}}
    \cup {Call2("intersect", form, e, vb) : form \in forms, e \in exprs}

Simple == FiltersOf({va, vb}, GrammarPredicates)
            \cup BinaryOf({va, vb}, {"method", "pipe"})

WellFormed ==
  {Assign("c", e) :
     e \in Simple
       \cup FiltersOf(Simple, {Slow, Logic("or", Select, Broken)})
       \cup BinaryOf(Simple, {"method", "pipe"})
       \cup BinaryOf({Paren(e) : e \in {va, vb} \cup FiltersOf({va, vb}, {Slow})},
                     {"function"})
       \cup {Call2("intersect", "method", vb, Paren(e)) : e \in Simple}}

(* What the user types instead: a token is missing, or typed twice, or     *)
(* comes too late, or the source stops short.                              *)
Typos(ts) ==
  {SubSeq(ts, 1, n - 1) : n \in DOMAIN ts}
    \cup {RemoveAt(ts, n) : n \in DOMAIN ts}
    \cup {InsertAt(ts, n, ts[n]) : n \in DOMAIN ts}
    \cup {[ts EXCEPT ![n] = ts[n + 1], ![n + 1] = ts[n]] : n \in 1..(Len(ts) - 1)}

(* A function that leaves nothing behind, followed by something.           *)
Saving == <<Id("a"), Tok("Method", "save")>> \o Bracketed(<<Quoted("out")>>)
SavedFirst == {
  Verbatim(<<Id("c"), Mark("Assign")>> \o Saving),
  Verbatim(Saving \o <<Mark("Pipe"), Tok("Function", "where")>>
             \o Bracketed(PredicateTokens(Slow))),
  Verbatim(<<Id("c"), Mark("Assign"), Id("b"), Tok("Method", "union")>>
             \o Bracketed(Saving))}

(* A filter comes before the parenthesis of another one closes.            *)
NestsFilters(ts) ==
  LET filters == {i \in DOMAIN ts : ts[i].lexeme \in Predicates /\ ts[i].type # "String"}
      open(i, k) == Cardinality({j \in (i + 1)..k : ts[j].type = "LeftParen"})
                      > Cardinality({j \in (i + 1)..k : ts[j].type = "RightParen"})
  IN  \E i, j \in filters : i < j /\ \A k \in (i + 1)..(j - 1) : open(i, k)

(* Several names, which are to share what is assigned to them.             *)
HasNames(ts) ==
  \E i, j \in DOMAIN ts : i < j /\ ts[i].type = "Comma" /\ ts[j].type = "Assign"

Mistyped ==
  LET typed == {TokensOf(s) : s \in PipelineSources \cup SessionSources \cup SavedFirst}
  IN  {Verbatim(ts) : ts \in {us \in typed \cup UNION {Typos(ts) : ts \in typed} :
                               ~NestsFilters(us)}}

GrammarSources == WellFormed \cup Mistyped

(* Whatever the user mistypes, compiler and machine come back with an      *)
(* answer or an error, unless several names are given something that is    *)
(* not a diff, for which handleMultiAssignment reads past the top of the   *)
(* stack, or a filter is within another (NestedFilters in MCFindings).     *)
MistakesAreErrors ==
  status = "crashed" => HasNames(TokensOf(src)) \/ NestsFilters(TokensOf(src))

(* The code that the compiler makes of a source cannot panic, by its text: *)
(* the hypothesis of NoCrash in IteratorProofs.                            *)
CompiledIsSafe == status = "running" /\ gas = Gas => PanicFree(code)

(* So it is for what the user mistypes, if it compiles at all, but for the *)
(* same two kinds of mistakes.                                             *)
MistakesAreSafe ==
  CompiledIsSafe \/ HasNames(TokensOf(src)) \/ NestsFilters(TokensOf(src))

GrammarCompiled == LET sources == GrammarSources IN MCCompiled(sources)

=============================================================================
