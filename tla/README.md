# A TLA+ model of goroutine-explore

goroutine-explore loads the text of Go goroutine dumps and explores them with
a small language: a compiler turns each line the user types into bytecode, a
stack machine runs it over the dumps held in variables, and a shell puts a
prompt around both. This directory models that core, model-checks it with TLC
and proves part of it with TLAPS. All line numbers are those of the source at
the commit this directory belongs to.

## The system

| Component | Source | State it keeps | Operations |
| --- | --- | --- | --- |
| Shell | `main.go`, `conf.go` | the lines gathered, the context of the source, the history file | `repl`, `replOnce`, `nextSrc`, the confirmation prompt, `evalOnce`, `createLiner`, `saveLiner` |
| Evaluator | `internal/evaluator.go` | tokenizer, compiler, machine | `NewEvaluator`, `Eval` (compile, clone the variables, run, roll back) |
| Tokenizer | `internal/tokenizer.go` | one peeked token, the scanner | `Reset`, `Peek`, `Next` |
| Compiler | `internal/compiler.go` | the chunk being emitted, the chunks, the constants | `Compile`, one parse function per kind of token, `optimizePredicates` |
| Machine | `internal/vm.go`, `chunk.go`, `values.go`, `pragma.go`, `help.go`, `directory.go`, `jumptable.go` | operand stack, call frames, gas, variables, two registers, settings, working directory | `Reset`, `Run`, one handler per opcode |
| Dumps | `internal/goroutines.go` | goroutines, the iterator, the index made by `show` | `Add`, `Has`, `Sort`, `Index`, `Show`, `byID`, iteration |
| Graph search | `internal/graph.go` | local queues | `inGraphOf`, `graphAncestors`, `graphDescendants` |
| Loader | `internal/load.go`, `internal/goroutines.go` | the goroutine being read | `loadFrom`, `NewGoroutineFromMatch`, `parseLabels`, `AddLine`, `Freeze` |
| Writer | `internal/writer.go`, `internal/goroutines.go` | the output file | `Save`, `Print`, `Write`, `writeToFile` |
| Generators | `tools/`, `*_string.go` | none | generated tables |

How they interact: the shell calls `Eval` with one line. `Eval` calls the
compiler, which pulls tokens from the tokenizer; it clones the map of the
variables, hands the code to the machine (`Reset`) and calls `Run`. The machine
reads and writes the variables, which hold *pointers* to dumps, so a variable,
a stack slot, a register and the clone may all lead to the same dump. `Run`
returns nil or an error; an error makes `Eval` restore the clone. Some commands
return an error on success too (`ErrCommandOk`), and `empty` and `exit` return
a closure (`ErrCommandConfirm`) that the shell runs if the user confirms.
Ctrl-C cancels the context that `replOnce` or `evalOnce` made for this source;
the tokenizer tests it before every token, and `Run` before every instruction.
`load` reads a text into a new dump, `save`, `json` and `dot` truncate a file and
write it through a `Writer`.

What is hard about it:

* **Almost nothing is concurrent, but everything can be cut short.** Ctrl-C, an
  error or an empty gas tank end `Run` at any instruction; a signal can arrive
  between two contexts and kill the process. The rollback covers
  the variables only: dumps, iterators and registers stay as they are.
* **Shared dumps.** A filter builds a new dump in a register while it walks
  one that variables share; the position of the walk is stored in that shared
  dump.
* **The protocol of a loop.** `NextGoroutine` both starts and continues a loop,
  told apart by what is on the stack.
* **Rewriting.** The optimizer merges chained filters in place, moves the code
  after them and keeps scanning it.
* **Errors that mean success.** `ErrCommandOk` and the confirmations go through
  the path that rolls back.
* **The graph search** stops at goroutines that an earlier search found, and
  the "created by" links come from text: they may form a cycle.
* **Files are written in pieces.** A full disk or a crash leaves a text that ends
  anywhere, and the loader accepts it.
* **The way out.** Panics, `os.Exit`, `log.Fatal` and signals each skip a different
  part of what `repl` defers.

What makes each component correct:

* *Evaluator*: a line takes effect as a whole or not at all; the workspace and
  the shell go away only with the user's consent; each line comes back to the
  prompt.
* *Machine*: no panic; loops, the register and the iterator agree; a dump that
  was returned never changes; every reference leads to a dump.
* *Compiler*: the code, fused or not, computes what the text means, and
  fails exactly when the text has no meaning.
* *Graph*: the result is the matches with everything above and below them, each
  goroutine once; the search ends.
* *Loader and writer*: what is loaded is what the text says; what is saved loads
  as what it was, and after a crash as a prefix of it; a frozen goroutine never
  changes.
* *Shell*: Ctrl-C stops the source it was pressed for and no other; the history
  is kept whenever the shell ends well.

## Modules

| Module | Models | Correspondence |
| --- | --- | --- |
| `GoroutineDump` | the pure part of `goroutines.go`, and what a search and the binary functions return | goroutines are records; a dump's contents are a sequence; `Sortings` is the *set* of sequences `sort.Slice` may leave (it is not stable) |
| `Graph` | `graph.go` | one action per iteration of each loop; `k`, `queue`, `pos` are the loop variables |
| `Values` | `values.go`, the encoding in `chunk.go` | tagged records; a dump is a reference |
| `VM` | `vm.go`, `pragma.go`, `directory.go`, `help.go` | one action per opcode (a few share one), one step per iteration of `Run`; `heap` holds the dumps by reference |
| `Evaluator` | `evaluator.go` | `Eval`, `CancelCompile` (Ctrl-C while it compiles), `RunStep`, `Finish` (the rest of `Eval`), and the confirmations, `Confirm` and `Decline` |
| `Shell` | `main.go`, `conf.go` | `EvalOption`, `OptionDone` (`evalOnce` and the loop around it), `NextPrompt`, `TypeLine`, `ContinueLine`, `TypeBlank` (`replOnce`, `nextSrc`), `Signal`, `Killed`, `Dispatch` and `Answer` (`repl`), `ReadHistory`, `SaveHistory` (`conf.go`) |
| `Compiler` | `compiler.go` | each parse function is an operator from a record of the compiler's state to the next one; `outcome` tells an error and a panic from success |
| `Language` | the syntax, as the tokenizer delivers it | syntax trees and the tokens they are written with |
| `Workspace` | the abstract specification of the shell | the source last typed, whether it is pending, and the workspace; a source takes effect once and as a whole, or not at all |
| `Rollback` | nothing of its own | `Evaluator` onto `Workspace`: `Visible` (the variables as the user knows them), `Pending`, and `DoesWhatItMeans`, what a source may leave |
| `DumpText` | the kinds of lines that `headerPatt` and `createdByPattern` tell apart, `parseLabels`, `Print` | a text is a sequence of tokens, one for each stretch that the program tells apart |
| `Loader` | `loadFrom`, `NewGoroutineFromMatch`, `AddLine`, `Freeze` | one action per case of the switch, one step per line scanned |
| `Saver` | `Save`, `writeToFile`, `Writer` | one step per call of the inner writer, which takes any part of what is left, or fails |
| `Archive` | one file that is loaded, saved and loaded again | composes `Loader` and `Saver`; a crash loses the memory and keeps the file |
| `Loops` | nothing of its own | the shape of the loops in compiled code and the depth of the stack at each of their instructions, as an assumption that `LoopProofs` and `IteratorProofs` use and every run on compiled sources evaluates |
| `Panics` | nothing of its own | when the text of some code rules a panic out: the height of the stack at each instruction of the first chunk, and what its instructions refer to |
| `MCGraph`, `MCDumps`, `MCEvaluator`, `MCShell`, `MCBytecode`, `MCArchive`, `MCFindings` | instances | dumps, sources, lines, code, texts and properties that speak of them |
| `SequenceLemmas` | nothing of its own | induction, facts about sequences and folds, and what they make of the operators of `GoroutineDump`, for the proofs to cite |
| `GraphProofs`, `EvaluatorProofs`, `LoopProofs`, `IteratorProofs`, `ArchiveProofs`, `RoundTripProofs`, `ShellProofs` | proofs | see below |

`Shell` EXTENDS `Evaluator`, which EXTENDS `VM`, which EXTENDS `GoroutineDump` and `Values`. What the
compiler makes of each source is a constant of `Evaluator`, so the machine can
be run on compiled sources (`MCEvaluator`, where the constant is computed by
`Compiler`) and on code written by hand (`MCBytecode`). `Compiler` is recursive
and is used by TLC only; the modules to prove about do not reach it.

`Archive` stands beside them: for the machine, what `load` makes of a file is a
constant (`Files`) and whether `save` succeeds depends on the path only
(`Unwritable`); `Archive` says what a text becomes and what a file holds.

Abstractions. Strings are opaque: Go's order of strings, substrings and regular
expressions are relations given as constants. What is printed is left out,
except which goroutines a `show` prints. Whether a file can be read, a path
written or a directory entered are constants; `ls` may fail at any time. A
failing instruction leaves the stack as it was, since nothing reads it before
`Reset`. `AddGoroutine` outside of a loop adds nil in the code and panics at the
first use of the dump; the model panics at once. The stack has 16 slots here
(5 in run `bytecode`), and the gas is 500 (40), in place of the defaults:
run `bytecode` meets both limits, the others stay below them. (The default of the stack
is 1024, pragma.go:35; the proofs are for any.)

## Runs

| Run | Configuration | Question |
| --- | --- | --- |
| `graph` | `MCGraph.cfg` | Is the result of the search right, and does it end? |
| `pipelines` | `Pipelines.cfg` | Do three pipelines in a row, each cut short anywhere, keep the loops, registers, shared dumps and variables consistent? |
| `grammar` | `Grammar.cfg` | Does the compiled code compute what the text means? |
| `session` | `Session.cfg` | Do commands, settings, mistakes, confirmations, Ctrl-C and the ways out of the program leave the workspace and the history alone unless the user says otherwise? |
| `bytecode` | `Bytecode.cfg` | Does any code at all, also code that no compiler emits, leave the machine well-formed and come back? |
| `archive` | `Archive.cfg` | Is what was loaded what the text says, and does what was saved, or half saved, load again? |
| `graph_any_order`, `empty_erases`, `fields_need_a_loop`, `nested_filters`, `save_reports`, `exit_saves_history` | one each | Sentences of the documentation, of the comments and of an assertion that the code does not keep |

**graph.** Every forest of four goroutines in every order, and three goroutines
with arbitrary parents (themselves, each other, one that is not there) and
repetitions, each with every subsequence a filter can keep. Four suffice for
two matches with a common ancestor and a common descendant between them, the
shape in which one search can cut another short. `Sound`: only relatives of
matches. `NoDuplicates`. `Complete`: nothing is missing when every goroutine
comes after the one that created it. `ComputesInGraphOf`: the step-by-step
search returns what the operator `InGraphOf`, which the machine applies in one
step, says. `Terminates`, under weak fairness.

**pipelines.** Eleven sources: every function that yields a dump, in each form,
fused filters, a split diff, and failures before, in the middle of and after
the steps of a pipeline (among them one that assigns first and fails
afterwards). The shell starts with two unsorted dumps that share a goroutine
and differ in another one with the same ID. Any three in a row, so that a third
source sees what two, complete or not, left behind. `IteratorAgrees`,
`TempDumpIsPrivate`, `CollectsWhatItSaw` are what a loop promises (`LoopInv`, their inductive
invariant, has been checked on this run and on `grammar` before it was proved);
`CompiledIsSafe` says that the text of all code that runs rules a panic out.
`DumpsImmutable` is the comment at `goroutines.go:38`; `ActsAsAWhole` is the
refinement of `Workspace`, whose workspace is what the user sees of the
variables: the clone while a source runs, the variables themselves otherwise.
`DoesWhatItMeans` says that what `Run` leaves when it returns nil, and what a
confirmed `empty` will leave, is something the source means (the denotation of
`MCEvaluator`, as `Effects`): it is the part of the refinement that depends on the
compiler. Run `session` checks it too, for commands and confirmations.

The denotation is the manual's. `graph` keeps the relatives of the matches, by a
transitive closure of the "created by" links and not by the search of the code. `union`
merges identical goroutines and has no meaning for two different ones of the same ID. The
code does neither (see below), so the unions of the passing runs
are of dumps without an ID in common, which the sources see to whatever came before
(`a` without goroutine 2, and goroutine 2 of `b`; in `grammar` and `session`, a third
file). What they show of `union` is the rest: the goroutines, their order, and that neither
operand changes.

**grammar.** 1244 well-formed sources, each run once: `where`, `delete`, `graph`, `union`
and `intersect` on each variable, as methods and in pipes, with
comparisons, nested `and`/`or`, parentheses and predicates that fail on some
goroutines only, and one more function on top of each. `MeansWhatItSays`
compares with a denotation defined on the syntax tree: the workspace after a
source is one that the tree denotes, and the source fails, to compile or to run, exactly
when it denotes none: a well-formed source that the compiler refuses violates it. The
function form is among the sources for `union` and `intersect` when the first argument
does not begin with a name, as in `union((a), load("d"))` or `intersect((a.where(...)), b)`.
With a name there, `union(a, b)`, it does not compile, although the manual uses it; nor
does a function form with a predicate (see below).

The other half of the run are mistakes, about a thousand sources: those of
`pipelines` and `session` cut short at any token, or with one token missing, typed
twice or swapped with the next, and pipelines that go on after a `save`, which
leaves nothing on the stack. `MistakesAreErrors` says that none of them makes the
compiler or the machine panic. It leaves out two kinds of source that do: several
names that are given something else than a diff, as `c, d = a`, for which
`handleMultiAssignment` reads past the top of the stack (vm.go:804-807), and a
filter within a predicate (`nested_filters`). `MistakesAreSafe` says that all other
sources, the well-formed ones too, compile to code that cannot panic by its text
(`PanicFree`), if they compile at all. `PanicsAreForeseen` is about those that do panic:
their text does not rule it out.

**session.** The whole program: it is started with nothing, with `-p` options, or
with `-e`, or it has loaded two dumps; then the commands, the settings, output to a
file that cannot be written, sources that do not compile and filters, any two in a
row, one of them typed on two lines (the second of which may be a mistake, blank,
or never come). Ctrl-C at the prompt, a signal at the prompt, while the source
compiles, at every instruction and between two contexts, Ctrl-D, confirmations
given and declined, and a history file that cannot be read or written.
`ConfirmedFirst` says that variables or shell go away only after a confirmation
or when the setting of that command allows it. `StopsItsSourceOnly`: a source is
refused or cancelled only if Ctrl-C was pressed since its own prompt appeared, and
then it changes the variables no more except to take back what it did.
`HistoryKept`: a shell that ends with code 0 has been through `saveLiner`, except
after a confirmed exit. `ShowsThePage`: a `show` prints the goroutines of the page
it was asked for, as the manual has it, under the settings of the moment, for pages that
begin or end at, before and after the end of the dump. The pages of this run are those
for which code and manual agree: no arguments, or a limit and an offset that are the same
and not zero, of dumps in which goroutines with the same stack have the same header. For
the others they differ (see below). `ComesBack` is liveness: every source
that was typed leads back to the prompt, to a question or to the end of the
program.

**bytecode.** 39 hand-written programs, as in `vm_test.go`: every error and panic
of the machine, endless loops, endless recursion, a full stack. `EvalReturns`
is liveness: whatever the code, `Eval` returns, an endless loop by running out of
gas.

**archive.** Every text of up to three lines of ten kinds (two headers, one of
them with labels; one with a number too large; the same for "created by"; a
location; text and control characters; control characters only; a line too long for
the scanner; a blank line), and three longer ones with all that three lines cannot
show: several headers on one line, as a file that lost a newline has them (on one of
them the number in the middle is too large), a label whose value is a number, two
"created by" lines, and a text that does not end in a newline. The text is loaded, what was loaded is saved or an export is
written in its place, in writes of any length of which one may fail, and the file is
loaded again, twice over; the process may die inside of any token. `LoadsWhatItSays`
compares the dump at every step with a definition of the sections of a text.
`RoundTrip` compares the dump loaded with the one saved, hash and labels included.
`CutShort` says what a crash may cost: the goroutines after the last one written,
and the end of its trace. `SavedUnlessDropped`: success means that the whole text is
in the file, as long as no error was dropped. `LabelsAsWritten` holds for labels whose
values are words or strings; a number is not looked at by `parseLabels`, and the
label gets the value of the one before. A trace with a line that is more than a
header but begins with one may turn into two goroutines when a crash cuts it there;
`CutShort` leaves such dumps out (`NoHeaderWithin`). It leaves out another kind too
(`NumbersInRange`): of several headers, or of several "created by", on one line the
loader looks at the last one only, so that a number too large may stand before it; a
crash right behind that one makes it the last, and the file does not load at all. The
attempt to prove `CutShort` without this condition found that, and the third text
above shows it.

**The violations.** Each checks one sentence and TLC finds a state or a step
against it:

* `graph` leaves out relatives of a later match when the dump lists a child
  before its parent (README.md:514-518).
* With `pragma.empty.confirm = false`, `empty` clears the variables, reports
  success through an error, and `Eval` restores them (README.md:148-149).
* A filter that was interrupted or failed leaves its goroutine in the register;
  `.id` typed on its own then answers instead of failing (vm.go:258, 601).
* `c = a.where(.duration > 10 and b.where(.id == 2))` panics in the compiler, on
  the assertion of `patchJump` (compiler.go:560): `parsePredicate` goes back to the
  first chunk instead of the one it came from (compiler.go:611).
* `save` reports success although writes failed: `Print` drops their errors
  (goroutines.go:201, 212).
* `exit`, confirmed, which is the default, does not save the history of the shell:
  its action is `os.Exit` (vm.go:888), and `saveLiner` is deferred (README.md:105-106).

The program disagrees with its manual in ways that would violate a property of a passing
run too, whose sources leave them out:

* A goroutine that both dumps have is twice in their union, and two dumps with different
  goroutines of one ID are combined without an error (README.md:611-613, vm.go:519-524):
  with `a.union(b)` among their sources, `DoesWhatItMeans` and `MeansWhatItSays` fail.
* `union(a, b)` does not compile while `a.union(b)` does. The comma behind a name is taken
  for that of a multiple assignment (compiler.go:208), which then misses its `=`. A comment
  says that both yield the same bytecode (compiler.go:353-354), and the manual writes
  `union`, `intersect` and `diff` in this form (README.md:324, 331, 577, 616, 633):
  `MeansWhatItSays` fails.
* `show(1)` skips one goroutine and shows the rest. The compiler pushes limit and offset in
  this order, as its test wants them (compiler_test.go:577-635), and `opFuncShowDump` pops
  the limit first (vm.go:1046; README.md:493-494, help.go:95): `ShowsThePage` fails.
* With `show.count` set, `show(0)` shows that many goroutines and not all
  (README.md:494-495, vm.go:1050): `ShowsThePage` fails.
* Goroutines with the same stack count as duplicates although their headers differ
  (README.md:486-487, goroutines.go:82): `ShowsThePage` fails for `a.show()`.

Other divergences follow from the model, without a run of their own: `as(name)`
loads the variable instead of assigning to it (README.md:420-421, compiler.go:507);
`save` leaves no dump on the stack although it "returns the dump that was saved"
(README.md:467); the common part of `diff` has each goroutine twice, once for each side
(README.md:571-573, vm.go:566-579); `pragma.limits.steps` can be compiled but not
set (README.md:232, vm.go:955); `where(g1, ...)` does not compile because the
comma is not consumed (README.md:373-377, compiler.go:376); a second chain of
filters in one source may stay unfused because the optimizer's index has run past
it (README.md:396-397, compiler.go:803); `c = 5` binds a number
(README.md:193-194). No document speaks of these: two multiple assignments in
one source panic the compiler, which compares slices in `createConst`; a dump given to
several names panics the machine; some filters within a predicate compile, to code
that collects goroutines outside of any loop of its chunk; a history file that
cannot be read is truncated by the shell that then panics (main.go:106-117); `exit`
with `-e` ends with code 1 because the confirmation counts as an error
(main.go:97-98); numbers as values of labels are ignored (goroutines.go:288-321);
`save` does not expand `~` or variables in its path, as `json` and `dot` do; a
second `load("STDIN")` reads nothing.

### Bounds

`MaxEvals` (3 in `pipelines`, 2 in `session` and `bytecode`, 1 in `grammar`) is the
number of sources evaluated. State that a source leaves behind consists of the two
registers, the iterators, the heap, the settings and the variables; two sources can
set any of it, a third one reads it. In `session` the dumps are there from the
start, or options come first, so that two sources more suffice for a setting and
the command that obeys it, or for a source that Ctrl-C stops and the next. The
dumps have two and three goroutines, with the third file four: enough for a loop that
keeps, skips, fails and ends. `StackSize` and `Gas` are above what the compiled sources use; `bytecode` runs
into both. `MaxNumeral` (20 in `Compiler`) is the largest number in a source of the
runs.

In `archive`, `MCLength` is 3 (a header, a line and what ends the goroutine, or two
goroutines and a line), `MaxSaves` 2 (a file that is written over another one),
`MaxFailures` 1 per save, and `MaxInt` 50 stands for the largest int, so that 99 is
too large and 12, cut short, is still a number. No number of these texts has more than
two digits, so a stop inside of one leaves the first of them (`Torn`); of a longer number
it could leave several.

Deadlock is not checked where the system stops: the search ends, the shell may be
left, and a run stops after `MaxEvals` sources. In `archive` it is.

### Fairness

`Graph` and the machine are sequential code: `WF_vars(Next)` for the search, and
for the evaluator `WF_vars(Execute /\ ...)` and `WF_vars(Finish)`: once it was given
a source, the process executes its next instruction. `ShellFairness` says the same of
the whole program: `Proceed` is what it does without the user. Nothing is assumed of the
user: typing, confirming and Ctrl-C (`Interrupt`, `Signal`) are not fair. Liveness is checked
in `graph`, `bytecode` and `session` only; all other properties hold without fairness.

## Proofs

`GraphProofs` proves, for every set of goroutines and every set of pairs of a
dump and a filtered dump (no forest, no bound, cycles and repetitions included):

* `TypeCorrect`: `Spec => []TypeOK`.
* `GraphSound`: `Spec => []Sound`.
* `GraphNoDuplicates`: `Spec => []NoDuplicates`.
* `GraphComplete`: `Spec => []Complete`.
* `GraphComputes`: `Spec => []ComputesInGraphOf`.

The assumptions are `GoroutinesAssumption` (nil is not a goroutine) and
`InputsAssumption` (the arguments are sequences of goroutines); `GraphComplete` also
uses `FilterAssumption` (the matches are goroutines of the source, in its order, which
is what the loop of a filter adds to them).  Without it `Complete` is false: if a
grandchild were searched from before its grandparent, the descent from the grandparent
would stop at what the first climb had left.

`Sound` is not inductive: it says nothing of the queue, and the next goroutine
added is a relative only if the one being expanded is an ancestor while climbing
and a descendant while descending. The invariant adds that the queue holds
ancestors in phase "up" and descendants in phase "down". Each step then preserves
it because `Ancestors` and `Descendants`, defined as least closed sets, are closed
themselves and contain the matches. The case that could go wrong is the change
of direction: the descent starts from the match again and not from what the
climb left, which is exactly what the mutant of `Sound` breaks.
`NoDuplicates` is inductive with the types: every `Append` is behind a test with
`Has`, and sorting permutes. The facts about `Has`, `ByID`, `Sortings` and
appending come first in the module.

`Complete` needs to know what has been followed already, as the search stops at
everything that was found before. `SearchesAll` says it in terms of places in the source:
the parent of what was found was found or waits to be looked up (`Connected`); the
matches done have all their descendants (`Covered`); what lies after the next match has
its children (`PickReady`), because the searches before it started further up; a climb
stays before its match (`ClimbReady`); and what lies after the match has its children,
waits in the queue or is at its head with the children before `pos` found
(`DescentReady`). In the end what was found is closed upwards and contains a set that
is closed downwards (`FoundIsClosed`). TLC checked `CompleteInv` on the instance of run
`graph` first.

`ComputesInGraphOf` compares two ways to search: the loops of `graph.go`, one goroutine
at a time, and the operator that the machine applies, which takes `Len(source) + 1`
rounds of `Explore`. `ComputesInv` says that while climbing (`Climbed`) and in the
descent from a match (`Descended`, `InRound`) the result and the queue are those of
`Explore` after some number of rounds, the last one of which is done up to the place
`pos` in the queue. In every round one goroutine leaves the queue and
each that enters it enters the result (`Counted`), where none is twice: so the rounds
are never more than the source is long (`FewFound`), and those of the operator suffice
(`SearchEnds`, `SearchFinds`).

`EvaluatorProofs` proves `ConsentRequired`: `Spec => ConfirmedFirst`, whatever the
user types and whatever code the compiler makes of it. The property needs to
know, when `Run` has returned `ErrCommandQuit`, that `exit.confirm` is still off:
the invariant `QuitAllowed`. For the rest it is enough that every instruction but
`empty` and `exit` is `Harmless`: it neither empties the variables nor returns the
error that ends the shell, nor the one of a cancelled context.

It also proves `AlwaysTyped`: `Spec => []TypeOK`, for all well-formed code, jumps to anywhere
in a chunk and operands of any kind included. `TypeOK` is inductive: it says that each
value on the stack, in a variable, in the copy of the variables kept for a rollback and in a
register is of its kind, and that the dump it refers to exists. There is a lemma for each
action. Those that filter, combine or print dumps rest on the algebra of dumps in
`SequenceLemmas`, and a dump that is allocated makes the heap longer and takes no
reference away (`GrowWithHeap`). The assumptions are `EvaluatorAssumption` (the code is
well formed), `UserAssumption`, `VMAssumption` and `TextsAssumption` (which texts and limits
there are).

`ShellProofs` proves, for all options, lines and code:

* `ShellUsesEvaluator`: `ShellSpec => Spec`. The program implements the
  specification of the evaluator: every step of it is one of `Next` or leaves the
  evaluator alone. The invariant `Given` says that the options still to evaluate are
  sources and that one is there while it is evaluated.
* `ShellAsksFirst`: `ShellSpec => ConfirmedFirst`, from that and `ConsentRequired`;
  `ShellTyped`: `ShellSpec => []TypeOK`, from that and `AlwaysTyped`.
* `CtrlCStopsItsSource`: `ShellSpec => StopsItsSourceOnly`. The invariant `Agreed`
  says that the context is done exactly if Ctrl-C was pressed for this source; no
  instruction answers that it was canceled (`Harmless`), and a machine whose context
  is done does nothing but stop and roll back.
* `HistoryIsKept`: `ShellSpec => []HistoryKept`, which is inductive.

The assumption is `ShellAssumption`: what the lines and options make up are sources.

`ArchiveProofs` proves, for every text, of any length:

* `LoadsTheText`: `Spec => []LoadsWhatItSays`. The invariant `LoadInv` adds that
  only the goroutine being read is not frozen, that its lines go on to the line just
  scanned, and that the dump is a list of goroutines; there is a lemma for each way a
  line extends the sections (`ReadingHeader`, `ReadingLine`, `ReadingPast`,
  `ReadingFrozen`).
* `FrozenStays`: `Spec => FrozenForGood`, from `LoadInv` and `OneAtATime`: nothing is
  loaded while a file is written.

`LoopProofs` proves `DumpsNeverChange`: `Spec => DumpsImmutable`, for every set of
sources and every code that meets two assumptions. `EvaluatorAssumption`: the code is well
formed, with a first chunk. `LoopsAssumption` in module `Loops`, of which this proof uses
`WellLooped`: in the first chunk goroutines are added between a `TempDump` and the next
`PushDump` and no jump leads into that stretch from outside; the other chunks
are predicates, without such instructions and without calls. TLC evaluates both
for the code of every source in the runs `pipelines`, `grammar` and `session`, some 1300
of them;
that the compiler yields nothing else is not proved; filters within a predicate that
compile do not meet the second one and are not among the sources, and the hand-written
code of `bytecode` meets only the first. The argument:

* Only `AddGoroutine` changes the goroutines of a dump, the one in `regDumpDst`.
  Every other instruction leaves the contents of all dumps alone (`Keeps`) and
  refers to dumps in use or to new ones (`Data`, by groups of instructions).
* `AddGoroutine` is reached only while the first frame is in a filter
  (`InFilter`), because control moves on, jumps, calls or returns as `Flow` says,
  and none of these enters a filter except through `TempDump` (`FlowKept`).
* In a filter the dump in the register is not in use (`Private`). `TempDump`
  establishes it with a fresh dump, `PushDump` ends it and leaves the filter at
  the same time.

The invariant `IInv` adds to `Private` the shape of the frames, of the heap and
of the stack, and that every reference leads to a dump. It holds across sources
although the register outlives the source that set it: a source starts outside
of any filter.

It proves `EvaluatorActsAsAWhole` as well: `Spec /\ []DoesWhatItMeans => ActsAsAWhole`, that
the evaluator implements `Workspace`. The initial state maps to one (`BeginsAsAWorkspace`),
and every step to a step or a stutter (`StepsActAsAWhole`): `Eval` to `Submit`; `Finish`,
`Confirm` and `Decline` to `Complete` or `Fail` (`FinishCompletes`, `ConfirmCompletes`); an
instruction to nothing, since what the user sees meanwhile are the dumps of the clone, all in
use, and these never change (`IInv`). `FramesInv` says when `Run` is done. The
hypothesis is about the states in which a source has come to its end, and not about what
happens before: that those agree with the meaning of the source rests on the compiler and on
the denotation, which are recursive, and TLC checks it.

`IteratorProofs` proves what holds within a loop, for the same code: `IteratorsAgree`
(`Spec => []IteratorAgrees`), `TempDumpsArePrivate` (`Spec => []TempDumpIsPrivate`) and
`CollectsOnlyWhatItSaw` (`Spec => []CollectsWhatItSaw`). They are about the goroutine on the
stack, which any instruction of a predicate could pop or cover, so the proof must know how
many operands lie above it. That is the second half of the assumption, `WellStacked`:

* `Depths` counts along the text of a chunk: a load and a call add an operand, a
  test takes two and leaves one, a conditional jump takes one, and -1 stands for "no loop".
  A jump leads to where the depth is the one it leaves (`Lands`), or back to the
  `NextGoroutine` with no operand left; a predicate returns with one; no instruction
  takes more than there are.
* A loop is entered from its `TempDump` only, ends where no loop runs, and after
  `AddGoroutine` comes the jump to the next goroutine: no goroutine is added twice.
* A predicate reads known fields only, since an accessor pushes nothing for another one.

`LoopInv` says where a run is: outside of loops (`Elsewhere`), where no goroutine lies on the
stack; about to enter one (`Entering`), with an empty new dump; before the next
goroutine (`GoingOn`); between two instructions of the loop (`InBody`); or in a predicate that
it called (`InPredicate`). In the last three the goroutine of the loop lies as many values
below the top as the text says, on the dump whose iterator it is (`Walks`), and what was
collected are goroutines of that dump at increasing places, up to the goroutine
before the one the loop is at, or up to this one once it was added (`Collected`). There is
a lemma for each place (`StepElsewhere`, `StepEntering`, `StepGoingOn`, `StepInBody`,
`StepInPredicate`); `Performed` says which action an instruction performs, `Evaluated`
that the stack becomes as deep as the text says. That the dump being collected is not
the one being walked comes from `Private`, with the invariant `IInv` above.

The second half of `IteratorProofs` is about panics. `vm.go` tests neither the room on its
stack (vm.go:187) nor that a register is set (vm.go:638, 643), that a call leads somewhere
(vm.go:842), that several names are given a diff (vm.go:804), and one index too many
passes for a constant (vm.go:471): all of that is left to the compiler. Module `Panics`
says what the code must look like:

* `HasRoom`: `Heights` counts along the text of the first chunk how high the stack may be
  before each instruction; no jump leads where that is less than what it leaves
  (`Reaches`), and above the operands of a call there is room for the predicate it calls
  (`CallsSafely`).
* `FindsConstants`, `AssignsDiffs` (only a diff is given to several names) and `HasDump`
  (the register is read between a `TempDump` and a `PushDump`).

`PanicsForeseen` (`Spec => []PanicsAreForeseen`) says that code panics only if it is not
`PanicFree`, and `NoCrash` that `Spec => []NeverCrashes` if the compiler panics on no source
and what it makes of each is `PanicFree`. Both rest on the assumptions of the proofs
above. `NoCrash` is for as many sources as the user cares to type; run `pipelines` evaluates
its hypothesis (`CompiledIsSafe`). The invariant `RoomInv`, next to `IInv`, `LoopInv` and
`TypeOK`, says that a running source has its own code and, if that is `PanicFree`
(`RoomState`): the stack is no higher than the text says, one more at a `NextGoroutine` with
the goroutine of the last turn; in a predicate, than the height at its call and the depth
in the predicate together, and it is the predicate that was called; what is
about to be given to several names is a diff; and in a loop, the dump it collects into was
not indexed, as `show` does, for then `Add` panics (goroutines.go:57). There is one lemma for
each place of `LoopInv` (`RoomAfterElsewhere`, `RoomAfterTurn`, `RoomAfterBody`,
`RoomAfterPredicate`), and one for each group of instructions that it does not panic
(`WorkIsSafe`, `OutsideIsSafe`, `AddingIsSafe`, `MovingIsSafe`, `IteratingIsSafe`,
`ConstantsAreSafe`).

`RoundTripProofs` proves, for every text and every dump, of any length, about the loader
and the writer together:

* `WritesTheText`: `Spec => []SavedUnlessDropped`. What the file has together with the
  pieces still to be written is what Save meant to write (`WriterInv`), however many tokens
  each write takes.
* `ArchiveTypes`: `Spec => []TypeOK`, and `ReturnsFrozen`: `Spec => []ReturnedIsFrozen`, by
  `TextsInv`: every goroutine of the dump is `IsWhole`, with a trace of plain lines, the
  hash of its locations, and a header that says what it says.
* `RoundTrips`: `Spec => []RoundTrip`. `SavedInv` says that what Save meant to write is
  `Printed` of the dump it was given. `PrintedLines` shows, by induction over the
  goroutines, which lines this text has (`IsTextOf`), `TextReads` that the goroutines are
  the sections of these lines;
  `SectionsUnique` that a text has its sections in one way only (`EnumerationsAgree`: a
  set of numbers has one increasing enumeration); with `LoadsTheText`, what is loaded
  from the file is `Alike`, goroutine by goroutine.
* `LabelsAreRead`: `Spec => []LabelsAsWritten`, by induction over the pairs (`ParseFinds`):
  `parseLabels` has then found every key, with the value of its last pair, and holds the
  last pair itself in its variables.
* `CrashesCutShort`: `Spec => []CutShort`. `CrashInv` adds to the invariants above that after
  a crash the file is a stop in the text of the dump that was saved (`IsStop`: the first
  tokens, and maybe what is left of the next), and that the loader reads it. What was read
  of the beginning of a text is the beginning of what is read of all of it (`ReadGoesOn`, by
  induction over what follows), so the lines are those of the text, but for the
  last, which may be cut (`StoppedLines`, `AreCut`). A header line cut anywhere is a header
  line it begins with, or text; a line of a trace is one still (`CutHeader`, `CutText`: here
  the two conditions of `CutShort` are needed), and so the loader fails on none (`CutIsTaken`).
  The headers that are left are the first ones of the dump (`EnumerationBegins`: numbers of
  an enumeration, without a gap, are its first ones). A goroutine with another after it has
  all its lines (`SectionIsThere`); of the last one some are left (`SectionIsLeft`).

The induction over data these proofs need is done in sets. `SequenceLemmas` proves that
a set which contains the empty sequence and every sequence longer by one than a
member contains all sequences (`SeqInduction`), from the least element of a set of
numbers; a proof by induction takes the set of the sequences that have the property. What a
fold returns is a theorem about a function: `Folded(G, base, s)` folds the function `G`, and
`SetFoldingIsFolded` identifies it with the definition of `FoldLeft` by sets of places. Each
fold of `DumpText` then has a lemma that gives it for the empty sequence and for one
longer by one (`CleanOf`, `ReadOf`, `TraceTextOf`, `PrintsOf`, `ScanLabelsOf`, ...). `Words`
is `STRING` with the text of a torn token added, as no prover knows a literal
to be in `STRING`.

Only model-checked: that the compiler yields nothing but the code of `LoopsAssumption`, and
that this code is `PanicFree` (`CompiledIsSafe`, `MistakesAreSafe`), the hypothesis of
`NoCrash`; `MeansWhatItSays`, `MistakesAreErrors`, `DoesWhatItMeans` and `ShowsThePage`, which
speak of the compiler or of the denotation, whose operators are recursive; liveness (`Terminates`, `EvalReturns`,
`ComesBack`), which is out of the reach of the prover.

## Not modelled

* The tokenizer's scanning of characters, positions and the text of errors.
* The editing of a line, the entries of the history and completion, which are the
  line editor's; lines of white space only, which end a source or do not, after what
  they follow; two shells at a time, of which the last one to leave overwrites the
  history of the other.
* Colours, and the summary and the counts that `show` prints.
* `ErrNoSuchOpCode`, which ends the shell with code 129: no code has an instruction
  outside of the jump table.
* The cache of compiled regular expressions, which changes no result; the
  disassembler.
* That files depend on the working directory.
* The packing of an operation into 32 bits: operands in the model are numbers.

## Plan

1. *Done*: `GoroutineDump`, `Graph` with its proofs, `Values`, `VM`, `Evaluator`,
   `Compiler`, `Language`, `Workspace` and their runs.
2. *Done*: `Loader`, `Saver`, `Archive` with their proofs; mistyped sources in run
   `grammar`; `Shell` with its proofs.
3. *Done*: the shape of compiled code (`WellLooped`, `WellStacked`: jumps stay in their
   chunk, the depth of the stack is the same on every path), evaluated for every source of
   the runs, and the proofs that rest on it.
4. *Done*: the type correctness of `Evaluator` for every well-formed code, `CutShort`, what
   the graph search computes, and the refinement of `Workspace`.
5. *Done*: what the text of code says of panics (`PanicFree`), evaluated for the sources of
   the runs, and the proof that `NeverCrashes` follows.
