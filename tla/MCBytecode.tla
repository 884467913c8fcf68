----------------------------- MODULE MCBytecode -----------------------------
(***************************************************************************)
(* Instance of Evaluator that runs code written by hand, as the tests of   *)
(* vm_test.go do: instructions in states the compiler does not bring about *)
(* (operands that are missing or of the wrong type, constants and chunks   *)
(* that do not exist, registers that are nil, a full stack) and loops that *)
(* never end.                                                              *)
(***************************************************************************)
EXTENDS MCDumps, TLC

Each(names) == [i \in DOMAIN names |-> Op(names[i], 0)]
Plain(ops) == Code(<<ops>>, <<>>)
With1(ops, c) == Code(<<ops>>, <<c>>)
LoadA == Op("LoadGoroutineDump", 0)

(* A diff of the dump a with itself, then ops; constant 1 is given.        *)
OnDiff(ops, c) ==
  Code(<< <<LoadA, LoadA, Op("FuncDiff", 0)>> \o ops >>, <<Str("a"), c>>)

(* The first iteration of a loop over the dump a, then ops.                *)
Iterating(ops, c) ==
  Code(<< <<LoadA, Op("NextGoroutine", 65535)>> \o ops >>, <<Str("a"), c>>)

Broken1 == [
  dupEmpty     |-> Plain(Each(<<"Noop", "Dup">>)),
  loadNumber   |-> With1(<<Op("LoadNumber", 0), Op("FuncLoad", 0)>>, Number(7)),
  noConstants  |-> Plain(Each(<<"LoadString">>)),
  pastTheEnd   |-> With1(<<Op("LoadString", 1)>>, Str("a")),
  wrongConst   |-> With1(<<Op("LoadNumber", 0)>>, Str("a")),
  resetNil     |-> Plain(Each(<<"ResetDump">>)),
  reset        |-> Plain(Each(<<"TempDump", "ResetDump", "PushDump">>)),
  pushNil      |-> Plain(Each(<<"PushDump">>)),
  addNil       |-> Iterating(Each(<<"AddGoroutine">>), Number(0)),
  addIndexed   |-> Iterating(Each(<<"TempDump", "PushDump">>)
                     \o <<Op("LoadNumber", 1), Op("LoadNumber", 1)>>
                     \o Each(<<"FuncShowDump", "AddGoroutine">>), Number(0)),
  returnTwice  |-> Code(<<Each(<<"Return">>)>>, <<>>),
  callNothing  |-> Plain(<<Op("Call", 1)>>),
  overflow     |-> Plain(<<Op("PushBool", 1), Op("JumpTo", 0)>>),
  spin         |-> Plain(<<Op("JumpTo", 0)>>),
  recurse      |-> Plain(<<Op("Call", 0)>>),
  spinning     |-> Iterating(<<Op("JumpTo", 0)>>, Number(0))]

Broken2 == [
  splitDump    |-> Code(<< <<LoadA, Op("Assignment", 1)>> >>,
                        <<Str("a"), Multi(<<0, 0, 0>>)>>),
  splitNumber  |-> Code(<< <<Op("LoadNumber", 2), Op("Assignment", 1)>> >>,
                        <<Str("a"), Multi(<<0, 0, 0>>), Number(1)>>),
  splitInTwo   |-> OnDiff(<<Op("Assignment", 1)>>, Multi(<<0, 0>>)),
  nameDiff     |-> OnDiff(<<Op("Assignment", 1)>>, Str("d")),
  loadDiff     |-> With1(<<LoadA>>, Str("d")),
  assignBad    |-> With1(<<Op("Assignment", 0)>>, Number(1)),
  nextEmpty    |-> Plain(Each(<<"NextGoroutine">>)),
  nextTwice    |-> Iterating(Each(<<"Dup", "NextGoroutine">>), Number(0)),
  mismatch     |-> Iterating(<<Op("LoadNumber", 1), Op("PushBool", 1),
                               Op("Equal", 0)>>, Number(0)),
  inNumber     |-> Iterating(<<Op("LoadNumber", 1), Op("Dup", 0),
                               Op("In", 0)>>, Number(0)),
  badRegex     |-> Iterating(<<Op("LoadString", 1), Op("Dup", 0),
                               Op("RegexMatches", 0)>>, Str("(")),
  noSuchField  |-> Iterating(<<Op("LoadFieldAccessor", 1)>>, Str(".bogus")),
  label        |-> Iterating(<<Op("LoadFieldAccessor", 1)>>, Str(".labels.job"))]

Settings1 == [
  nothingToSet |-> With1(<<Op("LoadString", 0), Op("CommandSetPragma", 0)>>,
                         Str("show.count")),
  setWrongly   |-> With1(<<Op("PushBool", 0), Op("LoadString", 0),
                           Op("CommandSetPragma", 0)>>, Str("show.count")),
  setDisplay   |-> Code(<< <<Op("LoadString", 0), Op("LoadString", 1),
                             Op("CommandSetPragma", 0)>> >>,
                        <<Str("bogus"), Str("vars.display")>>),
  vars         |-> Plain(Each(<<"CommandVars">>)),
  helpNumber   |-> With1(<<Op("CommandHelp", 0)>>, Number(1)),
  helpTopic    |-> With1(<<Op("CommandHelp", 0)>>, Str("types")),
  helpPast     |-> With1(<<Op("CommandHelp", 1)>>, Str("types")),
  cdBack       |-> With1(<<Op("CommandChangeDir", 0)>>, Str("-")),
  notCompiled  |-> CompileError,
  panicked     |-> CompilePanic]

BytecodeCompiled == Broken1 @@ Broken2 @@ Settings1
BytecodeSources == DOMAIN BytecodeCompiled

=============================================================================
