----------------------------- MODULE LoopProofs -----------------------------
(***************************************************************************)
(* A dump that was returned never changes, for all code whose loops have   *)
(* the shape that module Loops describes.  The argument: only AddGoroutine *)
(* changes a dump, the one in regDumpDst; it is reached only while the     *)
(* filter is collecting, that is after a TempDump and before the PushDump; *)
(* and meanwhile nothing refers to that dump.                              *)
(***************************************************************************)
EXTENDS Loops, Rollback, SequenceLemmas

-----------------------------------------------------------------------------
(* The references in sequences and functions of values.                    *)
LEMMA RefsInAppend ==
  ASSUME NEW S, NEW s \in Seq(S), NEW v
  PROVE  /\ Append(s, v) \in Seq(S \cup {v})
         /\ RefsIn(Append(s, v)) \subseteq RefsIn(s) \cup RefsOf(v)
<1>1. Append(s, v) \in Seq(S \cup {v})
  <2>1. s \in Seq(S \cup {v})
    OBVIOUS
  <2> QED BY <2>1
<1>2. \A i \in DOMAIN Append(s, v) :
        Append(s, v)[i] = v \/ (i \in DOMAIN s /\ Append(s, v)[i] = s[i])
  OBVIOUS
<1> QED BY <1>1, <1>2 DEF RefsIn

LEMMA RefsInPrefix ==
  ASSUME NEW S, NEW s \in Seq(S), NEW n \in Nat, n <= Len(s)
  PROVE  /\ SubSeq(s, 1, Len(s) - n) \in Seq(S)
         /\ Len(SubSeq(s, 1, Len(s) - n)) = Len(s) - n
         /\ \A i \in 1..(Len(s) - n) : SubSeq(s, 1, Len(s) - n)[i] = s[i]
         /\ RefsIn(SubSeq(s, 1, Len(s) - n)) \subseteq RefsIn(s)
<1> DEFINE t == SubSeq(s, 1, Len(s) - n)
<1>1. t \in Seq(S) /\ Len(t) = Len(s) - n
  OBVIOUS
<1>2. \A i \in 1..(Len(s) - n) : t[i] = s[i]
  OBVIOUS
<1>3. DOMAIN t = 1..(Len(s) - n) /\ DOMAIN t \subseteq DOMAIN s
  BY <1>1
<1>4. RefsIn(t) \subseteq RefsIn(s)
  BY <1>2, <1>3 DEF RefsIn
<1> QED BY <1>1, <1>2, <1>4

LEMMA RefsOfElement ==
  ASSUME NEW f, NEW x \in DOMAIN f
  PROVE  RefsOf(f[x]) \subseteq RefsIn(f)
BY DEF RefsIn

LEMMA RefsInBind ==
  ASSUME NEW e, NEW name, NEW v
  PROVE  RefsIn(Bind(e, name, v)) \subseteq RefsIn(e) \cup RefsOf(v)
<1>1. \A n \in DOMAIN Bind(e, name, v) :
        Bind(e, name, v)[n] = v \/ (n \in DOMAIN e /\ Bind(e, name, v)[n] = e[n])
  BY DEF Bind
<1> QED BY <1>1 DEF RefsIn

LEMMA RefsOfValues ==
  /\ \A b : RefsOf(Bool(b)) = {}
  /\ \A n : RefsOf(Number(n)) = {}
  /\ \A s : RefsOf(Str(s)) = {}
  /\ \A ls : RefsOf(Map(ls)) = {}
  /\ \A g : RefsOf(Goroutine(g)) = {}
  /\ \A r : RefsOf(Dump(r)) = {r}
  /\ \A l, c, r : RefsOf(Diff(l, c, r)) = {l, c, r}
BY DEF RefsOf, Bool, Number, Str, Map, Goroutine, Dump, Diff

LEMMA RefsOfTagged ==
  ASSUME NEW v
  PROVE  /\ v.tag = "dump" => RefsOf(v) = {v.ref}
         /\ v.tag = "diff" => RefsOf(v) = {v.left, v.common, v.right}
         /\ v.tag \notin {"dump", "diff"} => RefsOf(v) = {}
BY DEF RefsOf

LEMMA RefsOfField ==
  ASSUME NEW g, NEW name, Field(g, name) # <<>>
  PROVE  RefsOf(Field(g, name)[1]) = {}
BY RefsOfValues DEF Field

LEMMA RefsInBindTarget ==
  ASSUME NEW e, NEW target, NEW ref
  PROVE  RefsIn(BindTarget(e, target, ref)) \subseteq RefsIn(e) \cup {ref}
BY RefsInBind, RefsOfValues DEF BindTarget

-----------------------------------------------------------------------------
(* What every step keeps of the stack and the heap.                        *)
StackShape == \E S : stack \in Seq(S)

HeapOver(A, B, C) == Seq([goroutines : A, iterIndex : B, isIndexed : C])
HeapShape == \E A, B, C : heap \in HeapOver(A, B, C)

LEMMA HeapLength ==
  /\ HeapShape => Len(heap) \in Nat
  /\ HeapShape' => Len(heap') \in Nat
<1>1. ASSUME HeapShape PROVE Len(heap) \in Nat
  <2>1. PICK A, B, C : heap \in HeapOver(A, B, C)
    BY <1>1 DEF HeapShape
  <2> QED BY <2>1 DEF HeapOver
<1>2. ASSUME HeapShape' PROVE Len(heap') \in Nat
  <2>1. PICK A, B, C : heap' \in HeapOver(A, B, C)
    BY <1>2 DEF HeapShape
  <2> QED BY <2>1 DEF HeapOver
<1> QED BY <1>1, <1>2

(* A stack to go on with that refers to no other dumps than this one.      *)
Below(s) == (\E S : s \in Seq(S)) /\ RefsIn(s) \subseteq RefsIn(stack)

LEMMA StacksBelow ==
  ASSUME StackShape
  PROVE  /\ Below(stack)
         /\ \A n \in Nat : n <= Len(stack) =>
              Below(Rest(n)) /\ Len(Rest(n)) = Len(stack) - n
         /\ \A s : Below(s) /\ Len(s) > 0 => Below(SubSeq(s, 1, Len(s) - 1))
<1>1. Below(stack)
  BY DEF StackShape, Below
<1>2. ASSUME NEW n \in Nat, n <= Len(stack)
      PROVE  Below(Rest(n)) /\ Len(Rest(n)) = Len(stack) - n
  BY <1>2, RefsInPrefix DEF StackShape, Below, Rest
<1>3. ASSUME NEW s, Below(s), Len(s) > 0
      PROVE  Below(SubSeq(s, 1, Len(s) - 1))
  <2>1. PICK S : s \in Seq(S)
    BY <1>3 DEF Below
  <2>2. 1 \in Nat /\ 1 <= Len(s)
    BY <1>3, <2>1
  <2>3. /\ SubSeq(s, 1, Len(s) - 1) \in Seq(S)
        /\ RefsIn(SubSeq(s, 1, Len(s) - 1)) \subseteq RefsIn(s)
    BY <2>1, <2>2, RefsInPrefix
  <2> QED BY <1>3, <2>3 DEF Below
<1> QED BY <1>1, <1>2, <1>3

(* The next stack has the references of this one and those in refs.        *)
Gains(refs) == StackShape' /\ RefsIn(stack') \subseteq RefsIn(stack) \cup refs

LEMMA StacksAfter ==
  ASSUME StackShape
  PROVE  /\ \A ip, s : Below(s) /\ GoTo(ip, s) => Gains({})
         /\ \A s : Below(s) /\ Advance(s) => Gains({})
         /\ \A s, v : Below(s) /\ Push(s, v) => Gains(RefsOf(v))
         /\ Crash => Gains({})
         /\ \A e : Fail(e) => Gains({})
<1>1. stack' = stack => Gains({})
  BY DEF Gains, StackShape
<1>2. ASSUME NEW s, Below(s), stack' = s
      PROVE  Gains({})
  BY <1>2 DEF Gains, Below, StackShape
<1>3. ASSUME NEW s, NEW v, Below(s), Push(s, v)
      PROVE  Gains(RefsOf(v))
  <2>1. CASE Len(s) < StackSize
    <3>1. stack' = Append(s, v)
      BY <1>3, <2>1 DEF Push, Advance, GoTo
    <3>2. PICK S : s \in Seq(S)
      BY <1>3 DEF Below
    <3>3. /\ stack' \in Seq(S \cup {v})
          /\ RefsIn(stack') \subseteq RefsIn(s) \cup RefsOf(v)
      BY <3>1, <3>2, RefsInAppend
    <3> QED BY <1>3, <3>3 DEF Gains, Below, StackShape
  <2>2. CASE ~(Len(s) < StackSize)
    BY <1>3, <2>2, <1>1 DEF Push, Crash, Gains
  <2> QED BY <2>1, <2>2
<1> QED BY <1>1, <1>2, <1>3 DEF GoTo, Advance, Crash, Fail

(* The next heap has the dumps of this one, with their goroutines.         *)
Keeps ==
  /\ HeapShape'
  /\ Len(heap) <= Len(heap')
  /\ \A r \in 1..Len(heap) : heap'[r].goroutines = heap[r].goroutines

LEMMA FieldsOfElements ==
  ASSUME NEW A, NEW B, NEW C, NEW n, NEW x,
         NEW s \in Seq([goroutines : A, iterIndex : B, isIndexed : C]), n \in 1..Len(s)
  PROVE  /\ [s EXCEPT ![n].iterIndex = x] = [s EXCEPT ![n] = [s[n] EXCEPT !.iterIndex = x]]
         /\ [s[n] EXCEPT !.iterIndex = x]
              \in [goroutines : A, iterIndex : B \cup {x}, isIndexed : C]
         /\ [s[n] EXCEPT !.iterIndex = x].goroutines = s[n].goroutines
         /\ [s EXCEPT ![n].isIndexed = x] = [s EXCEPT ![n] = [s[n] EXCEPT !.isIndexed = x]]
         /\ [s[n] EXCEPT !.isIndexed = x]
              \in [goroutines : A, iterIndex : B, isIndexed : C \cup {x}]
         /\ [s[n] EXCEPT !.isIndexed = x].goroutines = s[n].goroutines
<1>1. s[n] \in [goroutines : A, iterIndex : B, isIndexed : C]
  <2>1. \A S : s \in Seq(S) => s[n] \in S
    OBVIOUS
  <2> QED BY <2>1, Zenon
<1>2. ASSUME NEW d \in [goroutines : A, iterIndex : B, isIndexed : C]
      PROVE  /\ [d EXCEPT !.iterIndex = x]
                  \in [goroutines : A, iterIndex : B \cup {x}, isIndexed : C]
             /\ [d EXCEPT !.iterIndex = x].goroutines = d.goroutines
             /\ [d EXCEPT !.isIndexed = x]
                  \in [goroutines : A, iterIndex : B, isIndexed : C \cup {x}]
             /\ [d EXCEPT !.isIndexed = x].goroutines = d.goroutines
  OBVIOUS
<1>3. /\ [s EXCEPT ![n].iterIndex = x] = [s EXCEPT ![n] = [s[n] EXCEPT !.iterIndex = x]]
      /\ [s EXCEPT ![n].isIndexed = x] = [s EXCEPT ![n] = [s[n] EXCEPT !.isIndexed = x]]
  OBVIOUS
<1> QED BY <1>1, <1>2, <1>3

LEMMA HeapsAfter ==
  ASSUME HeapShape
  PROVE  /\ heap' = heap => Keeps
         /\ \A gs, b :
              heap' = Append(heap, [goroutines |-> gs, iterIndex |-> 0, isIndexed |-> b])
              => Keeps /\ Len(heap') = Len(heap) + 1
         /\ \A g1, g2, g3 :
              heap' = heap \o
                <<[goroutines |-> g1, iterIndex |-> 0, isIndexed |-> FALSE],
                  [goroutines |-> g2, iterIndex |-> 0, isIndexed |-> FALSE],
                  [goroutines |-> g3, iterIndex |-> 0, isIndexed |-> FALSE]>>
              => Keeps /\ Len(heap') = Len(heap) + 3
         /\ \A r \in 1..Len(heap) : \A n :
              heap' = [heap EXCEPT ![r].iterIndex = n] => Keeps
         /\ \A r \in 1..Len(heap) : \A b :
              heap' = [heap EXCEPT ![r].isIndexed = b] => Keeps
<1> PICK A, B, C : heap \in HeapOver(A, B, C)
  BY DEF HeapShape
<1> DEFINE S == [goroutines : A, iterIndex : B, isIndexed : C]
<1>0. heap \in Seq(S) /\ Len(heap) \in Nat
  BY DEF HeapOver
<1>1. ASSUME heap' = heap PROVE Keeps
  <2>1. heap' \in HeapOver(A, B, C) /\ Len(heap) <= Len(heap')
    BY <1>0, <1>1
  <2> QED BY <1>1, <2>1 DEF Keeps, HeapShape
<1>2. ASSUME NEW gs, NEW b,
             heap' = Append(heap, [goroutines |-> gs, iterIndex |-> 0, isIndexed |-> b])
      PROVE  Keeps /\ Len(heap') = Len(heap) + 1
  <2> DEFINE d == [goroutines |-> gs, iterIndex |-> 0, isIndexed |-> b]
             T == [goroutines : A \cup {gs}, iterIndex : B \cup {0}, isIndexed : C \cup {b}]
  <2>1. S \subseteq T /\ d \in T
    OBVIOUS
  <2> HIDE DEF d, S, T
  <2>2. heap' = Append(heap, d)
    BY <1>2 DEF d
  <2>3. /\ heap' \in Seq(T) /\ Len(heap') = Len(heap) + 1
        /\ \A i \in 1..Len(heap) : heap'[i] = heap[i]
    BY <1>0, <2>1, <2>2, AppendedTo
  <2>4. heap' \in HeapOver(A \cup {gs}, B \cup {0}, C \cup {b})
    BY <2>3 DEF HeapOver, T
  <2> QED BY <1>0, <2>3, <2>4 DEF Keeps, HeapShape
<1>5. ASSUME NEW g1, NEW g2, NEW g3,
             heap' = heap \o
               <<[goroutines |-> g1, iterIndex |-> 0, isIndexed |-> FALSE],
                 [goroutines |-> g2, iterIndex |-> 0, isIndexed |-> FALSE],
                 [goroutines |-> g3, iterIndex |-> 0, isIndexed |-> FALSE]>>
      PROVE  Keeps /\ Len(heap') = Len(heap) + 3
  <2> DEFINE d(g) == [goroutines |-> g, iterIndex |-> 0, isIndexed |-> FALSE]
             T == [goroutines : A \cup {g1, g2, g3}, iterIndex : B \cup {0},
                   isIndexed : C \cup {FALSE}]
  <2>1. S \subseteq T /\ d(g1) \in T /\ d(g2) \in T /\ d(g3) \in T
    OBVIOUS
  <2>2. heap' = heap \o <<d(g1), d(g2), d(g3)>>
    BY <1>5
  <2> HIDE DEF d, S, T
  <2>3. /\ heap' \in Seq(T) /\ Len(heap') = Len(heap) + 3
        /\ \A i \in 1..Len(heap) : heap'[i] = heap[i]
    BY <1>0, <2>1, <2>2, JoinedTo
  <2>4. heap' \in HeapOver(A \cup {g1, g2, g3}, B \cup {0}, C \cup {FALSE})
    BY <2>3 DEF HeapOver, T
  <2> QED BY <1>0, <2>3, <2>4 DEF Keeps, HeapShape
<1>3. ASSUME NEW r \in 1..Len(heap), NEW n,
             heap' = [heap EXCEPT ![r].iterIndex = n]
      PROVE  Keeps
  <2> DEFINE d == [heap[r] EXCEPT !.iterIndex = n]
             T == [goroutines : A, iterIndex : B \cup {n}, isIndexed : C]
  <2>1. S \subseteq T /\ d \in T /\ d.goroutines = heap[r].goroutines
    BY <1>0, FieldsOfElements
  <2>2. heap' = [heap EXCEPT ![r] = d]
    BY <1>0, <1>3, FieldsOfElements
  <2> HIDE DEF d, S, T
  <2>3. /\ heap' \in Seq(T) /\ Len(heap') = Len(heap)
        /\ \A i \in 1..Len(heap) : heap'[i] = IF i = r THEN d ELSE heap[i]
    BY <1>0, <2>1, <2>2, ReplacedIn
  <2>4. heap' \in HeapOver(A, B \cup {n}, C)
    BY <2>3 DEF HeapOver, T
  <2> QED BY <1>0, <2>1, <2>3, <2>4 DEF Keeps, HeapShape
<1>4. ASSUME NEW r \in 1..Len(heap), NEW b,
             heap' = [heap EXCEPT ![r].isIndexed = b]
      PROVE  Keeps
  <2> DEFINE d == [heap[r] EXCEPT !.isIndexed = b]
             T == [goroutines : A, iterIndex : B, isIndexed : C \cup {b}]
  <2>1. S \subseteq T /\ d \in T /\ d.goroutines = heap[r].goroutines
    BY <1>0, FieldsOfElements
  <2>2. heap' = [heap EXCEPT ![r] = d]
    BY <1>0, <1>4, FieldsOfElements
  <2> HIDE DEF d, S, T
  <2>3. /\ heap' \in Seq(T) /\ Len(heap') = Len(heap)
        /\ \A i \in 1..Len(heap) : heap'[i] = IF i = r THEN d ELSE heap[i]
    BY <1>0, <2>1, <2>2, ReplacedIn
  <2>4. heap' \in HeapOver(A, B, C \cup {b})
    BY <2>3 DEF HeapOver, T
  <2> QED BY <1>0, <2>1, <2>3, <2>4 DEF Keeps, HeapShape
<1> QED BY <1>1, <1>2, <1>3, <1>4, <1>5

-----------------------------------------------------------------------------
(* What a step does to the data: all of them but TempDump, PushDump and    *)
(* AddGoroutine refer to the dumps already in use and to new ones only,    *)
(* change the goroutines of none and leave the register alone.             *)
Shapes == HeapShape /\ StackShape /\ InUse \subseteq 1..Len(heap)

Data ==
  /\ Keeps
  /\ StackShape'
  /\ regDumpDst' = regDumpDst
  /\ RefsIn(stack') \cup RefsIn(env') \subseteq InUse \cup (Len(heap) + 1)..Len(heap')

LEMMA Popped ==
  /\ \A op \in {"Dup", "Assignment", "JumpIfFalse", "JumpIfTrue", "FuncLoad"} :
       At(op) => 1 <= Len(stack)
  /\ \A op \in Comparisons \cup {"Contains", "In", "RegexMatches", "RegexNotMatches",
                                 "FuncUnion", "FuncIntersect", "FuncDiff", "FuncGraph",
                                 "FuncSave", "FuncToJSON", "FuncToDot"} :
       At(op) => 2 <= Len(stack)
  /\ At("FuncShowDump") => 3 <= Len(stack) /\ Nth(3).tag = "dump"
<1> USE DEF At, HasOperands, Operands, Comparisons
<1>1. \A op \in {"Dup", "Assignment", "JumpIfFalse", "JumpIfTrue", "FuncLoad"} :
        At(op) => 1 <= Len(stack)
  OBVIOUS
<1>2. \A op \in Comparisons \cup {"Contains", "In", "RegexMatches", "RegexNotMatches",
                                  "FuncUnion", "FuncIntersect", "FuncDiff", "FuncGraph",
                                  "FuncSave", "FuncToJSON", "FuncToDot"} :
        At(op) => 2 <= Len(stack)
  OBVIOUS
<1>3. At("FuncShowDump") => 3 <= Len(stack) /\ Nth(3).tag = "dump"
  BY DEF Fits
<1> QED BY <1>1, <1>2, <1>3

(* A step that only works on the stack.                                    *)
LEMMA Quiet ==
  ASSUME Shapes, NEW refs, Gains(refs), refs \subseteq InUse,
         heap' = heap, env' = env, regDumpDst' = regDumpDst
  PROVE  Data
BY HeapsAfter DEF Shapes, Data, Gains, InUse

(* The values on the stack refer to dumps in use.                          *)
LEMMA OnStack ==
  ASSUME StackShape, NEW n \in 1..Len(stack)
  PROVE  RefsOf(Nth(n)) \subseteq RefsIn(stack)
<1>1. Len(stack) + 1 - n \in DOMAIN stack
  BY DEF StackShape
<1> QED BY <1>1, RefsOfElement DEF Nth

LEMMA DataOfLoadsAndStores ==
  ASSUME Shapes,
         Noop \/ Dup \/ LoadConstant \/ PushBool \/ LoadGoroutineDump
           \/ LoadFieldAccessor \/ Assignment \/ AssignMulti
  PROVE  Data
<1> USE DEF registers
<1>0. StackShape /\ RefsIn(stack) \subseteq InUse /\ RefsIn(env) \subseteq InUse
  BY DEF Shapes, InUse
<1>1. CASE Noop
  <2>1. Gains({})
    BY <1>0, <1>1, StacksBelow, StacksAfter DEF Noop
  <2> QED BY <1>1, <2>1, Quiet DEF Noop
<1>2. CASE Dup
  <2>1. 1 \in 1..Len(stack)
    BY <1>0, <1>2, Popped DEF Dup, StackShape
  <2>2. Gains(RefsOf(Nth(1)))
    BY <1>0, <1>2, StacksBelow, StacksAfter DEF Dup
  <2> QED BY <1>0, <1>2, <2>1, <2>2, OnStack, Quiet DEF Dup
<1>3. CASE LoadConstant
  <2>1. RefsOf(Constant) = {}
    <3>1. HasConstant /\ Instr.op \in {"LoadNumber", "LoadString"}
      BY <1>3 DEF LoadConstant, At, Fetches
    <3>2. Constant.tag \in {"number", "string"}
      BY <3>1 DEF HasConstant, ConstantTags
    <3> QED BY <3>2, RefsOfTagged
  <2>2. PICK v : v = Constant /\ Push(stack, v)
    BY <1>3 DEF LoadConstant
  <2>3. RefsOf(v) = {}
    BY <2>1, <2>2
  <2>4. Gains({})
    BY <1>0, <2>2, <2>3, StacksBelow, StacksAfter
  <2> QED BY <1>3, <2>4, Quiet DEF LoadConstant
<1>4. CASE PushBool
  <2>1. PICK v : RefsOf(v) = {} /\ Push(stack, v)
    BY <1>4, RefsOfValues, Zenon DEF PushBool
  <2>2. Gains({})
    BY <1>0, <2>1, StacksBelow, StacksAfter
  <2> QED BY <1>4, <2>2, Quiet DEF PushBool
<1>5. CASE LoadGoroutineDump
  <2> DEFINE name == Constant.str
  <2>1. \/ \E e : Fail(e)
        \/ name \in DOMAIN env /\ Push(stack, env[name])
    BY <1>5, Zenon DEF LoadGoroutineDump
  <2>2. CASE \E e : Fail(e)
    <3>1. Gains({})
      BY <1>0, <2>2, StacksAfter
    <3> QED BY <1>5, <3>1, Quiet DEF LoadGoroutineDump
  <2>3. CASE name \in DOMAIN env /\ Push(stack, env[name])
    <3>1. Gains(RefsOf(env[name]))
      BY <1>0, <2>3, StacksBelow, StacksAfter
    <3>2. RefsOf(env[name]) \subseteq InUse
      BY <1>0, <2>3, RefsOfElement
    <3> QED BY <1>5, <3>1, <3>2, Quiet DEF LoadGoroutineDump
  <2> QED BY <2>1, <2>2, <2>3
<1>6. CASE LoadFieldAccessor
  <2> DEFINE field == Field(regGoroutine, Constant.str)
  <2>1. \/ \E e : Fail(e)
        \/ Advance(stack)
        \/ field # <<>> /\ Push(stack, field[1])
    BY <1>6, Zenon DEF LoadFieldAccessor
  <2>2. field # <<>> => RefsOf(field[1]) = {}
    BY RefsOfField
  <2> HIDE DEF field
  <2>3. Gains({})
    BY <1>0, <2>1, <2>2, StacksBelow, StacksAfter
  <2> QED BY <1>6, <2>3, Quiet DEF LoadFieldAccessor
<1>7. CASE Assignment
  <2>1. Gains({})
    BY <1>0, <1>7, StacksBelow, StacksAfter DEF Assignment
  <2>2. 1 \in 1..Len(stack)
    BY <1>0, <1>7, Popped DEF Assignment, StackShape
  <2>3. RefsIn(env') \subseteq InUse
    BY <1>0, <1>7, <2>2, OnStack, RefsInBind DEF Assignment
  <2> QED BY <1>0, <1>7, <2>1, <2>3, HeapsAfter DEF Assignment, Data, Gains, Shapes
<1>8. CASE AssignMulti
  <2>1. Gains({})
    <3>1. Advance(stack) \/ Crash \/ \E e : Fail(e)
      BY <1>8, Zenon DEF AssignMulti
    <3> QED BY <1>0, <3>1, StacksBelow, StacksAfter
  <2>2. RefsOf(Nth(1)) \subseteq InUse
    BY <1>0, <1>8, OnStack, Popped DEF AssignMulti, StackShape
  <2>3. RefsIn(env') \subseteq InUse
    <3>1. CASE env' = env
      BY <1>0, <3>1
    <3>2. CASE env' # env
      <4> DEFINE top == Nth(1)
                 names == Constant.targets
      <4>1. /\ top.tag = "diff"
            /\ env' = BindTarget(BindTarget(BindTarget(env, names[1], top.left),
                                            names[2], top.common),
                                 names[3], top.right)
        BY <1>8, <3>2, Zenon DEF AssignMulti
      <4>2. {top.left, top.common, top.right} \subseteq InUse
        BY <2>2, <4>1, RefsOfTagged
      <4> HIDE DEF top, names
      <4>3. RefsIn(env') \subseteq RefsIn(env) \cup {top.left} \cup {top.common} \cup {top.right}
        <5>1. RefsIn(BindTarget(env, names[1], top.left)) \subseteq RefsIn(env) \cup {top.left}
          BY RefsInBindTarget
        <5> DEFINE e1 == BindTarget(env, names[1], top.left)
                   e2 == BindTarget(e1, names[2], top.common)
        <5> HIDE DEF e1
        <5>2. RefsIn(e2) \subseteq RefsIn(e1) \cup {top.common}
          BY RefsInBindTarget
        <5> HIDE DEF e2
        <5>3. RefsIn(BindTarget(e2, names[3], top.right)) \subseteq RefsIn(e2) \cup {top.right}
          BY RefsInBindTarget
        <5> QED BY <4>1, <5>1, <5>2, <5>3 DEF e1, e2
      <4> QED BY <1>0, <4>2, <4>3
    <3> QED BY <3>1, <3>2
  <2> QED BY <1>0, <1>8, <2>1, <2>3, HeapsAfter DEF AssignMulti, Data, Gains, Shapes
<1> QED BY <1>1, <1>2, <1>3, <1>4, <1>5, <1>6, <1>7, <1>8

LEMMA DataOfComparisonsAndJumps ==
  ASSUME Shapes,
         Comparison \/ ContainsOrIn \/ RegexMatches \/ ConditionalJump
           \/ JumpTo \/ Call \/ Return
  PROVE  Data
<1> USE DEF registers
<1>0. StackShape
  BY DEF Shapes
<1>1. ASSUME 2 <= Len(stack),
             \/ \E v : RefsOf(v) = {} /\ Push(Rest(2), v)
             \/ \E e : Fail(e)
      PROVE  Gains({})
  <2>1. Below(Rest(2))
    BY <1>0, <1>1, StacksBelow
  <2> QED BY <1>0, <1>1, <2>1, StacksAfter
<1>2. CASE Comparison
  <2>1. 2 <= Len(stack)
    BY <1>2, Popped DEF Comparison
  <2>2. \/ \E v : RefsOf(v) = {} /\ Push(Rest(2), v)
        \/ \E e : Fail(e)
    BY <1>2, RefsOfValues, Zenon DEF Comparison
  <2>3. Gains({})
    BY <1>1, <2>1, <2>2
  <2> QED BY <1>2, <2>3, Quiet DEF Comparison
<1>3. CASE ContainsOrIn
  <2>1. 2 <= Len(stack)
    BY <1>3, Popped DEF ContainsOrIn
  <2>2. \/ \E v : RefsOf(v) = {} /\ Push(Rest(2), v)
        \/ \E e : Fail(e)
    BY <1>3, RefsOfValues, Zenon DEF ContainsOrIn
  <2>3. Gains({})
    BY <1>1, <2>1, <2>2
  <2> QED BY <1>3, <2>3, Quiet DEF ContainsOrIn
<1>4. CASE RegexMatches
  <2>1. 2 <= Len(stack)
    BY <1>4, Popped DEF RegexMatches
  <2>2. \/ \E v : RefsOf(v) = {} /\ Push(Rest(2), v)
        \/ \E e : Fail(e)
    BY <1>4, RefsOfValues, Zenon DEF RegexMatches
  <2>3. Gains({})
    BY <1>1, <2>1, <2>2
  <2> QED BY <1>4, <2>3, Quiet DEF RegexMatches
<1>5. CASE ConditionalJump
  <2>1. Below(Rest(1))
    BY <1>0, <1>5, Popped, StacksBelow DEF ConditionalJump
  <2>2. Gains({})
    BY <1>0, <1>5, <2>1, StacksAfter DEF ConditionalJump
  <2> QED BY <1>5, <2>2, Quiet DEF ConditionalJump
<1>6. CASE JumpTo
  <2>1. Gains({})
    BY <1>0, <1>6, StacksBelow, StacksAfter DEF JumpTo
  <2> QED BY <1>6, <2>1, Quiet DEF JumpTo
<1>7. CASE Call \/ Return
  <2>1. stack' = stack
    BY <1>7 DEF Call, Return, Crash
  <2>2. Gains({})
    BY <1>0, <2>1 DEF Gains, StackShape
  <2> QED BY <1>7, <2>2, Quiet DEF Call, Return
<1> QED BY <1>2, <1>3, <1>4, <1>5, <1>6, <1>7

LEMMA DataOfLoops ==
  ASSUME Shapes, regDumpDst \in 0..Len(heap), ResetDump \/ NextGoroutine
  PROVE  Data
<1> USE DEF registers
<1>0. StackShape /\ HeapShape /\ InUse \subseteq 1..Len(heap) /\ RefsIn(stack) \subseteq InUse
  BY DEF Shapes, InUse
<1>1. CASE ResetDump
  <2>1. Gains({})
    BY <1>0, <1>1, StacksBelow, StacksAfter DEF ResetDump
  <2>2. Keeps
    <3>1. CASE heap' = heap
      BY <1>0, <3>1, HeapsAfter
    <3>2. CASE heap' # heap
      <4>1. /\ heap' = [heap EXCEPT ![regDumpDst].iterIndex = 0]
            /\ regDumpDst # 0
        BY <1>1, <3>2, Zenon DEF ResetDump
      <4>2. regDumpDst \in 1..Len(heap)
        BY <4>1
      <4> QED BY <1>0, <4>1, <4>2, HeapsAfter
    <3> QED BY <3>1, <3>2
  <2> QED BY <1>0, <1>1, <2>1, <2>2 DEF ResetDump, Data, Gains, InUse
<1>2. CASE NextGoroutine
  <2>1. ASSUME NEW s, NEW n \in 1..Len(stack), NEW iterIndex,
               Below(s), Len(s) > 0, Nth(n).tag = "dump",
               Iterate(Nth(n).ref, iterIndex, s)
        PROVE  Keeps /\ Gains({})
    <3> DEFINE ref == Nth(n).ref
    <3>1. ref \in 1..Len(heap)
      BY <1>0, <2>1, OnStack, RefsOfTagged
    <3> HIDE DEF ref
    <3>2. \/ \E v : RefsOf(v) = {} /\ Push(s, v)
          \/ \E ip : GoTo(ip, SubSeq(s, 1, Len(s) - 1))
      BY <2>1, RefsOfValues, Zenon DEF Iterate
    <3>3. \E k : heap' = [heap EXCEPT ![ref].iterIndex = k]
      BY <2>1, Zenon DEF Iterate, ref
    <3>4. Gains({})
      BY <1>0, <2>1, <3>2, StacksBelow, StacksAfter
    <3>5. Keeps
      BY <1>0, <3>1, <3>3, HeapsAfter
    <3> QED BY <3>4, <3>5
  <2>2. Keeps /\ Gains({})
    <3>1. CASE TagOf(1) = "dump" /\ Iterate(Nth(1).ref, 0, stack)
      <4>1. 1 \in 1..Len(stack) /\ Nth(1).tag = "dump"
        BY <1>0, <3>1 DEF TagOf, StackShape
      <4>2. Below(stack) /\ Len(stack) > 0
        BY <1>0, <4>1, StacksBelow DEF StackShape
      <4> QED BY <2>1, <3>1, <4>1, <4>2
    <3>2. CASE /\ TagOf(2) = "dump"
               /\ Iterate(Nth(2).ref, heap[Nth(2).ref].iterIndex, Rest(1))
      <4>1. 2 \in 1..Len(stack) /\ Nth(2).tag = "dump"
        BY <1>0, <3>2 DEF TagOf, StackShape
      <4>2. Below(Rest(1)) /\ Len(Rest(1)) > 0
        BY <1>0, <4>1, StacksBelow DEF StackShape
      <4> QED BY <2>1, <3>2, <4>1, <4>2
    <3>3. CASE heap' = heap /\ \E e : Fail(e)
      BY <1>0, <3>3, HeapsAfter, StacksAfter
    <3>4. \/ TagOf(1) = "dump" /\ Iterate(Nth(1).ref, 0, stack)
          \/ /\ TagOf(2) = "dump"
             /\ Iterate(Nth(2).ref, heap[Nth(2).ref].iterIndex, Rest(1))
          \/ heap' = heap /\ Fail("ErrInvalidType")
          \/ heap' = heap /\ Fail("ErrUnexpectedStackState")
      BY <1>2 DEF NextGoroutine
    <3> QED BY <3>1, <3>2, <3>3, <3>4
  <2> QED BY <1>0, <1>2, <2>2 DEF NextGoroutine, Data, Gains, InUse
<1> QED BY <1>1, <1>2

LEMMA DataOfFunctions ==
  ASSUME Shapes,
         FuncUnion \/ FuncIntersect \/ FuncDiff \/ FuncGraph
           \/ FuncLoad \/ FuncSave \/ FuncShowDump \/ FuncExport
  PROVE  Data
<1> USE DEF registers
<1>0. /\ StackShape /\ HeapShape /\ Len(heap) \in Nat
      /\ InUse \subseteq 1..Len(heap) /\ RefsIn(stack) \subseteq InUse
  BY HeapLength DEF Shapes, InUse
<1>1. ASSUME NEW n \in Nat, n <= Len(stack), NEW gs, NEW b, PushNew(Rest(n), gs, b),
             env' = env, regDumpDst' = regDumpDst
      PROVE  Data
  <2>1. heap' = Append(heap, [goroutines |-> gs, iterIndex |-> 0, isIndexed |-> b])
    BY <1>1 DEF PushNew, NewDump
  <2>2. Keeps /\ Len(heap') = Len(heap) + 1
    BY <1>0, <2>1, HeapsAfter
  <2>3. PICK v : RefsOf(v) = {Len(heap) + 1} /\ Push(Rest(n), v)
    BY <1>1, RefsOfValues, Zenon DEF PushNew
  <2>4. Gains({Len(heap) + 1})
    BY <1>0, <1>1, <2>3, StacksBelow, StacksAfter
  <2> QED BY <1>0, <1>1, <2>2, <2>4 DEF Data, Gains, InUse
<1>2. CASE FuncUnion \/ FuncIntersect \/ FuncGraph
  <2>1. 2 <= Len(stack) /\ env' = env /\ regDumpDst' = regDumpDst
    BY <1>2, Popped DEF FuncUnion, FuncIntersect, FuncGraph
  <2>2. \E gs, b : PushNew(Rest(2), gs, b)
    BY <1>2, Zenon DEF FuncUnion, FuncIntersect, FuncGraph
  <2> QED BY <1>1, <2>1, <2>2
<1>3. CASE FuncDiff
  <2> DEFINE size == Len(heap)
  <2>1. PICK d1, d2, d3 :
          heap' = heap \o <<NewDump(d1), NewDump(d2), NewDump(d3)>>
    BY <1>3, Zenon DEF FuncDiff
  <2>2. Keeps /\ Len(heap') = size + 3
    BY <1>0, <2>1, HeapsAfter DEF NewDump
  <2>3. Below(Rest(2))
    BY <1>0, <1>3, Popped, StacksBelow DEF FuncDiff
  <2>4. PICK v : v = Diff(size + 1, size + 2, size + 3) /\ Push(Rest(2), v)
    BY <1>3, Zenon DEF FuncDiff
  <2>5. RefsOf(v) = {size + 1, size + 2, size + 3}
    BY <2>4, RefsOfValues
  <2>6. Gains({size + 1, size + 2, size + 3})
    BY <1>0, <2>3, <2>4, <2>5, StacksAfter
  <2> QED BY <1>0, <1>3, <2>2, <2>6 DEF FuncDiff, Data, Gains, InUse
<1>4. CASE FuncLoad
  <2>1. 1 <= Len(stack) /\ env' = env /\ regDumpDst' = regDumpDst
    BY <1>4, Popped DEF FuncLoad
  <2>2. \/ \E gs, b : PushNew(Rest(1), gs, b)
        \/ heap' = heap /\ \E e : Fail(e)
    BY <1>4, Zenon DEF FuncLoad
  <2>3. CASE heap' = heap /\ \E e : Fail(e)
    <3>1. Gains({})
      BY <1>0, <2>3, StacksAfter
    <3> QED BY <2>1, <2>3, <3>1, Quiet
  <2> QED BY <1>1, <2>1, <2>2, <2>3
<1>5. CASE FuncSave \/ FuncExport
  <2>1. 2 <= Len(stack)
    BY <1>5, Popped DEF FuncSave, FuncExport
  <2>2. Below(Rest(1)) /\ Below(Rest(2))
    BY <1>0, <2>1, StacksBelow DEF StackShape
  <2>3. Advance(Rest(1)) \/ Advance(Rest(2)) \/ \E e : Fail(e)
    BY <1>5, Zenon DEF FuncSave, FuncExport
  <2>4. Gains({})
    BY <1>0, <2>2, <2>3, StacksAfter
  <2> QED BY <1>5, <2>4, Quiet DEF FuncSave, FuncExport
<1>6. CASE FuncShowDump
  <2> DEFINE ref == Nth(3).ref
  <2>1. 3 \in 1..Len(stack) /\ Nth(3).tag = "dump"
    BY <1>0, <1>6, Popped DEF FuncShowDump, StackShape
  <2>2. ref \in 1..Len(heap)
    BY <1>0, <2>1, OnStack, RefsOfTagged
  <2>3. \E b : heap' = [heap EXCEPT ![ref].isIndexed = b]
    BY <1>6, Zenon DEF FuncShowDump
  <2> HIDE DEF ref
  <2>4. Keeps
    BY <1>0, <2>2, <2>3, HeapsAfter
  <2>5. Below(Rest(2))
    BY <1>0, <2>1, StacksBelow DEF StackShape
  <2>6. Gains({})
    BY <1>0, <1>6, <2>5, StacksAfter DEF FuncShowDump
  <2> QED BY <1>0, <1>6, <2>4, <2>6 DEF FuncShowDump, Data, Gains, InUse
<1> QED BY <1>2, <1>3, <1>4, <1>5, <1>6

LEMMA DataOfCommands ==
  ASSUME Shapes,
         CommandChangeDir \/ CommandEmpty \/ CommandQuit \/ CommandHelp
           \/ CommandGetWorkingDir \/ CommandListDir \/ CommandVars
           \/ CommandGetPragma \/ CommandSetPragma
  PROVE  Data
<1> USE DEF registers
<1>0. /\ StackShape /\ HeapShape /\ RefsIn(stack) \subseteq InUse
      /\ RefsIn(env) \subseteq InUse /\ RefsIn(NoVariables) = {}
  BY DEF Shapes, InUse, RefsIn, NoVariables
<1>1. \/ Advance(stack) \/ Crash
      \/ \E e : Fail(e)
  BY Zenon DEF CommandChangeDir, CommandEmpty, CommandQuit, CommandHelp,
               CommandGetWorkingDir, CommandListDir, CommandVars,
               CommandGetPragma, CommandSetPragma
<1>2. Gains({})
  BY <1>0, <1>1, StacksBelow, StacksAfter
<1>3. heap' = heap /\ regDumpDst' = regDumpDst /\ (env' = env \/ env' = NoVariables)
  BY DEF CommandChangeDir, CommandEmpty, CommandQuit, CommandHelp,
         CommandGetWorkingDir, CommandListDir, CommandVars,
         CommandGetPragma, CommandSetPragma
<1>4. Keeps
  BY <1>0, <1>3, HeapsAfter
<1> QED BY <1>0, <1>2, <1>3, <1>4 DEF Data, Gains

LEMMA DataOfEnds ==
  ASSUME Shapes,
         BadOperands \/ BadConstant \/ OutOfGas \/ Halt \/ Interrupt
  PROVE  Data
<1> USE DEF registers
<1>0. StackShape
  BY DEF Shapes
<1>1. stack' = stack
  <2>1. Crash \/ (\E e : Fail(e)) \/ UNCHANGED <<gas, frames, stack>>
    BY Zenon DEF BadOperands, BadConstant, OutOfGas, Halt, Interrupt
  <2> QED BY <2>1 DEF Crash, Fail
<1>2. Gains({})
  BY <1>0, <1>1 DEF Gains, StackShape
<1>3. heap' = heap /\ regDumpDst' = regDumpDst /\ env' = env
  BY DEF BadOperands, BadConstant, OutOfGas, Halt, Interrupt
<1> QED BY <1>2, <1>3, Quiet

-----------------------------------------------------------------------------
(* Where the machine is.  The first frame runs the first chunk; a second   *)
(* frame, if there is one, another chunk, and returns to the first.        *)
Instructions == [op : STRING, arg : Nat]

AnyFrames(n) == [chunk : 1..n, ip : Int, returnAddr : Int]

FlowShape ==
  /\ code.chunks \in Seq(Seq(Instructions)) /\ code.chunks # <<>>
  /\ WellLooped(code)
  /\ frames \in Seq(AnyFrames(Len(code.chunks)))
  /\ Len(frames) \in {1, 2}
  /\ frames[1].chunk = 1 /\ frames[1].ip >= -1
  /\ Len(frames) = 2 =>
       /\ frames[2].chunk \in 2..Len(code.chunks)
       /\ frames[2].ip >= -1
       /\ frames[2].returnAddr = frames[1].ip

(* Whether the first frame is about to run an instruction between TempDump *)
(* and PushDump.                                                           *)
InFilter == Collecting(code.chunks[1], frames[1].ip + 2)

(* The dump being collected is nobody else's.                              *)
Private == InFilter => regDumpDst # 0 /\ regDumpDst \notin InUse

(* How the control of a step moves.                                        *)
WithIp(fs, n, ip) == [fs EXCEPT ![n].ip = ip]

Moves(ip) == frames' = WithIp(frames, Len(frames), ip)
Called ==
  /\ Instr.op = "Call"
  /\ Instr.arg < Len(code.chunks)
  /\ frames' = Append(WithIp(frames, Len(frames), NextIp),
                      [chunk |-> Instr.arg + 1, ip |-> -1, returnAddr |-> NextIp])
Returned ==
  /\ Instr.op = "Return"
  /\ frames' = WithIp(SubSeq(frames, 1, Len(frames) - 1), Len(frames) - 1,
                      Frame.returnAddr)
Flow ==
  /\ Ready
  /\ \/ Moves(NextIp)
     \/ Instr.op \in Jumps /\ Moves(Instr.arg - 1)
     \/ Called
     \/ Len(frames) > 1 /\ Returned

LEMMA MovedFrames ==
  ASSUME NEW n \in Nat, NEW s \in Seq(AnyFrames(n)), Len(s) > 0,
         NEW x \in Int
  PROVE  LET t == WithIp(s, Len(s), x)
         IN  /\ t \in Seq(AnyFrames(n))
             /\ Len(t) = Len(s)
             /\ \A i \in 1..Len(s) - 1 : t[i] = s[i]
             /\ t[Len(s)].chunk = s[Len(s)].chunk
             /\ t[Len(s)].ip = x
             /\ t[Len(s)].returnAddr = s[Len(s)].returnAddr
<1> DEFINE f == [s[Len(s)] EXCEPT !.ip = x]
           t == WithIp(s, Len(s), x)
<1>1. Len(s) \in 1..Len(s)
  OBVIOUS
<1>2. s[Len(s)] \in AnyFrames(n)
  BY <1>1, ElementOf
<1>3. \A d \in AnyFrames(n) :
        /\ [d EXCEPT !.ip = x] \in AnyFrames(n)
        /\ [d EXCEPT !.ip = x].chunk = d.chunk
        /\ [d EXCEPT !.ip = x].ip = x
        /\ [d EXCEPT !.ip = x].returnAddr = d.returnAddr
  <2> TAKE d \in AnyFrames(n)
  <2> QED BY DEF AnyFrames
<1>4. t = [s EXCEPT ![Len(s)] = f]
  BY DEF WithIp
<1>5. /\ f \in AnyFrames(n) /\ f.chunk = s[Len(s)].chunk
      /\ f.ip = x /\ f.returnAddr = s[Len(s)].returnAddr
  BY <1>2, <1>3
<1> HIDE DEF f, t
<1>6. /\ t \in Seq(AnyFrames(n)) /\ Len(t) = Len(s)
      /\ \A i \in 1..Len(s) : t[i] = IF i = Len(s) THEN f ELSE s[i]
  BY <1>1, <1>4, <1>5, ReplacedIn
<1>7. /\ t[Len(s)].chunk = s[Len(s)].chunk /\ t[Len(s)].ip = x
      /\ t[Len(s)].returnAddr = s[Len(s)].returnAddr
  BY <1>1, <1>5, <1>6
<1>8. \A i \in 1..Len(s) - 1 : t[i] = s[i]
  BY <1>6
<1> QED BY <1>6, <1>7, <1>8 DEF t

LEMMA Position ==
  ASSUME FlowShape
  PROVE  /\ Len(code.chunks) \in Nat /\ 1 \in 1..Len(code.chunks)
         /\ frames[1] \in AnyFrames(Len(code.chunks))
         /\ frames[1].ip \in Int
         /\ Frame \in AnyFrames(Len(code.chunks))
         /\ Frame.ip \in Int /\ Frame.ip >= -1
         /\ Ready => /\ NextIp \in Nat
                     /\ NextIp + 1 \in 1..Len(Ops)
                     /\ Instr \in Instructions
                     /\ Instr.arg \in Nat
<1>1. Len(code.chunks) \in Nat /\ 1 \in 1..Len(code.chunks)
  BY DEF FlowShape
<1>2. 1 \in 1..Len(frames) /\ Len(frames) \in 1..Len(frames)
  BY DEF FlowShape
<1>3. frames[1] \in AnyFrames(Len(code.chunks)) /\ Frame \in AnyFrames(Len(code.chunks))
  BY <1>2, ElementOf DEF FlowShape, Frame
<1>4. /\ frames[1].ip \in Int /\ Frame.ip \in Int
      /\ Frame.chunk \in 1..Len(code.chunks)
  BY <1>3 DEF AnyFrames
<1>5. Frame.ip >= -1
  BY DEF FlowShape, Frame
<1>6. ASSUME Ready
      PROVE  /\ NextIp \in Nat
             /\ NextIp + 1 \in 1..Len(Ops)
             /\ Instr \in Instructions
  <2>1. NextIp \in Nat
    BY <1>4, <1>5 DEF NextIp
  <2>2. Ops \in Seq(Instructions)
    BY <1>4, ElementOf DEF FlowShape, Ops
  <2>3. NextIp + 1 \in 1..Len(Ops)
    BY <1>6, <2>1, <2>2 DEF Ready
  <2> QED BY <2>1, <2>2, <2>3, ElementOf DEF Instr
<1>7. Instr \in Instructions => Instr.arg \in Nat
  BY DEF Instructions
<1> QED BY <1>1, <1>3, <1>4, <1>5, <1>6, <1>7

(* What FlowShape says of frames, apart from the code.                     *)
InShape(fs) ==
  /\ fs \in Seq(AnyFrames(Len(code.chunks)))
  /\ Len(fs) \in {1, 2}
  /\ fs[1].chunk = 1 /\ fs[1].ip >= -1
  /\ Len(fs) = 2 =>
       /\ fs[2].chunk \in 2..Len(code.chunks)
       /\ fs[2].ip >= -1
       /\ fs[2].returnAddr = fs[1].ip

(* Moving on, the machine enters a filter by a TempDump only, leaves it at *)
(* the PushDump, and adds goroutines in between.                           *)
LEMMA MovesKeepShape ==
  ASSUME FlowShape, NEW ip \in Int, ip >= -1, Moves(ip)
  PROVE  /\ InShape(frames')
         /\ frames'[1].ip = IF Len(frames) = 1 THEN ip ELSE frames[1].ip
<1> DEFINE fs == frames'
<1>1. Len(code.chunks) \in Nat /\ Len(frames) \in {1, 2} /\ Len(frames) > 0
  BY Position DEF FlowShape
<1>2. /\ fs \in Seq(AnyFrames(Len(code.chunks)))
      /\ Len(fs) = Len(frames)
      /\ \A i \in 1..Len(frames) - 1 : fs[i] = frames[i]
      /\ fs[Len(frames)].chunk = frames[Len(frames)].chunk
      /\ fs[Len(frames)].ip = ip
      /\ fs[Len(frames)].returnAddr = frames[Len(frames)].returnAddr
  BY <1>1, MovedFrames DEF Moves, FlowShape
<1> HIDE DEF fs
<1>3. CASE Len(frames) = 1
  <2>1. fs[1].chunk = 1 /\ fs[1].ip = ip /\ Len(fs) = 1
    BY <1>2, <1>3 DEF FlowShape
  <2> QED BY <1>2, <1>3, <2>1 DEF InShape, fs
<1>4. CASE Len(frames) = 2
  <2>1. fs[1] = frames[1] /\ Len(fs) = 2
    BY <1>2, <1>4
  <2>2. fs[2].chunk = frames[2].chunk /\ fs[2].ip = ip /\ fs[2].returnAddr = frames[2].returnAddr
    BY <1>2, <1>4
  <2> QED BY <1>2, <1>4, <2>1, <2>2 DEF InShape, FlowShape, fs
<1> QED BY <1>1, <1>3, <1>4

LEMMA CallsKeepShape ==
  ASSUME FlowShape, Ready, Called, Len(frames) = 1
  PROVE  InShape(frames') /\ frames'[1].ip = NextIp
<1> DEFINE main == WithIp(frames, Len(frames), NextIp)
           new == [chunk |-> Instr.arg + 1, ip |-> -1, returnAddr |-> NextIp]
<1>1. NextIp \in Nat /\ Instr.arg \in Nat /\ Len(code.chunks) \in Nat
  BY Position
<1>2. Instr.arg # 0
  <2>1. Ops = code.chunks[1] /\ NextIp + 1 \in 1..Len(Ops)
    BY Position DEF Ops, Frame, FlowShape
  <2>2. Ops \in Seq(Instructions)
    BY <2>1, Position, ElementOf DEF FlowShape
  <2>3. NextIp + 1 \in DOMAIN code.chunks[1]
    BY <2>1, <2>2
  <2> QED BY <2>1, <2>3 DEF Called, Instr, FlowShape, WellLooped
<1>3. new \in AnyFrames(Len(code.chunks)) /\ new.chunk \in 2..Len(code.chunks)
  BY <1>1, <1>2 DEF Called, AnyFrames
<1>4. new.ip = -1 /\ new.returnAddr = NextIp
  OBVIOUS
<1>5. /\ main \in Seq(AnyFrames(Len(code.chunks)))
      /\ Len(main) = 1 /\ main[1].chunk = 1 /\ main[1].ip = NextIp
  <2>1. /\ frames \in Seq(AnyFrames(Len(code.chunks)))
        /\ Len(frames) > 0 /\ NextIp \in Int /\ frames[1].chunk = 1
    BY <1>1 DEF FlowShape
  <2>2. /\ main \in Seq(AnyFrames(Len(code.chunks)))
        /\ Len(main) = Len(frames)
        /\ main[Len(frames)].chunk = frames[Len(frames)].chunk
        /\ main[Len(frames)].ip = NextIp
    BY <1>1, <2>1, MovedFrames
  <2> QED BY <2>1, <2>2
<1>6. frames' = Append(main, new)
  BY DEF Called
<1> HIDE DEF main, new
<1>7. /\ frames' \in Seq(AnyFrames(Len(code.chunks)))
      /\ Len(frames') = 2 /\ frames'[1] = main[1] /\ frames'[2] = new
  <2> DEFINE Fs == AnyFrames(Len(code.chunks))
  <2>1. new \in Fs /\ main \in Seq(Fs) /\ Fs \subseteq Fs
    BY <1>3, <1>5
  <2> HIDE DEF Fs
  <2>2. /\ Append(main, new) \in Seq(Fs)
        /\ Len(Append(main, new)) = Len(main) + 1
        /\ \A i \in 1..Len(main) : Append(main, new)[i] = main[i]
        /\ Append(main, new)[Len(main) + 1] = new
    BY <2>1, AppendedTo
  <2> QED BY <1>5, <1>6, <2>2 DEF Fs
<1> QED BY <1>1, <1>3, <1>4, <1>5, <1>7 DEF InShape

LEMMA ReturnsKeepShape ==
  ASSUME FlowShape, Returned, Len(frames) = 2
  PROVE  InShape(frames') /\ frames'[1].ip = frames[1].ip
<1> DEFINE main == SubSeq(frames, 1, Len(frames) - 1)
<1>0. 1 \in Nat /\ 1 <= Len(frames) /\ Len(frames) - 1 = 1
  OBVIOUS
<1>1. /\ main \in Seq(AnyFrames(Len(code.chunks)))
      /\ Len(main) = 1 /\ main[1] = frames[1]
  <2>1. frames \in Seq(AnyFrames(Len(code.chunks)))
    BY DEF FlowShape
  <2>2. /\ main \in Seq(AnyFrames(Len(code.chunks)))
        /\ Len(main) = Len(frames) - 1
        /\ \A i \in 1..Len(frames) - 1 : main[i] = frames[i]
    BY <1>0, <2>1, RefsInPrefix
  <2> QED BY <1>0, <2>2
<1>2. Frame.returnAddr = frames[1].ip /\ frames[1].ip \in Int
  BY Position DEF FlowShape, Frame
<1>3. frames' = WithIp(main, Len(main), frames[1].ip)
  BY <1>1, <1>2 DEF Returned
<1> HIDE DEF main
<1>4. /\ frames' \in Seq(AnyFrames(Len(code.chunks)))
      /\ Len(frames') = 1
      /\ frames'[1].chunk = main[1].chunk /\ frames'[1].ip = frames[1].ip
  <2>1. Len(code.chunks) \in Nat /\ Len(main) > 0
    BY <1>1, Position
  <2>2. LET t == WithIp(main, Len(main), frames[1].ip)
        IN  /\ t \in Seq(AnyFrames(Len(code.chunks)))
            /\ Len(t) = Len(main)
            /\ t[Len(main)].chunk = main[Len(main)].chunk
            /\ t[Len(main)].ip = frames[1].ip
    BY <1>1, <1>2, <2>1, MovedFrames
  <2> QED BY <1>1, <1>3, <2>2
<1> QED BY <1>1, <1>4 DEF InShape, FlowShape

(* The instruction about to run, in the first chunk or in another.         *)
LEMMA Instructed ==
  ASSUME FlowShape, Ready
  PROVE  /\ Len(frames) = 1 =>
              /\ NextIp + 1 = frames[1].ip + 2
              /\ NextIp + 1 \in DOMAIN code.chunks[1]
              /\ Instr = code.chunks[1][NextIp + 1]
              /\ Instr.op # "Return"
         /\ Len(frames) = 2 =>
              Instr.op \notin {"TempDump", "PushDump", "AddGoroutine", "Call"}
<1>1. /\ NextIp + 1 \in 1..Len(Ops) /\ NextIp \in Nat
      /\ Frame.chunk \in 1..Len(code.chunks)
  BY Position DEF AnyFrames
<1>2. Ops \in Seq(Instructions)
  BY <1>1, ElementOf DEF FlowShape, Ops
<1>3. NextIp + 1 \in DOMAIN Ops
  BY <1>1, <1>2
<1>4. ASSUME Len(frames) = 1
      PROVE  /\ NextIp + 1 = frames[1].ip + 2
             /\ NextIp + 1 \in DOMAIN code.chunks[1]
             /\ Instr = code.chunks[1][NextIp + 1]
             /\ Instr.op # "Return"
  <2>1. Frame = frames[1] /\ Ops = code.chunks[1]
    BY <1>4 DEF Frame, Ops, FlowShape
  <2>2. NextIp + 1 = frames[1].ip + 2
    BY <2>1, Position DEF NextIp
  <2>3. Instr = code.chunks[1][NextIp + 1]
    BY <2>1 DEF Instr
  <2>4. WellLooped(code)
    BY DEF FlowShape
  <2> QED BY <1>3, <2>1, <2>2, <2>3, <2>4 DEF WellLooped
<1>5. ASSUME Len(frames) = 2
      PROVE  Instr.op \notin {"TempDump", "PushDump", "AddGoroutine", "Call"}
  <2>1. Frame = frames[2] /\ Frame.chunk \in 2..Len(code.chunks)
    BY <1>5 DEF Frame, FlowShape
  <2>2. WellLooped(code)
    BY DEF FlowShape
  <2> QED BY <1>3, <2>1, <2>2 DEF WellLooped, Ops, Instr
<1> QED BY <1>4, <1>5

(* Moving on, the machine enters a filter by a TempDump only, leaves it at *)
(* the PushDump, and adds goroutines in between.                           *)
LEMMA FlowKept ==
  ASSUME FlowShape, Flow, code' = code
  PROVE  /\ FlowShape'
         /\ InFilter' => InFilter \/ Instr.op = "TempDump"
         /\ Instr.op = "PushDump" => ~InFilter'
<1>0. Ready
  BY DEF Flow
<1>1. /\ NextIp \in Nat /\ Instr.arg \in Nat
      /\ Len(frames) \in {1, 2} /\ frames[1].ip \in Int
  BY <1>0, Position DEF FlowShape
<1>2. CASE Len(frames) = 2
  <2>1. Instr.op \notin {"TempDump", "PushDump", "AddGoroutine", "Call"}
    BY <1>0, <1>2, Instructed
  <2>2. InShape(frames') /\ frames'[1].ip = frames[1].ip
    <3>1. CASE Moves(NextIp)
      BY <1>1, <1>2, <3>1, MovesKeepShape
    <3>2. CASE Moves(Instr.arg - 1)
      BY <1>1, <1>2, <3>2, MovesKeepShape
    <3>3. CASE Returned
      BY <1>2, <3>3, ReturnsKeepShape
    <3> QED BY <2>1, <3>1, <3>2, <3>3 DEF Flow, Called
  <2>3. FlowShape'
    BY <2>2 DEF FlowShape, InShape
  <2>4. InFilter' <=> InFilter
    BY <2>2 DEF InFilter
  <2> QED BY <2>1, <2>3, <2>4
<1>3. CASE Len(frames) = 1
  <2> DEFINE main == code.chunks[1]
             i == NextIp + 1
  <2>1. /\ i \in DOMAIN main /\ Instr = main[i] /\ i = frames[1].ip + 2
        /\ Instr.op # "Return" /\ i \in Nat /\ DOMAIN main \subseteq Nat
    <3>1. main \in Seq(Instructions)
      BY Position, ElementOf DEF FlowShape
    <3>2. DOMAIN main \subseteq Nat
      BY <3>1
    <3> QED BY <1>0, <1>1, <1>3, <3>2, Instructed
  <2>2. PICK n \in Nat :
          /\ InShape(frames') /\ frames'[1].ip + 2 = n
          /\ n = i + 1 \/ (Instr.op \in Jumps /\ n = Instr.arg + 1)
    <3>1. CASE Moves(NextIp)
      BY <1>1, <1>3, <3>1, MovesKeepShape
    <3>2. CASE Instr.op \in Jumps /\ Moves(Instr.arg - 1)
      BY <1>1, <1>3, <3>2, MovesKeepShape
    <3>3. CASE Called
      BY <1>0, <1>1, <1>3, <3>3, CallsKeepShape
    <3> QED BY <1>3, <3>1, <3>2, <3>3 DEF Flow
  <2>3. FlowShape'
    BY <2>2 DEF FlowShape, InShape
  <2>4. InFilter' <=> Collecting(main, n)
    BY <2>2 DEF InFilter
  <2>5. InFilter <=> Collecting(main, i)
    BY <2>1 DEF InFilter
  <2>6. WellLooped(code)
    BY DEF FlowShape
  <2> HIDE DEF i, main
  <2>7. CASE n = i + 1
    <3>1. Collecting(main, n) => Instr.op # "PushDump"
      BY <2>1, <2>7 DEF Collecting
    <3>2. Collecting(main, n) => Collecting(main, i) \/ Instr.op = "TempDump"
      BY <2>1, <2>7 DEF Collecting
    <3> QED BY <2>3, <2>4, <2>5, <3>1, <3>2
  <2>8. CASE Instr.op \in Jumps /\ n = Instr.arg + 1
    <3>1. Collecting(main, n) => Collecting(main, i)
      BY <2>1, <2>6, <2>8 DEF WellLooped, main
    <3>2. Instr.op # "PushDump"
      BY <2>8 DEF Jumps
    <3> QED BY <2>3, <2>4, <2>5, <3>1, <3>2
  <2> QED BY <2>2, <2>7, <2>8
<1> QED BY <1>1, <1>2, <1>3

-----------------------------------------------------------------------------
(* Every instruction that does not end the run moves on as Flow says; one  *)
(* that does leaves the frames as they are.                                *)
Ends == status' \in {"returned", "crashed"} /\ frames' = frames
Control ==
  /\ status' = "running" => Flow
  /\ status' # "running" => Ends

LEMMA Endings ==
  /\ \A op : At(op) => Ready /\ Instr.op = op
  /\ \A s : Ready /\ Advance(s) => Control
  /\ \A s, v : Ready /\ Push(s, v) => Control
  /\ \A s : Ready /\ Instr.op \in Jumps /\ GoTo(Instr.arg - 1, s) => Control
  /\ Crash => Control
  /\ \A e : Fail(e) => Control
<1>1. \A op : At(op) => Ready /\ Instr.op = op
  BY DEF At
<1>2. \A s : Ready /\ Advance(s) => Control
  BY Zenon DEF Advance, GoTo, Control, Flow, Moves, WithIp, Ready
<1>3. Crash => Control
  BY DEF Crash, Control, Ends
<1>4. \A s, v : Ready /\ Push(s, v) => Control
  BY <1>2, <1>3 DEF Push
<1>5. \A s : Ready /\ Instr.op \in Jumps /\ GoTo(Instr.arg - 1, s) => Control
  BY Zenon DEF GoTo, Control, Flow, Moves, WithIp, Ready
<1>6. \A e : Fail(e) => Control
  BY DEF Fail, Control, Ends
<1> QED BY <1>1, <1>2, <1>3, <1>4, <1>5, <1>6

LEMMA Controlled == Execute \/ Interrupt => Control
<1> USE Endings
<1>1. Noop \/ Dup \/ LoadConstant \/ PushBool => Control
  BY Zenon DEF Noop, Dup, LoadConstant, PushBool
<1>2. LoadGoroutineDump \/ LoadFieldAccessor => Control
  BY Zenon DEF LoadGoroutineDump, LoadFieldAccessor
<1>3. Assignment \/ AssignMulti => Control
  BY Zenon DEF Assignment, AssignMulti
<1>4. Comparison \/ ContainsOrIn \/ RegexMatches => Control
  BY Zenon DEF Comparison, ContainsOrIn, RegexMatches
<1>5. ConditionalJump \/ JumpTo => Control
  <2>1. ASSUME ConditionalJump \/ JumpTo PROVE Ready /\ Instr.op \in Jumps
    BY <2>1 DEF ConditionalJump, JumpTo, Jumps
  <2> QED BY <2>1, Zenon DEF ConditionalJump, JumpTo
<1>6. Call => Control
  <2>1. ASSUME Call PROVE Ready /\ Instr.op = "Call"
    BY <2>1 DEF Call
  <2> QED BY <2>1, Zenon DEF Call, Control, Flow, Called, WithIp, Crash, Ends, Ready
<1>7. Return => Control
  <2>1. ASSUME Return PROVE Ready /\ Instr.op = "Return"
    BY <2>1 DEF Return
  <2> QED BY <2>1, Zenon DEF Return, Control, Flow, Returned, WithIp, Crash, Ends, Ready
<1>8. TempDump \/ ResetDump \/ PushDump \/ AddGoroutine => Control
  BY Zenon DEF TempDump, ResetDump, PushDump, AddGoroutine
<1>9. NextGoroutine => Control
  <2>1. ASSUME NextGoroutine PROVE Ready /\ Instr.op \in Jumps
    BY <2>1 DEF NextGoroutine, Jumps
  <2>2. ASSUME NEW ref, NEW iterIndex, NEW s, NextGoroutine, Iterate(ref, iterIndex, s)
        PROVE  Control
    BY <2>1, <2>2, Zenon DEF Iterate
  <2> QED BY <2>2 DEF NextGoroutine
<1>10. FuncUnion \/ FuncIntersect \/ FuncDiff \/ FuncGraph \/ FuncLoad => Control
  BY Zenon DEF FuncUnion, FuncIntersect, FuncDiff, FuncGraph, FuncLoad, PushNew
<1>11. FuncSave \/ FuncShowDump \/ FuncExport => Control
  BY Zenon DEF FuncSave, FuncShowDump, FuncExport
<1>12. CommandChangeDir \/ CommandEmpty \/ CommandQuit \/ CommandHelp
         \/ CommandVars \/ CommandGetPragma \/ CommandSetPragma => Control
  BY Zenon DEF CommandChangeDir, CommandEmpty, CommandQuit, CommandHelp,
               CommandVars, CommandGetPragma, CommandSetPragma
<1>13. CommandGetWorkingDir \/ CommandListDir => Control
  BY Zenon DEF CommandGetWorkingDir, CommandListDir
<1>14. BadOperands \/ BadConstant \/ OutOfGas \/ Halt => Control
  BY Zenon DEF BadOperands, BadConstant, OutOfGas, Halt
<1>15. Interrupt => Control
  BY DEF Interrupt, Control, Ends
<1> QED BY <1>1, <1>2, <1>3, <1>4, <1>5, <1>6, <1>7, <1>8, <1>9, <1>10, <1>11,
           <1>12, <1>13, <1>14, <1>15, Zenon DEF Execute

-----------------------------------------------------------------------------
(* The invariant.  The references in use lead to dumps that exist, and the *)
(* dump a running filter collects into is not among them.                  *)
IInv ==
  /\ Shapes
  /\ regDumpDst \in 0..Len(heap)
  /\ status = "running" => FlowShape /\ Private

Unchanging == \A ref \in InUse : heap'[ref].goroutines = heap[ref].goroutines

LEMMA DataStep ==
  ASSUME IInv, Data, Control, code' = code, oldEnv' = oldEnv,
         status' = "running" => Instr.op # "TempDump"
  PROVE  IInv' /\ Unchanging
<1>1. /\ HeapShape' /\ Len(heap) \in Nat /\ Len(heap') \in Nat /\ Len(heap) <= Len(heap')
      /\ \A r \in 1..Len(heap) : heap'[r].goroutines = heap[r].goroutines
  BY HeapLength DEF IInv, Shapes, Data, Keeps
<1>2. InUse \subseteq 1..Len(heap) /\ regDumpDst \in 0..Len(heap)
  BY DEF IInv, Shapes
<1>3. InUse' \subseteq InUse \cup (Len(heap) + 1)..Len(heap')
  BY DEF Data, InUse
<1>4. Shapes'
  <2>1. InUse' \subseteq 1..Len(heap')
    BY <1>1, <1>2, <1>3
  <2> QED BY <1>1, <2>1 DEF Data, Shapes
<1>5. regDumpDst' \in 0..Len(heap')
  BY <1>1, <1>2 DEF Data
<1>6. ASSUME status' = "running" PROVE FlowShape' /\ Private'
  <2>1. Flow /\ FlowShape /\ Private
    BY <1>6 DEF Control, Flow, Ready, IInv
  <2>2. FlowShape' /\ (InFilter' => InFilter)
    BY <1>6, <2>1, FlowKept
  <2>3. InFilter' => regDumpDst' # 0 /\ regDumpDst' \notin InUse'
    BY <1>1, <1>2, <1>3, <2>1, <2>2 DEF Private, Data
  <2> QED BY <2>2, <2>3 DEF Private
<1> QED BY <1>1, <1>2, <1>4, <1>5, <1>6 DEF IInv, Unchanging

LEMMA TempDumpStep ==
  ASSUME IInv, TempDump, Control, code' = code, oldEnv' = oldEnv
  PROVE  IInv' /\ Unchanging
<1> USE DEF registers
<1>0. StackShape /\ HeapShape /\ InUse \subseteq 1..Len(heap) /\ Len(heap) \in Nat
  BY HeapLength DEF IInv, Shapes
<1>1. Keeps /\ Len(heap') = Len(heap) + 1
  BY <1>0, HeapsAfter DEF TempDump, NewDump
<1>2. regDumpDst' = Len(heap) + 1 /\ stack' = stack /\ env' = env
  BY DEF TempDump, Advance, GoTo
<1>3. InUse' = InUse
  BY <1>2 DEF InUse
<1>4. Shapes'
  BY <1>0, <1>1, <1>2, <1>3 DEF Shapes, Keeps, StackShape
<1>5. ASSUME status' = "running" PROVE FlowShape' /\ Private'
  <2>1. Flow /\ FlowShape
    BY <1>5 DEF Control, Flow, Ready, IInv
  <2>2. FlowShape'
    BY <2>1, FlowKept
  <2>3. regDumpDst' # 0 /\ regDumpDst' \notin InUse'
    BY <1>0, <1>2, <1>3
  <2> QED BY <2>2, <2>3 DEF Private
<1> QED BY <1>0, <1>1, <1>2, <1>4, <1>5 DEF IInv, Unchanging, Keeps

LEMMA PushDumpStep ==
  ASSUME IInv, PushDump, Control, code' = code, oldEnv' = oldEnv
  PROVE  IInv' /\ Unchanging
<1> USE DEF registers
<1>0. StackShape /\ HeapShape /\ InUse \subseteq 1..Len(heap) /\ Len(heap) \in Nat
  BY HeapLength DEF IInv, Shapes
<1>1. CASE regDumpDst = 0
  <2>1. Crash /\ heap' = heap
    BY <1>1, Zenon DEF PushDump
  <2>2. Gains({}) /\ status' # "running"
    BY <1>0, <2>1, StacksAfter DEF Crash
  <2>3. Data
    BY <2>1, <2>2, Quiet DEF PushDump, IInv
  <2> QED BY <2>2, <2>3, DataStep
<1>2. CASE regDumpDst # 0
  <2>1. regDumpDst \in 1..Len(heap)
    BY <1>0, <1>2 DEF IInv
  <2>2. /\ heap' = [heap EXCEPT ![regDumpDst].iterIndex = 0]
        /\ Push(stack, Dump(regDumpDst))
        /\ regDumpDst' = regDumpDst /\ env' = env
        /\ Instr.op = "PushDump"
    BY <1>2, Endings, Zenon DEF PushDump
  <2>3. Keeps
    BY <1>0, <2>1, <2>2, HeapsAfter
  <2>4. Gains({regDumpDst})
    <3>1. RefsOf(Dump(regDumpDst)) = {regDumpDst}
      BY RefsOfValues
    <3> QED BY <1>0, <2>2, <3>1, StacksBelow, StacksAfter
  <2>5. Len(heap) <= Len(heap') /\ HeapShape' /\ Len(heap') \in Nat
    BY <2>3, HeapLength DEF Keeps
  <2>6. InUse' \subseteq 1..Len(heap')
    BY <1>0, <2>1, <2>2, <2>4, <2>5 DEF Gains, InUse
  <2>7. ASSUME status' = "running" PROVE FlowShape' /\ Private'
    <3>1. Flow /\ FlowShape
      BY <2>7 DEF Control, Flow, Ready, IInv
    <3> QED BY <2>2, <3>1, FlowKept DEF Private
  <2>8. Shapes' /\ regDumpDst' \in 0..Len(heap')
    BY <1>0, <2>1, <2>2, <2>4, <2>5, <2>6 DEF Shapes, Gains
  <2>9. Unchanging
    BY <1>0, <2>3 DEF Unchanging, Keeps
  <2> QED BY <2>7, <2>8, <2>9 DEF IInv
<1> QED BY <1>1, <1>2

LEMMA HeapCollected ==
  ASSUME HeapShape, NEW r \in 1..Len(heap), NEW gs,
         heap' = [heap EXCEPT ![r].goroutines = gs]
  PROVE  /\ HeapShape' /\ Len(heap') = Len(heap)
         /\ \A q \in 1..Len(heap) : q # r => heap'[q] = heap[q]
<1> PICK A, B, C : heap \in HeapOver(A, B, C)
  BY DEF HeapShape
<1> DEFINE S == [goroutines : A, iterIndex : B, isIndexed : C]
           T == [goroutines : A \cup {gs}, iterIndex : B, isIndexed : C]
           d == [heap[r] EXCEPT !.goroutines = gs]
<1>1. heap \in Seq(S)
  BY DEF HeapOver
<1>2. heap[r] \in S
  <2>1. \A R : heap \in Seq(R) => heap[r] \in R
    OBVIOUS
  <2> QED BY <1>1, <2>1, Zenon
<1>3. S \subseteq T /\ \A e \in S : [e EXCEPT !.goroutines = gs] \in T
  OBVIOUS
<1>4. heap' = [heap EXCEPT ![r] = d] /\ d \in T
  BY <1>2, <1>3
<1> HIDE DEF d, S, T
<1>5. /\ heap' \in Seq(T) /\ Len(heap') = Len(heap)
      /\ \A i \in 1..Len(heap) : heap'[i] = IF i = r THEN d ELSE heap[i]
  BY <1>1, <1>3, <1>4, ReplacedIn
<1>6. heap' \in HeapOver(A \cup {gs}, B, C)
  BY <1>5 DEF HeapOver, T
<1> QED BY <1>5, <1>6 DEF HeapShape

LEMMA AddGoroutineStep ==
  ASSUME IInv, AddGoroutine, Control, code' = code, oldEnv' = oldEnv
  PROVE  IInv' /\ Unchanging
<1> USE DEF registers
<1>0. StackShape /\ HeapShape /\ InUse \subseteq 1..Len(heap) /\ Len(heap) \in Nat
  BY HeapLength DEF IInv, Shapes
<1>1. CASE Crash /\ heap' = heap
  <2>1. Gains({}) /\ status' # "running"
    BY <1>0, <1>1, StacksAfter DEF Crash
  <2>2. Data
    BY <1>1, <2>1, Quiet DEF AddGoroutine, IInv
  <2> QED BY <2>1, <2>2, DataStep
<1>2. CASE ~(Crash /\ heap' = heap)
  <2>1. /\ regDumpDst # 0
        /\ \E gs : heap' = [heap EXCEPT ![regDumpDst].goroutines = gs]
        /\ Advance(stack)
        /\ regDumpDst' = regDumpDst /\ env' = env
    BY <1>2, Zenon DEF AddGoroutine
  <2>2. Ready /\ Instr.op = "AddGoroutine"
    BY Endings, Zenon DEF AddGoroutine
  <2>3. FlowShape /\ Private
    BY <2>2 DEF Ready, IInv
  <2>4. InFilter
    <3>1. Len(frames) = 1
      BY <2>2, <2>3, Instructed DEF FlowShape
    <3>2. /\ NextIp + 1 = frames[1].ip + 2
          /\ NextIp + 1 \in DOMAIN code.chunks[1]
          /\ Instr = code.chunks[1][NextIp + 1]
      BY <2>2, <2>3, <3>1, Instructed
    <3> QED BY <2>2, <2>3, <3>2 DEF FlowShape, WellLooped, InFilter
  <2>5. regDumpDst \in 1..Len(heap) /\ regDumpDst \notin InUse
    BY <1>0, <2>1, <2>3, <2>4 DEF IInv, Private
  <2>6. /\ HeapShape' /\ Len(heap') = Len(heap)
        /\ \A q \in 1..Len(heap) : q # regDumpDst => heap'[q] = heap[q]
    BY <1>0, <2>1, <2>5, HeapCollected
  <2>7. stack' = stack /\ InUse' = InUse
    BY <2>1 DEF Advance, GoTo, InUse
  <2>8. Shapes'
    BY <1>0, <2>6, <2>7 DEF Shapes, StackShape
  <2>9. ASSUME status' = "running" PROVE FlowShape' /\ Private'
    <3>1. Flow
      BY <2>9 DEF Control
    <3> QED BY <2>1, <2>2, <2>3, <2>5, <2>7, <3>1, FlowKept DEF Private
  <2>10. Unchanging
    BY <1>0, <2>5, <2>6 DEF Unchanging
  <2> QED BY <2>1, <2>5, <2>6, <2>8, <2>9, <2>10 DEF IInv
<1> QED BY <1>1, <1>2

(* The other instructions.                                                 *)
LEMMA OtherInstructions ==
  Execute \/ Interrupt =>
    \/ TempDump \/ PushDump \/ AddGoroutine
    \/ /\ \/ ResetDump \/ NextGoroutine
          \/ Noop \/ Dup \/ LoadConstant \/ PushBool \/ LoadGoroutineDump
               \/ LoadFieldAccessor \/ Assignment \/ AssignMulti
          \/ Comparison \/ ContainsOrIn \/ RegexMatches \/ ConditionalJump
               \/ JumpTo \/ Call \/ Return
          \/ FuncUnion \/ FuncIntersect \/ FuncDiff \/ FuncGraph
               \/ FuncLoad \/ FuncSave \/ FuncShowDump \/ FuncExport
          \/ CommandChangeDir \/ CommandEmpty \/ CommandQuit \/ CommandHelp
               \/ CommandGetWorkingDir \/ CommandListDir \/ CommandVars
               \/ CommandGetPragma \/ CommandSetPragma
          \/ BadOperands \/ BadConstant \/ OutOfGas \/ Halt \/ Interrupt
       /\ status' = "running" => Instr.op # "TempDump"
<1> USE Endings
<1>1. Noop \/ Dup \/ LoadConstant \/ PushBool \/ LoadGoroutineDump
        \/ LoadFieldAccessor \/ Assignment \/ AssignMulti => Instr.op # "TempDump"
  BY DEF Noop, Dup, LoadConstant, PushBool, LoadGoroutineDump,
         LoadFieldAccessor, Assignment, AssignMulti
<1>2. Comparison \/ ContainsOrIn \/ RegexMatches \/ ConditionalJump
        \/ JumpTo \/ Call \/ Return => Instr.op # "TempDump"
  BY DEF Comparison, Comparisons, ContainsOrIn, RegexMatches, ConditionalJump,
         JumpTo, Call, Return
<1>3. FuncUnion \/ FuncIntersect \/ FuncDiff \/ FuncGraph
        \/ FuncLoad \/ FuncSave \/ FuncShowDump \/ FuncExport => Instr.op # "TempDump"
  <2>1. FuncUnion \/ FuncIntersect \/ FuncDiff \/ FuncGraph
        => \E op \in {"FuncUnion", "FuncIntersect", "FuncDiff", "FuncGraph"} : At(op)
    BY Zenon DEF FuncUnion, FuncIntersect, FuncDiff, FuncGraph
  <2>2. FuncLoad \/ FuncSave \/ FuncShowDump \/ FuncExport
        => \E op \in {"FuncLoad", "FuncSave", "FuncShowDump", "FuncToJSON", "FuncToDot"} :
             At(op)
    BY Zenon DEF FuncLoad, FuncSave, FuncShowDump, FuncExport
  <2> QED BY <2>1, <2>2
<1>4. CommandChangeDir \/ CommandEmpty \/ CommandQuit \/ CommandHelp
        \/ CommandGetWorkingDir \/ CommandListDir \/ CommandVars
        \/ CommandGetPragma \/ CommandSetPragma => Instr.op # "TempDump"
  BY DEF CommandChangeDir, CommandEmpty, CommandQuit, CommandHelp,
         CommandGetWorkingDir, CommandListDir, CommandVars,
         CommandGetPragma, CommandSetPragma
<1>5. ResetDump \/ NextGoroutine => Instr.op # "TempDump"
  BY DEF ResetDump, NextGoroutine
<1>6. BadOperands \/ BadConstant \/ OutOfGas \/ Halt \/ Interrupt
      => status' # "running"
  <2>1. BadOperands \/ BadConstant \/ OutOfGas \/ Halt => Crash \/ \E e : Fail(e)
    BY Zenon DEF BadOperands, BadConstant, OutOfGas, Halt
  <2>2. Interrupt => status' # "running"
    BY DEF Interrupt
  <2> QED BY <2>1, <2>2 DEF Crash, Fail
<1> QED BY <1>1, <1>2, <1>3, <1>4, <1>5, <1>6, Zenon DEF Execute

LEMMA RunStepKeeps ==
  ASSUME IInv, RunStep
  PROVE  IInv' /\ Unchanging
<1>1. /\ Execute \/ Interrupt
      /\ code' = code /\ oldEnv' = oldEnv
      /\ Control
  BY Controlled DEF RunStep, Run
<1>2. CASE TempDump
  BY <1>1, <1>2, TempDumpStep
<1>3. CASE PushDump
  BY <1>1, <1>3, PushDumpStep
<1>4. CASE AddGoroutine
  BY <1>1, <1>4, AddGoroutineStep
<1>5. CASE ~(TempDump \/ PushDump \/ AddGoroutine)
  <2>1. Shapes /\ regDumpDst \in 0..Len(heap)
    BY DEF IInv
  <2>2. Data
    BY <1>1, <1>5, <2>1, OtherInstructions, DataOfLoops, DataOfLoadsAndStores,
       DataOfComparisonsAndJumps, DataOfFunctions, DataOfCommands, DataOfEnds, Zenon
  <2>3. status' = "running" => Instr.op # "TempDump"
    BY <1>1, <1>5, OtherInstructions, Zenon
  <2> QED BY <1>1, <2>2, <2>3, DataStep
<1> QED BY <1>2, <1>3, <1>4, <1>5

(* What the evaluator does around a run leaves the dumps alone.            *)
LEMMA EvalKeeps ==
  ASSUME IInv, NEW s \in Sources, Eval(s)
  PROVE  IInv' /\ Unchanging
<1>1. CASE Compiled[s] \in {CompileError, CompilePanic}
  <2>1. /\ UNCHANGED <<code, frames, stack, env, heap, registers, oldEnv>>
        /\ status' \in {status, "crashed"}
    <3>1. CASE Compiled[s] = CompileError
      BY <1>1, <3>1 DEF Eval, vmVars, control
    <3>2. CASE Compiled[s] # CompileError
      BY <1>1, <3>2 DEF Eval
    <3> QED BY <3>1, <3>2
  <2>2. status = "idle"
    BY DEF Eval
  <2>3. InUse' = InUse
    BY <2>1 DEF InUse
  <2>4. Shapes' /\ regDumpDst' \in 0..Len(heap')
    BY <2>1, <2>3 DEF IInv, Shapes, HeapShape, StackShape, registers
  <2> QED BY <2>1, <2>2, <2>4 DEF IInv, Unchanging
<1>2. CASE Compiled[s] \notin {CompileError, CompilePanic}
  <2>1. /\ code' = Compiled[s] /\ env' = env /\ oldEnv' = env
        /\ heap' = heap /\ regDumpDst' = regDumpDst /\ stack' = <<>>
        /\ frames' = <<[chunk |-> 1, ip |-> -1, returnAddr |-> 0]>>
    BY <1>2 DEF Eval, Reset, registers
  <2>2. InUse' \subseteq InUse /\ StackShape'
    BY <2>1 DEF InUse, RefsIn, StackShape
  <2>3. Shapes' /\ regDumpDst' \in 0..Len(heap')
    BY <2>1, <2>2 DEF IInv, Shapes, HeapShape
  <2>4. FlowShape'
    <3>1. /\ code'.chunks \in Seq(Seq(Instructions)) /\ code'.chunks # <<>>
          /\ WellLooped(code)'
      BY <1>2, <2>1, EvaluatorAssumption, LoopsAssumption
      DEF IsCode, Instructions, WellLooped
    <3>2. [chunk |-> 1, ip |-> -1, returnAddr |-> 0] \in AnyFrames(Len(code'.chunks))
      BY <3>1 DEF AnyFrames
    <3>3. /\ frames' \in Seq(AnyFrames(Len(code'.chunks)))
          /\ Len(frames') = 1 /\ frames'[1].chunk = 1 /\ frames'[1].ip = -1
      BY <2>1, <3>2
    <3> QED BY <3>1, <3>3 DEF FlowShape
  <2>5. Private'
    <3>1. frames'[1].ip + 2 = 1
      BY <2>1
    <3>2. DOMAIN code'.chunks[1] \subseteq Nat \ {0}
      <4>1. code'.chunks[1] \in Seq(Instructions)
        BY <2>4, ElementOf DEF FlowShape
      <4> QED BY <4>1
    <3>3. ~InFilter'
      BY <3>1, <3>2 DEF InFilter, Collecting
    <3> QED BY <3>3 DEF Private
  <2> QED BY <2>1, <2>3, <2>4, <2>5 DEF IInv, Unchanging
<1> QED BY <1>1, <1>2

LEMMA AroundRunKeeps ==
  ASSUME IInv, Finish \/ Confirm \/ Decline \/ UNCHANGED <<vmVars, oldEnv>>
  PROVE  IInv' /\ Unchanging
<1>1. heap' = heap /\ regDumpDst' = regDumpDst
  BY DEF Finish, Confirm, Decline, vmVars, registers
<1>2. (stack' = stack \/ stack' = <<>>) /\ oldEnv' = oldEnv
  BY DEF Finish, Confirm, Decline, vmVars, control
<1>3. env' = env \/ env' = oldEnv \/ env' = NoVariables
  BY DEF Finish, Confirm, Decline, vmVars
<1>4. InUse' \subseteq InUse /\ StackShape'
  <2>1. RefsIn(<<>>) = {} /\ RefsIn(NoVariables) = {}
    BY DEF RefsIn, NoVariables
  <2>2. RefsIn(stack') \subseteq RefsIn(stack) /\ StackShape'
    <3>1. CASE stack' = stack
      BY <3>1 DEF IInv, Shapes, StackShape
    <3>2. CASE stack' = <<>>
      <4>1. stack' \in Seq({})
        BY <3>2
      <4> QED BY <2>1, <3>2, <4>1 DEF StackShape
    <3> QED BY <1>2, <3>1, <3>2
  <2>3. RefsIn(env') \subseteq RefsIn(env) \cup RefsIn(oldEnv)
    BY <1>3, <2>1
  <2> QED BY <1>2, <2>2, <2>3 DEF InUse
<1>5. Shapes' /\ regDumpDst' \in 0..Len(heap')
  BY <1>1, <1>4 DEF IInv, Shapes, HeapShape
<1>6. ASSUME status' = "running" PROVE FlowShape' /\ Private'
  <2>1. UNCHANGED <<vmVars, oldEnv>>
    BY <1>6 DEF Finish, Confirm, Decline
  <2>2. UNCHANGED <<status, code, frames, stack, env, oldEnv, regDumpDst>>
    BY <2>1 DEF vmVars, control, registers
  <2> QED BY <1>6, <2>2 DEF IInv, FlowShape, WellLooped, Private, InFilter, InUse
<1> QED BY <1>1, <1>5, <1>6 DEF IInv, Unchanging

LEMMA NextKeeps ==
  ASSUME IInv, [Next]_vars
  PROVE  IInv' /\ Unchanging
<1>1. \A s \in Sources : CancelCompile(s) => UNCHANGED <<vmVars, oldEnv>>
  BY DEF CancelCompile
<1>2. UNCHANGED vars => UNCHANGED <<vmVars, oldEnv>>
  BY DEF vars
<1> QED BY <1>1, <1>2, RunStepKeeps, EvalKeeps, AroundRunKeeps DEF Next

LEMMA IInvHolds == Spec => []IInv
<1>1. Init => IInv
  <2> SUFFICES ASSUME Init PROVE IInv
    OBVIOUS
  <2>1. heap \in HeapOver({}, {}, {}) /\ stack \in Seq({})
    BY DEF Init, HeapOver
  <2>2. InUse = {}
    BY DEF Init, InUse, RefsIn, NoVariables
  <2> QED BY <2>1, <2>2 DEF Init, IInv, Shapes, HeapShape, StackShape
<1>2. IInv /\ [Next]_vars => IInv'
  BY NextKeeps
<1> QED BY <1>1, <1>2, PTL DEF Spec

(* For all code whose loops have the shape of module Loops, whatever the   *)
(* user types and however a source ends: a dump that is a value of the     *)
(* workspace, or lies on the stack, keeps its goroutines.                  *)
THEOREM DumpsNeverChange == Spec => DumpsImmutable
<1>1. IInv /\ [Next]_vars => [Unchanging]_vars
  BY NextKeeps
<1> QED BY <1>1, IInvHolds, PTL DEF Spec, DumpsImmutable, Unchanging

-----------------------------------------------------------------------------
(* The workspace that the user knows: a step of the machine changes it     *)
(* only where a source is done.  There are frames exactly while a source   *)
(* runs, or when it was running as the machine panicked.                   *)
FramesInv ==
  /\ status \in {"running", "returned"} => frames # <<>>
  /\ status \in {"idle", "confirm"} => frames = <<>>
  /\ status \in {"idle", "running", "returned", "confirm", "crashed", "stopped"}
  /\ src \in Sources

(* Instructions are executed while Run runs.                               *)
LEMMA ExecuteRuns == Execute => status = "running"
<1>0. \A op : At(op) => status = "running"
  BY DEF At, Ready
<1>1. Noop \/ Dup \/ LoadConstant \/ PushBool \/ LoadGoroutineDump
        \/ LoadFieldAccessor \/ Assignment \/ AssignMulti
        \/ Comparison \/ ContainsOrIn \/ RegexMatches
        \/ ConditionalJump \/ JumpTo \/ Call \/ Return => status = "running"
  BY <1>0, Zenon DEF Noop, Dup, LoadConstant, PushBool, LoadGoroutineDump,
    LoadFieldAccessor, Assignment, AssignMulti, Comparison, ContainsOrIn,
    RegexMatches, ConditionalJump, JumpTo, Call, Return
<1>2. TempDump \/ ResetDump \/ PushDump \/ AddGoroutine \/ NextGoroutine
        \/ FuncUnion \/ FuncIntersect \/ FuncDiff \/ FuncGraph
        \/ FuncLoad \/ FuncSave \/ FuncShowDump \/ FuncExport => status = "running"
  BY <1>0, Zenon DEF TempDump, ResetDump, PushDump, AddGoroutine, NextGoroutine,
    FuncUnion, FuncIntersect, FuncDiff, FuncGraph, FuncLoad, FuncSave,
    FuncShowDump, FuncExport
<1>3. CommandChangeDir \/ CommandEmpty \/ CommandQuit \/ CommandHelp
        \/ CommandGetWorkingDir \/ CommandListDir \/ CommandVars
        \/ CommandGetPragma \/ CommandSetPragma => status = "running"
  BY <1>0, Zenon DEF CommandChangeDir, CommandEmpty, CommandQuit, CommandHelp,
    CommandGetWorkingDir, CommandListDir, CommandVars, CommandGetPragma,
    CommandSetPragma
<1>4. BadOperands \/ BadConstant \/ OutOfGas \/ Halt => status = "running"
  BY Zenon DEF BadOperands, BadConstant, OutOfGas, Halt, Ready
<1> QED BY <1>1, <1>2, <1>3, <1>4, Zenon DEF Execute

LEMMA RunStepFrames ==
  ASSUME FramesInv, IInv, IInv', RunStep
  PROVE  /\ FramesInv'
         /\ frames # <<>> /\ frames' # <<>>
         /\ status = "running"
<1>1. Control /\ src' = src
  BY Controlled DEF RunStep, Run
<1>2. status = "running" /\ frames # <<>>
  <2>1. Execute \/ Interrupt => status = "running"
    BY ExecuteRuns DEF Interrupt
  <2> QED BY <2>1 DEF RunStep, Run, FramesInv
<1>3. frames' # <<>>
  <2>1. CASE status' = "running"
    <3>1. Len(frames') \in {1, 2}
      BY <2>1 DEF IInv, FlowShape
    <3> QED BY <3>1
  <2>2. CASE status' # "running"
    BY <1>1, <1>2, <2>2 DEF Control, Ends
  <2> QED BY <2>1, <2>2
<1>4. status' \in {"running", "returned", "crashed"}
  BY <1>1 DEF Control, Ends
<1> QED BY <1>1, <1>2, <1>3, <1>4 DEF FramesInv

LEMMA EvalFrames ==
  ASSUME FramesInv, NEW s \in Sources, Eval(s)
  PROVE  /\ FramesInv'
         /\ frames = <<>>
         /\ frames' = <<>> \/ oldEnv' = env
         /\ env' = env /\ heap' = heap
         /\ status = "idle"
<1>1. status = "idle" /\ src' = s
  BY DEF Eval
<1>2. CASE Compiled[s] = CompileError
  BY <1>1, <1>2 DEF Eval, vmVars, control, FramesInv
<1>3. CASE Compiled[s] = CompilePanic /\ Compiled[s] # CompileError
  BY <1>1, <1>3 DEF Eval, FramesInv
<1>4. CASE Compiled[s] \notin {CompileError, CompilePanic}
  <2>1. frames' = <<[chunk |-> 1, ip |-> -1, returnAddr |-> 0]>>
    BY <1>4 DEF Eval, Reset
  <2>2. frames' # <<>>
    BY <2>1
  <2>3. status' = "running" /\ env' = env /\ oldEnv' = env /\ heap' = heap
    BY <1>4 DEF Eval, Reset
  <2> QED BY <1>1, <2>2, <2>3 DEF FramesInv
<1> QED BY <1>2, <1>3, <1>4

LEMMA AroundRunFrames ==
  ASSUME FramesInv,
         \/ Finish \/ Confirm \/ Decline
         \/ \E s \in Sources : CancelCompile(s)
         \/ UNCHANGED vars
  PROVE  FramesInv'
<1>1. CASE Finish
  BY <1>1 DEF Finish, FramesInv
<1>2. CASE Confirm
  BY <1>2 DEF Confirm, FramesInv
<1>3. CASE Decline
  BY <1>3 DEF Decline, FramesInv
<1>4. CASE \E s \in Sources : CancelCompile(s)
  BY <1>4 DEF CancelCompile, vmVars, control, FramesInv
<1>5. CASE UNCHANGED vars
  BY <1>5 DEF vars, vmVars, control, FramesInv
<1> QED BY <1>1, <1>2, <1>3, <1>4, <1>5

LEMMA FramesInvHolds == Spec => []FramesInv
<1>1. Init => FramesInv
  BY DEF Init, FramesInv
<1>2. FramesInv /\ IInv /\ IInv' /\ [Next]_vars => FramesInv'
  BY RunStepFrames, EvalFrames, AroundRunFrames DEF Next
<1> QED BY <1>1, <1>2, IInvHolds, PTL DEF Spec

(* What variables hold stays, as long as the dumps they refer to do.       *)
ContentsIn(h, e) ==
  [name \in DOMAIN e |-> IF e[name].tag = "dump" THEN h[e[name].ref].goroutines
                                                 ELSE e[name]]

LEMMA ContentsStay ==
  ASSUME NEW e, NEW h, NEW k,
         \A ref \in RefsIn(e) : k[ref].goroutines = h[ref].goroutines
  PROVE  ContentsIn(k, e) = ContentsIn(h, e)
<1>1. ASSUME NEW name \in DOMAIN e, e[name].tag = "dump"
      PROVE  k[e[name].ref].goroutines = h[e[name].ref].goroutines
  <2>1. e[name].ref \in RefsIn(e)
    BY <1>1, RefsOfTagged, RefsOfElement
  <2> QED BY <2>1
<1> QED BY <1>1 DEF ContentsIn

(* What the specification of the workspace says of a step.                 *)
LEMMA VisibleIs ==
  /\ Visible = ContentsIn(heap, IF frames = <<>> THEN env ELSE oldEnv)
  /\ Visible' = ContentsIn(heap', IF frames' = <<>> THEN env' ELSE oldEnv')
  /\ Contents(env) = ContentsIn(heap, env)
  /\ Contents(NoVariables) = ContentsIn(heap, NoVariables)
BY DEF Visible, Contents, ContentsIn

LEMMA RunStepStutters ==
  ASSUME FramesInv, IInv, IInv', Unchanging, RunStep
  PROVE  UNCHANGED <<src, Pending, Visible>>
<1>1. /\ frames # <<>> /\ frames' # <<>> /\ status = "running"
      /\ oldEnv' = oldEnv /\ src' = src
      /\ status' \in {"running", "returned", "crashed"}
  BY RunStepFrames, Controlled DEF RunStep, Run, Control, Ends
<1>2. \A ref \in RefsIn(oldEnv) : heap'[ref].goroutines = heap[ref].goroutines
  BY DEF Unchanging, InUse
<1>3. Visible' = Visible
  BY <1>1, <1>2, ContentsStay, VisibleIs
<1>4. Pending' = Pending
  BY <1>1 DEF Pending
<1> QED BY <1>1, <1>3, <1>4

LEMMA EvalSubmits ==
  ASSUME FramesInv, NEW s \in Sources, Eval(s)
  PROVE  W!Submit
<1>1. Visible' = Visible
  BY EvalFrames, VisibleIs
<1>2. src' \in Sources /\ Pending = FALSE /\ Pending' \in BOOLEAN
  BY DEF Eval, Pending
<1> QED BY <1>1, <1>2 DEF W!Submit

LEMMA CancelSubmits ==
  ASSUME NEW s \in Sources, CancelCompile(s)
  PROVE  W!Submit
<1>1. UNCHANGED <<status, frames, env, oldEnv, heap>> /\ status = "idle"
  BY DEF CancelCompile, vmVars, control
<1>2. Visible' = Visible
  BY <1>1, VisibleIs
<1>3. src' \in Sources /\ Pending = FALSE /\ Pending' \in BOOLEAN
  BY <1>1 DEF CancelCompile, Pending
<1> QED BY <1>2, <1>3 DEF W!Submit

LEMMA FinishCompletes ==
  ASSUME FramesInv, DoesWhatItMeans, Finish
  PROVE  W!Complete \/ W!Fail \/ UNCHANGED <<src, Pending, Visible>>
<1>1. /\ status = "returned" /\ frames # <<>> /\ frames' = <<>>
      /\ heap' = heap /\ src' = src
      /\ env' = IF err = "none" THEN env ELSE oldEnv
  BY DEF Finish, FramesInv
<1>2. Pending
  BY <1>1 DEF Pending
<1>3. CASE err = "none"
  <2>1. Visible' = Contents(env)
    BY <1>1, <1>3, VisibleIs
  <2>2. ~Pending'
    BY <1>1, <1>3 DEF Finish, Pending
  <2>3. Pending' = FALSE
    BY <2>2 DEF Pending
  <2>4. Visible' \in Effects(src, Visible)
    BY <1>1, <1>3, <2>1 DEF DoesWhatItMeans
  <2> QED BY <1>1, <1>2, <2>3, <2>4 DEF W!Complete
<1>4. CASE err # "none"
  <2>1. Visible' = Visible
    BY <1>1, <1>4, VisibleIs
  <2>2. CASE Pending'
    <3>1. Pending' = Pending
      BY <1>2, <2>2 DEF Pending
    <3> QED BY <1>1, <2>1, <3>1
  <2>3. CASE ~Pending'
    <3>1. Pending' = FALSE
      BY <2>3 DEF Pending
    <3> QED BY <1>1, <1>2, <2>1, <3>1 DEF W!Fail
  <2> QED BY <2>2, <2>3
<1> QED BY <1>3, <1>4

LEMMA ConfirmCompletes ==
  ASSUME FramesInv, DoesWhatItMeans, Confirm \/ Decline
  PROVE  W!Complete \/ W!Fail
<1>1. /\ status = "confirm" /\ frames = <<>> /\ frames' = <<>>
      /\ heap' = heap /\ src' = src
      /\ status' \in {"idle", "stopped"}
  BY DEF Confirm, Decline, FramesInv
<1>2. Pending /\ Pending' = FALSE
  BY <1>1 DEF Pending
<1>3. CASE env' = env
  BY <1>1, <1>2, <1>3, VisibleIs DEF W!Fail
<1>4. CASE result = "ConfirmEmpty" /\ env' = NoVariables
  <2>1. Visible' = Contents(NoVariables)
    BY <1>1, <1>4, VisibleIs
  <2>2. Visible' \in Effects(src, Visible)
    BY <1>1, <1>4, <2>1 DEF DoesWhatItMeans
  <2> QED BY <1>1, <1>2, <2>2 DEF W!Complete
<1> QED BY <1>3, <1>4 DEF Confirm, Decline

LEMMA StepsActAsAWhole ==
  ASSUME FramesInv, IInv, IInv', DoesWhatItMeans, [Next]_vars
  PROVE  [W!Next]_(W!vars)
<1>1. Unchanging
  BY NextKeeps
<1>2. CASE RunStep
  BY <1>1, <1>2, RunStepStutters DEF W!vars
<1>3. CASE \E s \in Sources : Eval(s) \/ CancelCompile(s)
  BY <1>3, EvalSubmits, CancelSubmits DEF W!Next
<1>4. CASE Finish
  BY <1>4, FinishCompletes DEF W!Next, W!vars
<1>5. CASE Confirm \/ Decline
  BY <1>5, ConfirmCompletes DEF W!Next
<1>6. CASE UNCHANGED vars
  <2>1. UNCHANGED <<src, Pending, frames, env, oldEnv, heap>>
    BY <1>6 DEF vars, vmVars, control, Pending
  <2> QED BY <2>1, VisibleIs DEF W!vars
<1> QED BY <1>2, <1>3, <1>4, <1>5, <1>6 DEF Next

LEMMA BeginsAsAWorkspace == Init => W!Init
<1> SUFFICES ASSUME Init PROVE W!Init
  OBVIOUS
<1>1. Visible = [name \in {} |-> <<>>]
  BY DEF Init, Visible, Contents, NoVariables
<1>2. src \in Sources /\ Pending = FALSE
  BY DEF Init, Pending
<1> QED BY <1>1, <1>2, RollbackAssumption DEF W!Init

(* For all code whose loops have the shape of module Loops: if the states  *)
(* in which Run returned nil agree with what the sources mean, then the    *)
(* evaluator implements module Workspace.  Whatever happens in between, in *)
(* spite of shared dumps, Ctrl-C, failures and confirmations, nobody sees  *)
(* a source take effect in part, twice, or after it failed (Eval).         *)
THEOREM EvaluatorActsAsAWhole == Spec /\ []DoesWhatItMeans => ActsAsAWhole
<1>1. FramesInv /\ IInv /\ IInv' /\ DoesWhatItMeans /\ [Next]_vars => [W!Next]_(W!vars)
  BY StepsActAsAWhole
<1> QED BY <1>1, BeginsAsAWorkspace, IInvHolds, FramesInvHolds, PTL
    DEF Spec, ActsAsAWhole, W!Spec

=============================================================================
