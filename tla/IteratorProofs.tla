--------------------------- MODULE IteratorProofs ---------------------------
(***************************************************************************)
(* While a filter runs, the goroutine on the stack, the register and the   *)
(* iterator of the dump it walks agree, the dump it collects into is its   *)
(* own, and holds goroutines of the other in their order: for all code     *)
(* whose loops have the shape that module Loops describes.  The argument:  *)
(* how many operands lie above the goroutine of the loop follows from the  *)
(* text of the code, and only they are popped, so the goroutine stays      *)
(* where NextGoroutine left it until it is the turn of the next one.       *)
(*                                                                         *)
(* With that, and with the heights that module Panics reads off the text,  *)
(* no instruction of such code panics.                                     *)
(***************************************************************************)
EXTENDS LoopProofs, EvaluatorProofs, Panics

-----------------------------------------------------------------------------
(* Where a loop is.                                                        *)
Main           == code.chunks[1]
MainDepth      == Depths(Main, -1)
MainAt         == frames[1].ip + 2
Predicate      == code.chunks[frames[2].chunk]
PredicateDepth == Depths(Predicate, 0)
PredicateAt    == frames[2].ip + 2

(* No goroutine lies on a stack.                                           *)
Silent(s) == \A i \in DOMAIN s : s[i].tag # "goroutine"

(* The goroutine of the loop is at m on the stack, above the dump that the *)
(* loop walks.                                                             *)
Walked(m) == heap[stack[m - 1].ref]

Walks(m) ==
  /\ m \in 2..Len(stack)
  /\ stack[m].tag = "goroutine" /\ stack[m].goroutine = regGoroutine
  /\ stack[m - 1].tag = "dump"
  /\ \A i \in DOMAIN stack : i # m => stack[i].tag # "goroutine"
  /\ Walked(m).iterIndex \in Nat \ {0}
  /\ Walked(m).goroutines[Walked(m).iterIndex] = regGoroutine

(* What was kept so far are goroutines of the dump, in their order, up to  *)
(* the k-th.                                                               *)
Kept == heap[regDumpDst].goroutines

(* kept are the goroutines of gs at the places at, which increase up to k. *)
Rising(at, kept, gs, k) ==
  /\ at \in [1..Len(kept) -> 1..k]
  /\ \A i \in 1..Len(kept) : kept[i] = gs[at[i]]
  /\ \A i, j \in 1..Len(kept) : i < j => at[i] < at[j]

(* The dump being collected has goroutines of the walked one, up to the    *)
(* k-th.                                                                   *)
Collected(m, k) ==
  /\ \E S : Kept \in Seq(S)
  /\ \E at : Rising(at, Kept, Walked(m).goroutines, k)

(* A loop is running, with depth operands on its goroutine; if one is      *)
(* pending, that goroutine was not kept yet.                               *)
Iterating(depth, pending) ==
  \E m \in Nat :
    Walks(m) /\ Len(stack) = m + depth /\ Collected(m, Walked(m).iterIndex - pending)

(* The goroutine was kept by the instruction before.                       *)
Added == MainAt > 1 /\ Main[MainAt - 1].op = "AddGoroutine"

(* Within a predicate, or in the first chunk: before the first goroutine,  *)
(* before the next one, between two instructions of the loop, or outside.  *)
InPredicate ==
  /\ Len(frames) = 2
  /\ MainAt \in DOMAIN MainDepth
  /\ MainAt - 1 \in DOMAIN Main
  /\ Main[MainAt - 1].op = "Call" /\ MainDepth[MainAt - 1] = 0
  /\ PredicateAt \in DOMAIN PredicateDepth
  /\ Iterating(PredicateDepth[PredicateAt], 1)

(* A filter has its new dump and turns to the dump on the stack.           *)
Entering ==
  /\ Len(frames) = 1 /\ IsNext(Main, MainAt)
  /\ Silent(stack)
  /\ Kept = <<>>

(* It is the turn of the next goroutine.                                   *)
GoingOn ==
  /\ Len(frames) = 1 /\ IsNext(Main, MainAt)
  /\ Iterating(0, 0)

(* Between two instructions of a loop.                                     *)
InBody ==
  /\ Len(frames) = 1 /\ ~IsNext(Main, MainAt)
  /\ MainAt \in DOMAIN MainDepth /\ MainDepth[MainAt] >= 0
  /\ Iterating(MainDepth[MainAt], IF Added THEN 0 ELSE 1)

(* Outside of any loop.                                                    *)
Elsewhere ==
  /\ Len(frames) = 1 /\ ~IsNext(Main, MainAt)
  /\ MainAt \in DOMAIN MainDepth /\ MainDepth[MainAt] = -1
  /\ Silent(stack)

(* One of these, whenever a source runs.                                   *)
LoopState == InPredicate \/ Entering \/ GoingOn \/ InBody \/ Elsewhere

(* The invariant, together with IInv.                                      *)
LoopInv == status = "running" => WellStacked(code) /\ LoopState

-----------------------------------------------------------------------------
(* What the shape of the code says of the first chunk.                     *)
LEMMA MainStacked ==
  ASSUME FlowShape, WellStacked(code)
  PROVE  /\ Main \in Seq(Instructions)
         /\ DOMAIN MainDepth = 1..(Len(Main) + 1)
         /\ \A i \in DOMAIN MainDepth : MainDepth[i] \in Int /\ MainDepth[i] >= -1
         /\ \A i \in DOMAIN Main : MainDepth[i + 1] = DepthAfter(Main[i].op, MainDepth[i])
         /\ MainDepth[1] = -1
         /\ \A i \in DOMAIN MainDepth : MainDepth[i] >= 0 => Collecting(Main, i)
         /\ \A i \in DOMAIN Main : StackedLoop(code, Main, MainDepth, i)
<1>1. StackedMain(code, Main)
  BY DEF WellStacked, Main
<1>2. Main \in Seq(Instructions)
  BY Position, ElementOf DEF FlowShape, Main
<1>3. Tracks(Main, MainDepth)
  BY <1>1 DEF StackedMain, MainDepth
<1> QED BY <1>1, <1>2, <1>3 DEF StackedMain, MainDepth, Tracks

(* The same for the chunk of the predicate being called.                   *)
LEMMA PredicateStacked ==
  ASSUME FlowShape, WellStacked(code), Len(frames) = 2
  PROVE  /\ Predicate \in Seq(Instructions)
         /\ DOMAIN PredicateDepth = 1..(Len(Predicate) + 1)
         /\ \A i \in DOMAIN PredicateDepth : PredicateDepth[i] \in Int /\ PredicateDepth[i] >= -1
         /\ \A i \in DOMAIN Predicate :
              PredicateDepth[i + 1] = DepthAfter(Predicate[i].op, PredicateDepth[i])
         /\ PredicateDepth[1] = 0
         /\ \A i \in DOMAIN Predicate :
              \/ Evaluates(code, Predicate, PredicateDepth, i)
              \/ Predicate[i].op = "Return" /\ PredicateDepth[i] = 1
<1>1. frames[2].chunk \in 2..Len(code.chunks) /\ frames[2].chunk \in 1..Len(code.chunks)
  BY Position DEF FlowShape
<1>2. StackedPredicate(code, Predicate)
  BY <1>1 DEF WellStacked, Predicate
<1>3. Predicate \in Seq(Instructions)
  BY <1>1, ElementOf DEF FlowShape, Predicate
<1>4. Tracks(Predicate, PredicateDepth)
  BY <1>2 DEF StackedPredicate, PredicateDepth
<1> QED BY <1>2, <1>3, <1>4 DEF StackedPredicate, PredicateDepth, Tracks

-----------------------------------------------------------------------------
(* However an instruction leaves the stack, no goroutine comes on it.      *)
LEMMA SilentStacks ==
  ASSUME StackShape, Silent(stack), status' = "running"
  PROVE  /\ \A n \in Nat : \A ip : n <= Len(stack) /\ GoTo(ip, Rest(n)) => Silent(stack')
         /\ \A ip : GoTo(ip, stack) => Silent(stack')
         /\ \A n \in Nat : n <= Len(stack) /\ Advance(Rest(n)) => Silent(stack')
         /\ Advance(stack) => Silent(stack')
         /\ \A n \in Nat : \A v : n <= Len(stack) /\ v.tag # "goroutine" /\ Push(Rest(n), v)
              => Silent(stack')
         /\ \A v : v.tag # "goroutine" /\ Push(stack, v) => Silent(stack')
         /\ ~Crash
         /\ \A e : ~Fail(e)
<1>1. ~Crash /\ \A e : ~Fail(e)
  BY DEF Crash, Fail
<1>2. ASSUME NEW n \in Nat, n <= Len(stack)
      PROVE  Silent(Rest(n)) /\ \E S : Rest(n) \in Seq(S)
  <2>1. PICK S : stack \in Seq(S)
    BY DEF StackShape
  <2>2. /\ Rest(n) \in Seq(S) /\ Len(Rest(n)) = Len(stack) - n
        /\ \A i \in 1..(Len(stack) - n) : Rest(n)[i] = stack[i]
    BY <1>2, <2>1, RefsInPrefix DEF Rest
  <2>3. DOMAIN Rest(n) = 1..(Len(stack) - n) /\ DOMAIN Rest(n) \subseteq DOMAIN stack
    BY <2>1, <2>2
  <2> QED BY <2>2, <2>3 DEF Silent
<1>3. ASSUME NEW s, NEW ip, Silent(s), GoTo(ip, s)
      PROVE  Silent(stack')
  BY <1>3 DEF GoTo
<1>4. ASSUME NEW s, NEW v, Silent(s), \E S : s \in Seq(S), v.tag # "goroutine", Push(s, v)
      PROVE  Silent(stack')
  <2>1. stack' = Append(s, v)
    BY <1>1, <1>4 DEF Push, Advance, GoTo
  <2>2. \A i \in DOMAIN Append(s, v) :
          Append(s, v)[i] = v \/ (i \in DOMAIN s /\ Append(s, v)[i] = s[i])
    BY <1>4
  <2> QED BY <1>4, <2>1, <2>2 DEF Silent
<1>5. \E S : stack \in Seq(S)
  BY DEF StackShape
<1> QED BY <1>1, <1>2, <1>3, <1>4, <1>5 DEF Advance

(* The stack within a loop: the goroutine at m stays, below depth operands *)
(* of other kinds.                                                         *)
Topped(m, depth) ==
  /\ \A i \in 1..m : stack[i] = stack'[i]
  /\ DOMAIN stack' = 1..(m + depth) /\ Len(stack') = m + depth
  /\ \A i \in DOMAIN stack' : i > m => stack'[i].tag # "goroutine"

(* Popping and pushing above the goroutine.                                *)
LEMMA ToppedStacks ==
  ASSUME StackShape, NEW m, Walks(m), NEW depth \in Nat, Len(stack) = m + depth,
         status' = "running"
  PROVE  /\ stack' = stack => Topped(m, depth)
         /\ \A n \in 0..depth : \A ip : GoTo(ip, Rest(n)) => Topped(m, depth - n)
         /\ \A n \in 0..depth : \A v : v.tag # "goroutine" /\ Push(Rest(n), v)
              => Topped(m, depth - n + 1)
         /\ \A v : v.tag # "goroutine" /\ Push(stack, v) => Topped(m, depth + 1)
<1>1. PICK S : stack \in Seq(S)
  BY DEF StackShape
<1>2. m \in Nat /\ Len(stack) \in Nat /\ DOMAIN stack = 1..Len(stack)
  BY <1>1 DEF Walks
<1>3. \A i \in DOMAIN stack : i > m => stack[i].tag # "goroutine"
  BY <1>2 DEF Walks
<1>4. ASSUME NEW n \in 0..depth
      PROVE  /\ Rest(n) \in Seq(S) /\ Len(Rest(n)) = m + depth - n
             /\ \A i \in 1..(m + depth - n) : Rest(n)[i] = stack[i]
  <2>1. n \in Nat /\ n <= Len(stack)
    BY <1>2
  <2>2. /\ Rest(n) \in Seq(S) /\ Len(Rest(n)) = Len(stack) - n
        /\ \A i \in 1..(Len(stack) - n) : Rest(n)[i] = stack[i]
    BY <1>1, <2>1, RefsInPrefix DEF Rest
  <2>3. m + depth - n = Len(stack) - n
    BY <1>2
  <2> HIDE DEF Rest
  <2> QED BY <2>2, <2>3
<1>5. stack' = stack => Topped(m, depth)
  BY <1>1, <1>2, <1>3 DEF Topped
<1>6. ASSUME NEW n \in 0..depth, NEW ip, GoTo(ip, Rest(n))
      PROVE  Topped(m, depth - n)
  <2>1. stack' = Rest(n)
    BY <1>6 DEF GoTo
  <2>2. /\ stack' \in Seq(S) /\ Len(stack') = m + depth - n
        /\ \A i \in 1..(m + depth - n) : stack'[i] = stack[i]
    BY <1>4, <2>1
  <2>3. \A i \in 1..m : stack[i] = stack'[i]
    BY <1>2, <2>2
  <2>4. Len(stack') = m + (depth - n) /\ DOMAIN stack' = 1..(m + (depth - n))
    BY <1>2, <2>2
  <2>5. \A i \in DOMAIN stack' : i > m => stack'[i].tag # "goroutine"
    BY <1>2, <1>3, <2>2, <2>4
  <2> QED BY <2>3, <2>4, <2>5 DEF Topped
<1>7. ASSUME NEW s \in Seq(S), NEW d \in Nat, Len(s) = m + d, NEW v, v.tag # "goroutine",
             \A i \in 1..m : s[i] = stack[i],
             \A i \in DOMAIN s : i > m => s[i].tag # "goroutine",
             Push(s, v)
      PROVE  Topped(m, d + 1)
  <2>1. stack' = Append(s, v)
    BY <1>7 DEF Push, Advance, GoTo, Crash
  <2>2. /\ Len(Append(s, v)) = Len(s) + 1 /\ DOMAIN Append(s, v) = 1..(m + d + 1)
        /\ \A i \in 1..Len(s) : Append(s, v)[i] = s[i]
        /\ Append(s, v)[Len(s) + 1] = v
    BY <1>2, <1>7
  <2>3. \A i \in 1..m : stack[i] = stack'[i]
    BY <1>2, <1>7, <2>1, <2>2
  <2>4. \A i \in DOMAIN stack' : i > m => stack'[i].tag # "goroutine"
    <3>1. DOMAIN s = 1..(m + d)
      BY <1>7
    <3> QED BY <1>2, <1>7, <2>1, <2>2, <3>1
  <2> QED BY <1>2, <1>7, <2>1, <2>2, <2>3, <2>4 DEF Topped
<1>8. ASSUME NEW n \in 0..depth, NEW v, v.tag # "goroutine", Push(Rest(n), v)
      PROVE  Topped(m, depth - n + 1)
  <2>1. /\ Rest(n) \in Seq(S) /\ depth - n \in Nat /\ Len(Rest(n)) = m + (depth - n)
        /\ DOMAIN Rest(n) = 1..(m + depth - n)
    BY <1>2, <1>4
  <2>2. \A i \in 1..m : Rest(n)[i] = stack[i]
    BY <1>2, <1>4
  <2>3. \A i \in DOMAIN Rest(n) : i > m => Rest(n)[i].tag # "goroutine"
    BY <1>2, <1>3, <1>4, <2>1
  <2> HIDE DEF Rest
  <2> QED BY <1>7, <1>8, <2>1, <2>2, <2>3
<1>9. ASSUME NEW v, v.tag # "goroutine", Push(stack, v)
      PROVE  Topped(m, depth + 1)
  BY <1>1, <1>3, <1>7, <1>9
<1> QED BY <1>5, <1>6, <1>8, <1>9

(* A loop whose dump and register stay is still at its goroutine.          *)
LEMMA StillWalks ==
  ASSUME StackShape, NEW m, Walks(m), NEW depth \in Nat, Topped(m, depth),
         regGoroutine' = regGoroutine,
         heap'[stack[m - 1].ref] = heap[stack[m - 1].ref]
  PROVE  Walks(m)' /\ Walked(m)' = Walked(m)
<1>1. m \in Nat /\ m >= 2 /\ m <= Len(stack) /\ DOMAIN stack = 1..Len(stack)
  BY DEF Walks, StackShape
<1>2. m \in 1..m /\ m - 1 \in 1..m
  BY <1>1
<1>3. stack'[m] = stack[m] /\ stack'[m - 1] = stack[m - 1]
  BY <1>2 DEF Topped
<1>4. Walked(m)' = Walked(m)
  BY <1>3 DEF Walked
<1>5. m \in 2..Len(stack')
  BY <1>1 DEF Topped
<1>6. \A i \in DOMAIN stack' : i # m => stack'[i].tag # "goroutine"
  <2> TAKE i \in DOMAIN stack'
  <2>1. CASE i \in 1..m /\ i # m
    BY <1>1, <2>1 DEF Topped, Walks
  <2>2. CASE i > m
    BY <2>2 DEF Topped
  <2>3. i \in Nat /\ i >= 1
    BY <1>1 DEF Topped
  <2> QED BY <1>1, <2>1, <2>2, <2>3
<1> QED BY <1>3, <1>4, <1>5, <1>6 DEF Walks

-----------------------------------------------------------------------------
(* Where a step of the machine leads.                                      *)
LEMMA Executed ==
  ASSUME FlowShape, Ready
  PROVE  /\ NextIp \in Nat /\ Instr.arg \in Nat /\ Len(frames) \in {1, 2}
         /\ Len(frames) = 1 =>
              /\ MainAt \in DOMAIN Main /\ MainAt \in Nat /\ NextIp + 1 = MainAt
              /\ Instr = Main[MainAt]
         /\ Len(frames) = 2 =>
              /\ PredicateAt \in DOMAIN Predicate /\ PredicateAt \in Nat
              /\ NextIp + 1 = PredicateAt
              /\ Instr = Predicate[PredicateAt]
<1>1. NextIp \in Nat /\ Instr.arg \in Nat /\ Len(frames) \in {1, 2}
  BY Position DEF FlowShape
<1>2. ASSUME Len(frames) = 1
      PROVE  /\ MainAt \in DOMAIN Main /\ MainAt \in Nat /\ NextIp + 1 = MainAt
             /\ Instr = Main[MainAt]
  <2>1. /\ NextIp + 1 = frames[1].ip + 2
        /\ NextIp + 1 \in DOMAIN code.chunks[1]
        /\ Instr = code.chunks[1][NextIp + 1]
    BY <1>2, Instructed
  <2> QED BY <1>1, <2>1 DEF MainAt, Main
<1>3. ASSUME Len(frames) = 2
      PROVE  /\ PredicateAt \in DOMAIN Predicate /\ PredicateAt \in Nat
             /\ NextIp + 1 = PredicateAt
             /\ Instr = Predicate[PredicateAt]
  <2>1. Frame = frames[2] /\ Ops = Predicate
    BY <1>3 DEF Frame, Ops, Predicate
  <2>2. NextIp + 1 = PredicateAt
    BY <2>1, Position DEF NextIp, PredicateAt
  <2>3. Predicate \in Seq(Instructions)
    <3>1. frames[2].chunk \in 1..Len(code.chunks)
      BY <1>3, Position DEF FlowShape
    <3> QED BY <3>1, ElementOf DEF FlowShape, Predicate
  <2>4. PredicateAt \in 1..Len(Predicate)
    BY <2>1, <2>2, Position
  <2> QED BY <1>1, <2>1, <2>2, <2>3, <2>4 DEF Instr
<1> QED BY <1>1, <1>2, <1>3

(* The chunks and their depths follow from the code and the frames.        *)
LEMMA SameCode ==
  ASSUME code' = code
  PROVE  /\ Main' = Main /\ MainDepth' = MainDepth
         /\ frames'[2].chunk = frames[2].chunk =>
              Predicate' = Predicate /\ PredicateDepth' = PredicateDepth
<1>1. Main' = Main
  BY DEF Main
<1>2. MainDepth' = MainDepth
  BY <1>1 DEF MainDepth
<1>3. ASSUME frames'[2].chunk = frames[2].chunk
      PROVE  Predicate' = Predicate /\ PredicateDepth' = PredicateDepth
  <2>1. Predicate' = Predicate
    BY <1>3 DEF Predicate
  <2> QED BY <2>1 DEF PredicateDepth
<1> QED BY <1>1, <1>2, <1>3

(* Moving on within the current chunk, calling another and returning.      *)
LEMMA MovedTo ==
  ASSUME FlowShape, code' = code, NEW ip \in Int, Moves(ip)
  PROVE  /\ Len(frames') = Len(frames)
         /\ Len(frames) = 1 => MainAt' = ip + 2
         /\ Len(frames) = 2 =>
              /\ MainAt' = MainAt
              /\ PredicateAt' = ip + 2
              /\ Predicate' = Predicate /\ PredicateDepth' = PredicateDepth
<1>1. Len(code.chunks) \in Nat /\ Len(frames) \in {1, 2} /\ Len(frames) > 0
  BY Position DEF FlowShape
<1>2. /\ Len(frames') = Len(frames)
      /\ \A i \in 1..Len(frames) - 1 : frames'[i] = frames[i]
      /\ frames'[Len(frames)].chunk = frames[Len(frames)].chunk
      /\ frames'[Len(frames)].ip = ip
  BY <1>1, MovedFrames DEF Moves, FlowShape
<1>3. ASSUME Len(frames) = 1 PROVE MainAt' = ip + 2
  BY <1>2, <1>3 DEF MainAt
<1>4. ASSUME Len(frames) = 2
      PROVE  /\ MainAt' = MainAt /\ PredicateAt' = ip + 2
             /\ frames'[2].chunk = frames[2].chunk
  <2>1. frames'[1] = frames[1]
    BY <1>2, <1>4
  <2> QED BY <1>2, <1>4, <2>1 DEF MainAt, PredicateAt
<1> QED BY <1>2, <1>3, <1>4, SameCode

(* A call starts the other chunk at its first instruction.                 *)
LEMMA CalledTo ==
  ASSUME FlowShape, Ready, Called, Len(frames) = 1, code' = code
  PROVE  /\ Len(frames') = 2 /\ MainAt' = MainAt + 1
         /\ PredicateAt' = 1
         /\ frames'[2].chunk \in 2..Len(code.chunks)
         /\ frames'[2].chunk = Instr.arg + 1
<1> DEFINE fs == WithIp(frames, Len(frames), NextIp)
           new == [chunk |-> Instr.arg + 1, ip |-> -1, returnAddr |-> NextIp]
<1>1. NextIp \in Nat /\ NextIp + 1 = MainAt /\ MainAt \in Nat
  BY Executed
<1>2. fs \in Seq(AnyFrames(Len(code.chunks))) /\ Len(fs) = 1
  <2>1. /\ Len(code.chunks) \in Nat /\ frames \in Seq(AnyFrames(Len(code.chunks)))
        /\ Len(frames) > 0 /\ NextIp \in Int
    BY <1>1, Position DEF FlowShape
  <2>2. fs \in Seq(AnyFrames(Len(code.chunks))) /\ Len(fs) = Len(frames)
    BY <1>1, <2>1, MovedFrames
  <2> QED BY <2>2
<1>3. frames' = Append(fs, new) /\ new.ip = -1 /\ new.chunk = Instr.arg + 1
  BY DEF Called
<1> HIDE DEF fs, new
<1>4. Len(frames') = 2 /\ frames'[2] = new
  <2> DEFINE Fs == AnyFrames(Len(code.chunks))
             T == Fs \cup {new}
  <2>1. fs \in Seq(Fs) /\ Fs \subseteq T /\ new \in T
    BY <1>2
  <2> HIDE DEF T, Fs
  <2>2. /\ Len(Append(fs, new)) = Len(fs) + 1
        /\ Append(fs, new)[Len(fs) + 1] = new
    BY <2>1, AppendedTo
  <2> QED BY <1>2, <1>3, <2>2
<1>5. InShape(frames') /\ frames'[1].ip = NextIp
  BY CallsKeepShape
<1>6. frames'[2].chunk \in 2..Len(code.chunks)
  BY <1>4, <1>5 DEF InShape
<1> QED BY <1>1, <1>3, <1>4, <1>5, <1>6 DEF MainAt, PredicateAt

(* A return goes on after the call.                                        *)
LEMMA ReturnedTo ==
  ASSUME FlowShape, Returned, Len(frames) = 2
  PROVE  Len(frames') = 1 /\ MainAt' = MainAt
<1>1. frames'[1].ip = frames[1].ip
  BY ReturnsKeepShape
<1>2. Len(frames') = 1
  <2> DEFINE main == SubSeq(frames, 1, Len(frames) - 1)
  <2>1. Len(main) = 1 /\ main \in Seq(AnyFrames(Len(code.chunks)))
    <3>1. /\ 1 \in Nat /\ 1 <= Len(frames) /\ Len(frames) - 1 = 1
          /\ frames \in Seq(AnyFrames(Len(code.chunks)))
      BY DEF FlowShape
    <3>2. main \in Seq(AnyFrames(Len(code.chunks))) /\ Len(main) = Len(frames) - 1
      BY <3>1, RefsInPrefix
    <3> QED BY <3>1, <3>2
  <2>2. frames' = [main EXCEPT ![1].ip = Frame.returnAddr]
    BY <2>1 DEF Returned, WithIp
  <2> HIDE DEF main
  <2> QED BY <2>1, <2>2
<1> QED BY <1>1, <1>2 DEF MainAt

-----------------------------------------------------------------------------
(* The instructions that loops are made of, and the actions of the others  *)
(* that let the run go on.                                                 *)
LoopOps == Loads \cup Tests \cup Conditional
             \cup {"JumpTo", "Call", "Return", "AddGoroutine", "NextGoroutine"}

(* The actions outside of loops.                                           *)
Others ==
  \/ Noop \/ Dup \/ LoadGoroutineDump \/ Assignment \/ AssignMulti
  \/ TempDump \/ ResetDump \/ PushDump
  \/ FuncUnion \/ FuncIntersect \/ FuncDiff \/ FuncGraph
  \/ FuncLoad \/ FuncSave \/ FuncShowDump \/ FuncExport
  \/ CommandGetWorkingDir \/ CommandListDir

(* None of those has an instruction of a loop.                             *)
LEMMA OthersAreOutside == Others => Instr.op \notin LoopOps
<1> USE Endings DEF LoopOps, Loads, Tests, Conditional, Comparisons
<1>1. Noop \/ Dup \/ LoadGoroutineDump \/ Assignment \/ AssignMulti
      => Instr.op \in {"Noop", "Dup", "LoadGoroutineDump", "Assignment"}
  BY DEF Noop, Dup, LoadGoroutineDump, Assignment, AssignMulti
<1>2. TempDump \/ ResetDump \/ PushDump
      => Instr.op \in {"TempDump", "ResetDump", "PushDump"}
  BY DEF TempDump, ResetDump, PushDump
<1>3. FuncUnion \/ FuncIntersect \/ FuncDiff \/ FuncGraph
      => \E op \in {"FuncUnion", "FuncIntersect", "FuncDiff", "FuncGraph"} : At(op)
  BY Zenon DEF FuncUnion, FuncIntersect, FuncDiff, FuncGraph
<1>4. FuncLoad \/ FuncSave \/ FuncShowDump \/ FuncExport
      => \E op \in {"FuncLoad", "FuncSave", "FuncShowDump", "FuncToJSON", "FuncToDot"} :
           At(op)
  BY Zenon DEF FuncLoad, FuncSave, FuncShowDump, FuncExport
<1>5. CommandGetWorkingDir \/ CommandListDir
      => Instr.op \in {"CommandGetWorkingDir", "CommandListDir"}
  BY DEF CommandGetWorkingDir, CommandListDir
<1>6. \A op \in {"FuncUnion", "FuncIntersect", "FuncDiff", "FuncGraph", "FuncLoad",
                 "FuncSave", "FuncShowDump", "FuncToJSON", "FuncToDot"} :
        At(op) => Instr.op \notin LoopOps
  OBVIOUS
<1>7. Instr.op \in {"Noop", "Dup", "LoadGoroutineDump", "Assignment", "TempDump",
                   "ResetDump", "PushDump", "CommandGetWorkingDir", "CommandListDir"}
      => Instr.op \notin LoopOps
  OBVIOUS
<1> HIDE DEF LoopOps
<1>8. CASE \/ Noop \/ Dup \/ LoadGoroutineDump \/ Assignment \/ AssignMulti
           \/ TempDump \/ ResetDump \/ PushDump
           \/ CommandGetWorkingDir \/ CommandListDir
  BY <1>1, <1>2, <1>5, <1>7, <1>8
<1>9. CASE \/ FuncUnion \/ FuncIntersect \/ FuncDiff \/ FuncGraph
           \/ FuncLoad \/ FuncSave \/ FuncShowDump \/ FuncExport
  BY <1>3, <1>4, <1>6, <1>9
<1> QED BY <1>8, <1>9, Zenon DEF Others

(* A run that goes on performed the action of its instruction.             *)
LEMMA Performed ==
  ASSUME Execute \/ Interrupt, status' = "running"
  PROVE  \/ Instr.op \in {"LoadNumber", "LoadString"} /\ LoadConstant
         \/ Instr.op = "PushBool" /\ PushBool
         \/ Instr.op = "LoadFieldAccessor" /\ LoadFieldAccessor
         \/ Instr.op \in Comparisons /\ Comparison
         \/ Instr.op \in {"Contains", "In"} /\ ContainsOrIn
         \/ Instr.op \in {"RegexMatches", "RegexNotMatches"} /\ RegexMatches
         \/ Instr.op \in Conditional /\ ConditionalJump
         \/ Instr.op = "JumpTo" /\ JumpTo
         \/ Instr.op = "Call" /\ Call
         \/ Instr.op = "Return" /\ Return
         \/ Instr.op = "AddGoroutine" /\ AddGoroutine
         \/ Instr.op = "NextGoroutine" /\ NextGoroutine
         \/ Instr.op \notin LoopOps /\ Others
<1> USE Endings
<1>1. ~(BadOperands \/ BadConstant \/ OutOfGas \/ Halt \/ Interrupt)
  <2>1. BadOperands \/ BadConstant \/ OutOfGas \/ Halt => Crash \/ \E e : Fail(e)
    BY Zenon DEF BadOperands, BadConstant, OutOfGas, Halt
  <2>2. Interrupt => status' # "running"
    BY DEF Interrupt
  <2> QED BY <2>1, <2>2 DEF Crash, Fail
<1>2. ~(CommandChangeDir \/ CommandEmpty \/ CommandQuit \/ CommandHelp
          \/ CommandVars \/ CommandGetPragma \/ CommandSetPragma)
  <2>1. CommandChangeDir \/ CommandEmpty \/ CommandQuit \/ CommandHelp
          \/ CommandVars \/ CommandGetPragma \/ CommandSetPragma
        => Crash \/ \E e : Fail(e)
    BY Zenon DEF CommandChangeDir, CommandEmpty, CommandQuit, CommandHelp,
                 CommandVars, CommandGetPragma, CommandSetPragma
  <2> QED BY <2>1 DEF Crash, Fail
<1>3. /\ LoadConstant => Instr.op \in {"LoadNumber", "LoadString"}
      /\ PushBool => Instr.op = "PushBool"
      /\ LoadFieldAccessor => Instr.op = "LoadFieldAccessor"
      /\ Comparison => Instr.op \in Comparisons
      /\ ContainsOrIn => Instr.op \in {"Contains", "In"}
      /\ RegexMatches => Instr.op \in {"RegexMatches", "RegexNotMatches"}
  BY DEF LoadConstant, PushBool, LoadFieldAccessor, Comparison, ContainsOrIn, RegexMatches
<1>4. /\ ConditionalJump => Instr.op \in Conditional
      /\ JumpTo => Instr.op = "JumpTo"
      /\ Call => Instr.op = "Call"
      /\ Return => Instr.op = "Return"
      /\ AddGoroutine => Instr.op = "AddGoroutine"
      /\ NextGoroutine => Instr.op = "NextGoroutine"
  BY DEF ConditionalJump, Conditional, JumpTo, Call, Return, AddGoroutine, NextGoroutine
<1>5. Others => Instr.op \notin LoopOps
  BY OthersAreOutside
<1> QED BY <1>1, <1>2, <1>3, <1>4, <1>5, Zenon DEF Execute, Others

(* Only Goroutine makes values with that tag.                              *)
LEMMA TagsOfValues ==
  /\ \A b : Bool(b).tag # "goroutine"
  /\ \A n : Number(n).tag # "goroutine"
  /\ \A x : Str(x).tag # "goroutine"
  /\ \A ls : Map(ls).tag # "goroutine"
  /\ \A r : Dump(r).tag # "goroutine"
  /\ \A l, c, r : Diff(l, c, r).tag # "goroutine"
BY DEF Bool, Number, Str, Map, Dump, Diff

(* A known field has a value, which is no goroutine.                       *)
LEMMA TagsOfFields ==
  ASSUME NEW g, NEW name
  PROVE  /\ Field(g, name) # <<>> => Field(g, name)[1].tag # "goroutine"
         /\ name \in KnownFields => Field(g, name) # <<>>
<1>1. Field(g, name) # <<>> => Field(g, name)[1].tag # "goroutine"
  BY TagsOfValues DEF Field
<1>2. name \in KnownFields => Field(g, name) # <<>>
  BY DEF Field, KnownFields
<1> QED BY <1>1, <1>2

(* What an instruction does with the stack, unless it ends the run: it     *)
(* leaves it, or replaces n values by none or by one that is no goroutine. *)
Shrinks(n) == n \in Nat /\ n <= Len(stack) /\ Advance(Rest(n))
Grows(v) == v.tag # "goroutine" /\ Push(stack, v)
Replaces(n, v) == n \in Nat /\ n <= Len(stack) /\ v.tag # "goroutine" /\ Push(Rest(n), v)

(* All of these.                                                           *)
Works ==
  \/ Advance(stack)
  \/ \E n : Shrinks(n)
  \/ \E v : Grows(v)
  \/ \E n, v : Replaces(n, v)
  \/ Crash \/ \E e : Fail(e)

(* Loads add one operand, except for fields that no goroutine has.         *)
LEMMA LoadsWork ==
  /\ LoadConstant \/ PushBool => \E v : Grows(v)
  /\ LoadFieldAccessor => Works
  /\ LoadFieldAccessor /\ Constant.str \in KnownFields => (\E v : Grows(v)) \/ \E e : Fail(e)
<1>1. ASSUME LoadConstant PROVE \E v : Grows(v)
  <2>1. HasConstant /\ Instr.op \in {"LoadNumber", "LoadString"}
    BY <1>1 DEF LoadConstant, At, Fetches
  <2>2. Constant.tag # "goroutine"
    BY <2>1 DEF HasConstant, ConstantTags
  <2> QED BY <1>1, <2>2, Zenon DEF LoadConstant, Grows
<1>2. ASSUME PushBool PROVE \E v : Grows(v)
  BY <1>2, TagsOfValues, Zenon DEF PushBool, Grows
<1>3. ASSUME LoadFieldAccessor
      PROVE  Works /\ (Constant.str \in KnownFields => (\E v : Grows(v)) \/ \E e : Fail(e))
  BY <1>3, TagsOfFields, Zenon DEF LoadFieldAccessor, Works, Grows
<1> QED BY <1>1, <1>2, <1>3

(* Tests replace two operands by one.                                      *)
LEMMA TestsWork ==
  Comparison \/ ContainsOrIn \/ RegexMatches
    => (\E v : Replaces(2, v)) \/ Crash \/ \E e : Fail(e)
<1>1. Comparison \/ ContainsOrIn \/ RegexMatches => 2 \in Nat /\ 2 <= Len(stack)
  BY Popped DEF Comparison, ContainsOrIn, RegexMatches
<1>2. Comparison => (\E v : v.tag # "goroutine" /\ Push(Rest(2), v)) \/ \E e : Fail(e)
  BY TagsOfValues, Zenon DEF Comparison
<1>3. ContainsOrIn => (\E v : v.tag # "goroutine" /\ Push(Rest(2), v)) \/ \E e : Fail(e)
  BY TagsOfValues, Zenon DEF ContainsOrIn
<1>4. RegexMatches => (\E v : v.tag # "goroutine" /\ Push(Rest(2), v)) \/ \E e : Fail(e)
  BY TagsOfValues, Zenon DEF RegexMatches
<1> QED BY <1>1, <1>2, <1>3, <1>4, Zenon DEF Replaces

(* The other instructions handle no goroutines on the stack.               *)
LEMMA OthersWork ==
  ASSUME StackShape, Silent(stack), Others
  PROVE  Works
<1>1. CASE Noop \/ CommandGetWorkingDir \/ CommandListDir \/ TempDump
  BY <1>1, Zenon DEF Noop, CommandGetWorkingDir, CommandListDir, TempDump, Works
<1>2. CASE Dup
  <2>1. 1 \in 1..Len(stack)
    BY <1>2, Popped DEF Dup, StackShape
  <2>2. Len(stack) + 1 - 1 \in DOMAIN stack
    BY <2>1 DEF StackShape
  <2>3. Nth(1).tag # "goroutine"
    BY <2>2 DEF Silent, Nth
  <2> QED BY <1>2, <2>3, Zenon DEF Dup, Works, Grows
<1>3. CASE LoadGoroutineDump
  <2>1. \A v : v.tag = "dump" => v.tag # "goroutine"
    OBVIOUS
  <2> QED BY <1>3, <2>1, Zenon DEF LoadGoroutineDump, Works, Grows
<1>4. CASE Assignment \/ AssignMulti
  BY <1>4, Zenon DEF Assignment, AssignMulti, Works
<1>5. CASE ResetDump \/ PushDump
  BY <1>5, TagsOfValues, Zenon DEF ResetDump, PushDump, Works, Grows
<1>6. CASE FuncUnion \/ FuncIntersect \/ FuncDiff \/ FuncGraph
  <2>1. 2 \in Nat /\ 2 <= Len(stack)
    BY <1>6, Popped DEF FuncUnion, FuncIntersect, FuncDiff, FuncGraph
  <2>2. \E v : v.tag # "goroutine" /\ Push(Rest(2), v)
    BY <1>6, TagsOfValues, Zenon DEF FuncUnion, FuncIntersect, FuncDiff, FuncGraph, PushNew
  <2> QED BY <2>1, <2>2, Zenon DEF Works, Replaces
<1>7. CASE FuncLoad
  <2>1. 1 \in Nat /\ 1 <= Len(stack)
    BY <1>7, Popped DEF FuncLoad
  <2>2. (\E v : v.tag # "goroutine" /\ Push(Rest(1), v)) \/ \E e : Fail(e)
    BY <1>7, TagsOfValues, Zenon DEF FuncLoad, PushNew
  <2> QED BY <2>1, <2>2, Zenon DEF Works, Replaces
<1>8. CASE FuncSave \/ FuncShowDump \/ FuncExport
  <2>1. 1 \in Nat /\ 2 \in Nat /\ 1 <= Len(stack) /\ 2 <= Len(stack)
    BY <1>8, Popped DEF FuncSave, FuncShowDump, FuncExport, StackShape
  <2>2. Advance(Rest(1)) \/ Advance(Rest(2)) \/ \E e : Fail(e)
    BY <1>8, Zenon DEF FuncSave, FuncShowDump, FuncExport
  <2> QED BY <2>1, <2>2, Zenon DEF Works, Shrinks
<1> QED BY <1>1, <1>2, <1>3, <1>4, <1>5, <1>6, <1>7, <1>8 DEF Others

(* Outside of loops no instruction puts a goroutine on the stack.          *)
LEMMA WorksInSilence ==
  ASSUME StackShape, Silent(stack), Works, status' = "running"
  PROVE  Silent(stack') /\ Moves(NextIp)
<1>1. ~Crash /\ \A e : ~Fail(e)
  BY DEF Crash, Fail
<1>2. Silent(stack')
  BY <1>1, SilentStacks, Zenon DEF Works, Shrinks, Grows, Replaces
<1>3. \A s : Advance(s) => Moves(NextIp)
  BY Zenon DEF Advance, GoTo, Moves, WithIp
<1>4. \A s, v : Push(s, v) => Moves(NextIp)
  BY <1>1, <1>3, Zenon DEF Push
<1> QED BY <1>1, <1>2, <1>3, <1>4, Zenon DEF Works, Shrinks, Grows, Replaces

-----------------------------------------------------------------------------
(* What the instructions of a predicate do with the stack of a loop.       *)
SameDumps == heap' = heap /\ regGoroutine' = regGoroutine /\ regDumpDst' = regDumpDst

(* The depth that the text says is the one that comes about.               *)
LEMMA Evaluated ==
  ASSUME StackShape, NEW m, Walks(m), NEW depth \in Nat, Len(stack) = m + depth,
         Execute \/ Interrupt, status' = "running",
         NEW ops, NEW ds, NEW i, Instr = ops[i], ds[i] = depth,
         Evaluates(code, ops, ds, i)
  PROVE  /\ SameDumps
         /\ \/ /\ Moves(NextIp) /\ Instr.op # "JumpTo"
               /\ DepthAfter(Instr.op, depth) \in Nat
               /\ Topped(m, DepthAfter(Instr.op, depth))
            \/ /\ Moves(Instr.arg - 1) /\ Instr.op \in Conditional
               /\ depth - 1 \in Nat /\ Topped(m, depth - 1)
            \/ /\ Moves(Instr.arg - 1) /\ Instr.op = "JumpTo"
               /\ Topped(m, depth)
<1> USE DEF registers
<1>0. ~Crash /\ \A e : ~Fail(e)
  BY DEF Crash, Fail
<1>1. /\ Instr.op \in Loads \cup Tests \cup Conditional \cup {"JumpTo"}
      /\ Instr.op \in Tests => depth >= 2
      /\ Instr.op \in Conditional => depth >= 1
      /\ Instr.op = "LoadFieldAccessor" => Constant.str \in KnownFields
  BY DEF Evaluates, Constant
<1>2. /\ \A s : Advance(s) => Moves(NextIp)
      /\ \A ip, s : GoTo(ip, s) => Moves(ip)
      /\ \A s, v : Push(s, v) => Moves(NextIp)
  <2>1. \A ip, s : GoTo(ip, s) => Moves(ip)
    BY Zenon DEF GoTo, Moves, WithIp
  <2>2. \A s : Advance(s) => Moves(NextIp)
    BY <2>1, Zenon DEF Advance
  <2> QED BY <1>0, <2>1, <2>2, Zenon DEF Push
<1>3. CASE Instr.op \in Loads
  <2>1. (LoadConstant \/ PushBool) \/ LoadFieldAccessor
    BY <1>3, Performed DEF Loads, LoopOps, Tests, Conditional, Comparisons
  <2>2. \E v : Grows(v)
    <3>1. CASE LoadConstant \/ PushBool
      BY <3>1, LoadsWork
    <3>2. CASE LoadFieldAccessor
      <4>1. Instr.op = "LoadFieldAccessor"
        BY <3>2 DEF LoadFieldAccessor, At
      <4> QED BY <1>0, <1>1, <3>2, <4>1, LoadsWork
    <3> QED BY <2>1, <3>1, <3>2
  <2>3. Moves(NextIp) /\ Topped(m, depth + 1)
    BY <1>2, <2>2, ToppedStacks, Zenon DEF Grows
  <2>4. SameDumps
    BY <2>1 DEF SameDumps, LoadConstant, PushBool, LoadFieldAccessor
  <2>5. DepthAfter(Instr.op, depth) = depth + 1 /\ Instr.op # "JumpTo"
    BY <1>3 DEF DepthAfter, Loads
  <2> QED BY <2>3, <2>4, <2>5
<1>4. CASE Instr.op \in Tests
  <2>1. Comparison \/ ContainsOrIn \/ RegexMatches
    BY <1>4, Performed DEF Loads, LoopOps, Tests, Conditional, Comparisons
  <2>2. \E v : Replaces(2, v)
    BY <1>0, <2>1, TestsWork
  <2>3. 2 \in 0..depth /\ depth - 2 + 1 = depth - 1 /\ depth - 1 \in Nat
    BY <1>1, <1>4
  <2>4. Moves(NextIp) /\ Topped(m, depth - 2 + 1)
    BY <1>2, <2>2, <2>3, ToppedStacks, Zenon DEF Replaces
  <2>5. SameDumps
    BY <2>1 DEF SameDumps, Comparison, ContainsOrIn, RegexMatches
  <2>6. DepthAfter(Instr.op, depth) = depth - 1 /\ Instr.op # "JumpTo"
    BY <1>4 DEF DepthAfter, Loads, Tests, Comparisons
  <2> QED BY <2>3, <2>4, <2>5, <2>6
<1>5. CASE Instr.op \in Conditional
  <2>1. ConditionalJump
    BY <1>5, Performed DEF Loads, LoopOps, Tests, Conditional, Comparisons
  <2>2. 1 \in 0..depth /\ depth - 1 \in Nat
    BY <1>1, <1>5
  <2>3. GoTo(Instr.arg - 1, Rest(1)) \/ GoTo(NextIp, Rest(1))
    BY <2>1, Zenon DEF ConditionalJump, Advance
  <2>4. Topped(m, depth - 1)
    BY <2>2, <2>3, ToppedStacks, Zenon
  <2>5. Moves(Instr.arg - 1) \/ Moves(NextIp)
    BY <1>2, <2>3, Zenon
  <2>6. SameDumps
    BY <2>1 DEF SameDumps, ConditionalJump
  <2>7. DepthAfter(Instr.op, depth) = depth - 1 /\ Instr.op # "JumpTo"
    BY <1>5 DEF DepthAfter, Loads, Tests, Comparisons, Conditional
  <2> QED BY <1>5, <2>2, <2>4, <2>5, <2>6, <2>7
<1>6. CASE Instr.op = "JumpTo"
  <2>1. JumpTo
    BY <1>6, Performed DEF Loads, LoopOps, Tests, Conditional, Comparisons
  <2>2. GoTo(Instr.arg - 1, stack) /\ SameDumps
    BY <2>1 DEF JumpTo, SameDumps
  <2>3. Moves(Instr.arg - 1)
    BY <1>2, <2>2, Zenon
  <2>4. Topped(m, depth)
    <3>1. stack' = stack
      BY <2>2 DEF GoTo
    <3> QED BY <3>1, ToppedStacks
  <2> QED BY <1>6, <2>2, <2>3, <2>4
<1> QED BY <1>1, <1>3, <1>4, <1>5, <1>6

(* The loop goes on with the same goroutine.                               *)
LEMMA KeepsIterating ==
  ASSUME StackShape, NEW m, Walks(m), NEW depth \in Nat, Topped(m, depth),
         SameDumps, NEW pending, Collected(m, Walked(m).iterIndex - pending)
  PROVE  Iterating(depth, pending)'
<1>1. Walks(m)' /\ Walked(m)' = Walked(m)
  BY StillWalks DEF SameDumps
<1>2. Kept' = Kept
  BY DEF Kept, SameDumps
<1>3. Collected(m, Walked(m).iterIndex - pending)'
  BY <1>1, <1>2 DEF Collected, Rising
<1>4. m \in Nat /\ Len(stack') = m + depth
  BY DEF Walks, Topped, StackShape
<1> QED BY <1>1, <1>3, <1>4 DEF Iterating

(* What was collected before this goroutine was collected up to it.        *)
LEMMA CollectedBefore ==
  ASSUME NEW m, Walks(m), Collected(m, Walked(m).iterIndex - 1)
  PROVE  Collected(m, Walked(m).iterIndex - 0)
<1>1. PICK at : Rising(at, Kept, Walked(m).goroutines, Walked(m).iterIndex - 1)
  BY DEF Collected
<1>2. 1..(Walked(m).iterIndex - 1) \subseteq 1..(Walked(m).iterIndex - 0)
  BY DEF Walks
<1>3. Rising(at, Kept, Walked(m).goroutines, Walked(m).iterIndex - 0)
  BY <1>1, <1>2 DEF Rising
<1> QED BY <1>3 DEF Collected

(* How the machine comes to a place of the first chunk within a loop.      *)
LEMMA Arrives ==
  ASSUME code' = code, Len(frames') = 1, NEW t, MainAt' = t, t \in DOMAIN MainDepth,
         NEW depth \in Nat,
         IF IsNext(Main, t) THEN depth = 0 ELSE MainDepth[t] = depth,
         Iterating(depth, 1)' /\ Iterating(depth, 0)'
  PROVE  LoopState'
<1>1. Main' = Main /\ MainDepth' = MainDepth
  BY SameCode
<1>2. CASE IsNext(Main, t)
  <2>1. IsNext(Main, MainAt)'
    BY <1>1, <1>2 DEF IsNext
  <2>2. Iterating(0, 0)'
    BY <1>2
  <2> QED BY <2>1, <2>2 DEF LoopState, GoingOn
<1>3. CASE ~IsNext(Main, t)
  <2>1. ~IsNext(Main, MainAt)'
    BY <1>1, <1>3 DEF IsNext
  <2>2. MainDepth'[MainAt'] = depth /\ MainAt' \in DOMAIN MainDepth'
    BY <1>1, <1>3
  <2>3. Iterating(MainDepth[MainAt], IF Added THEN 0 ELSE 1)'
    BY <2>2 DEF Iterating
  <2> QED BY <2>1, <2>2, <2>3 DEF LoopState, InBody
<1> QED BY <1>2, <1>3

-----------------------------------------------------------------------------
(* One instruction of a source that goes on.                               *)
Stepping ==
  /\ IInv /\ WellStacked(code)
  /\ Execute \/ Interrupt
  /\ code' = code /\ status' = "running"

(* What it starts from.                                                    *)
LEMMA SteppingIs ==
  ASSUME Stepping
  PROVE  Ready /\ FlowShape /\ Private /\ StackShape
BY Controlled DEF Stepping, Control, Flow, Ready, IInv, Shapes

(* In a predicate the depth follows the text, to the Return with one       *)
(* operand.                                                                *)
LEMMA StepInPredicate ==
  ASSUME Stepping, InPredicate
  PROVE  LoopState'
<1>0. /\ Ready /\ FlowShape /\ StackShape /\ WellStacked(code)
      /\ Execute \/ Interrupt
      /\ code' = code /\ status' = "running"
      /\ Len(frames) = 2
  BY SteppingIs DEF Stepping, InPredicate
<1> DEFINE i == PredicateAt
           depth == PredicateDepth[i]
<1>1. /\ i \in DOMAIN Predicate /\ i \in Nat /\ NextIp + 1 = i /\ Instr = Predicate[i]
      /\ NextIp \in Nat /\ Instr.arg \in Nat
  BY <1>0, Executed
<1>2. /\ DOMAIN PredicateDepth = 1..(Len(Predicate) + 1)
      /\ DOMAIN Predicate = 1..Len(Predicate) /\ Len(Predicate) \in Nat
      /\ \A j \in DOMAIN Predicate :
              \/ Evaluates(code, Predicate, PredicateDepth, j)
              \/ Predicate[j].op = "Return" /\ PredicateDepth[j] = 1
      /\ PredicateDepth[i + 1] = DepthAfter(Instr.op, depth)
  BY <1>0, <1>1, PredicateStacked
<1>3. PICK m \in Nat :
        Walks(m) /\ Len(stack) = m + depth /\ Collected(m, Walked(m).iterIndex - 1)
  BY DEF InPredicate, Iterating
<1>4. depth \in Nat
  <2>1. depth \in Int /\ depth >= -1
    BY <1>0, <1>1, <1>2, PredicateStacked
  <2>2. depth >= 0
    BY <1>0, <1>3, <2>1 DEF Walks, StackShape
  <2> QED BY <2>1, <2>2
<1>5. Collected(m, Walked(m).iterIndex - 0)
  BY <1>3, CollectedBefore
<1>6. ASSUME NEW ip \in Int, Moves(ip), ip + 2 \in DOMAIN PredicateDepth,
             NEW d \in Nat, PredicateDepth[ip + 2] = d, Topped(m, d), SameDumps
      PROVE  LoopState'
  <2>1. Iterating(d, 1)'
    BY <1>0, <1>3, <1>6, KeepsIterating
  <2>2. /\ Len(frames') = 2 /\ MainAt' = MainAt /\ PredicateAt' = ip + 2
        /\ PredicateDepth' = PredicateDepth
    BY <1>0, <1>6, MovedTo
  <2>3. Main' = Main /\ MainDepth' = MainDepth
    BY <1>0, SameCode
  <2>4. Iterating(PredicateDepth[PredicateAt], 1)'
    BY <1>6, <2>1, <2>2 DEF Iterating
  <2>5. InPredicate'
    BY <1>6, <2>2, <2>3, <2>4 DEF InPredicate
  <2> QED BY <2>5 DEF LoopState
<1>7. CASE Evaluates(code, Predicate, PredicateDepth, i)
  <2>1. /\ SameDumps
        /\ \/ /\ Moves(NextIp) /\ Instr.op # "JumpTo"
              /\ DepthAfter(Instr.op, depth) \in Nat
              /\ Topped(m, DepthAfter(Instr.op, depth))
           \/ /\ Moves(Instr.arg - 1) /\ Instr.op \in Conditional
              /\ depth - 1 \in Nat /\ Topped(m, depth - 1)
           \/ /\ Moves(Instr.arg - 1) /\ Instr.op = "JumpTo"
              /\ Topped(m, depth)
    BY <1>0, <1>1, <1>3, <1>4, <1>7, Evaluated
  <2>2. CASE /\ Moves(NextIp)
             /\ DepthAfter(Instr.op, depth) \in Nat
             /\ Topped(m, DepthAfter(Instr.op, depth))
    <3>1. NextIp \in Int /\ NextIp + 2 = i + 1 /\ NextIp + 2 \in DOMAIN PredicateDepth
      BY <1>1, <1>2
    <3> QED BY <1>2, <1>6, <2>1, <2>2, <3>1
  <2>3. ASSUME Instr.op \in Conditional \cup {"JumpTo"}, Moves(Instr.arg - 1),
               NEW left \in Nat, Topped(m, left),
               left = IF Instr.op \in Conditional THEN depth - 1 ELSE depth
        PROVE  LoopState'
    <3>1. Lands(Predicate, PredicateDepth, i)
      BY <1>1, <1>7, <2>3 DEF Evaluates
    <3>2. ~IsNext(Predicate, Instr.arg + 1)
      BY <1>2 DEF IsNext, Evaluates, Loads, Tests, Comparisons, Conditional
    <3>3. Instr.arg - 1 \in Int /\ Instr.arg - 1 + 2 = Instr.arg + 1
      BY <1>1
    <3>4. /\ Instr.arg + 1 \in DOMAIN PredicateDepth
          /\ PredicateDepth[Instr.arg + 1] = left
      BY <1>1, <1>2, <2>3, <3>1, <3>2 DEF Lands
    <3> QED BY <1>6, <2>1, <2>3, <3>3, <3>4
  <2> QED BY <1>4, <2>1, <2>2, <2>3 DEF Conditional
<1>8. CASE Instr.op = "Return" /\ depth = 1
  <2>1. Return
    BY <1>0, <1>8, Performed
       DEF LoopOps, Loads, Tests, Conditional, Comparisons
  <2>2. Returned /\ stack' = stack /\ SameDumps
    <3>1. ~Crash
      BY <1>0 DEF Crash
    <3>2. Returned
      BY <1>8, <2>1, <3>1, Zenon DEF Return, Returned, WithIp
    <3>3. stack' = stack
      BY <2>1, <3>1 DEF Return
    <3>4. SameDumps
      BY <2>1 DEF Return, SameDumps, registers
    <3> QED BY <3>2, <3>3, <3>4
  <2>3. Len(frames') = 1 /\ MainAt' = MainAt
    BY <1>0, <2>2, ReturnedTo
  <2>4. Topped(m, 1)
    BY <1>0, <1>3, <1>8, <2>2, ToppedStacks
  <2>5. Iterating(1, 1)' /\ Iterating(1, 0)'
    BY <1>0, <1>3, <1>5, <2>2, <2>4, KeepsIterating
  <2>6. ~IsNext(Main, MainAt)
    BY <1>0, MainStacked DEF InPredicate, IsNext, StackedLoop
  <2>7. MainAt \in DOMAIN MainDepth /\ MainDepth[MainAt] = 1
    <3>1. /\ MainAt - 1 \in DOMAIN Main /\ Main[MainAt - 1].op = "Call"
          /\ MainDepth[MainAt - 1] = 0 /\ MainAt \in DOMAIN MainDepth
      BY DEF InPredicate
    <3>2. MainAt - 1 + 1 = MainAt
      BY <1>0, <3>1, MainStacked
    <3>3. MainDepth[MainAt] = DepthAfter("Call", 0)
      BY <1>0, <3>1, <3>2, MainStacked
    <3> QED BY <3>1, <3>3 DEF DepthAfter
  <2> QED BY <1>0, <2>3, <2>5, <2>6, <2>7, Arrives
<1> QED BY <1>1, <1>2, <1>7, <1>8

(* One more goroutine is kept, the one the loop is at.                     *)
LEMMA RisesOn ==
  ASSUME NEW S, NEW kept \in Seq(S), NEW gs, NEW k \in Nat \ {0},
         NEW at, Rising(at, kept, gs, k - 1)
  PROVE  /\ Append(kept, gs[k]) \in Seq(S \cup {gs[k]})
         /\ \E on : Rising(on, Append(kept, gs[k]), gs, k)
<1> DEFINE more == Append(kept, gs[k])
           on == [i \in 1..(Len(kept) + 1) |-> IF i = Len(kept) + 1 THEN k ELSE at[i]]
<1>1. /\ more \in Seq(S \cup {gs[k]}) /\ Len(more) = Len(kept) + 1
      /\ \A i \in 1..Len(kept) : more[i] = kept[i]
      /\ more[Len(kept) + 1] = gs[k]
  BY AppendedTo
<1>2. Len(kept) \in Nat
  OBVIOUS
<1>3. /\ at \in [1..Len(kept) -> 1..(k - 1)]
      /\ \A i \in 1..Len(kept) : kept[i] = gs[at[i]]
      /\ \A i, j \in 1..Len(kept) : i < j => at[i] < at[j]
  BY DEF Rising
<1>4. \A i \in 1..Len(kept) : at[i] \in 1..(k - 1) /\ on[i] = at[i]
  BY <1>2, <1>3
<1>5. on[Len(kept) + 1] = k
  BY <1>2
<1>6. on \in [1..Len(more) -> 1..k]
  <2>1. k \in 1..k /\ 1..(k - 1) \subseteq 1..k
    OBVIOUS
  <2>2. \A i \in 1..(Len(kept) + 1) : i \in 1..Len(kept) \/ i = Len(kept) + 1
    BY <1>2
  <2>3. \A i \in 1..(Len(kept) + 1) : on[i] \in 1..k
    BY <1>4, <1>5, <2>1, <2>2
  <2>4. DOMAIN on = 1..(Len(kept) + 1) /\ on = [i \in DOMAIN on |-> on[i]]
    OBVIOUS
  <2> HIDE DEF on, more
  <2> QED BY <1>1, <2>3, <2>4
<1> HIDE DEF more, on
<1>7. \A i \in 1..Len(more) : i \in 1..Len(kept) \/ i = Len(kept) + 1
  BY <1>1, <1>2
<1>8. \A i \in 1..Len(more) : more[i] = gs[on[i]]
  BY <1>1, <1>3, <1>4, <1>5, <1>7
<1>9. \A i, j \in 1..Len(more) : i < j => on[i] < on[j]
  <2> SUFFICES ASSUME NEW i \in 1..Len(more), NEW j \in 1..Len(more), i < j
               PROVE  on[i] < on[j]
    OBVIOUS
  <2>1. i \in 1..Len(kept)
    BY <1>1, <1>2
  <2>2. CASE j \in 1..Len(kept)
    BY <1>3, <1>4, <2>1, <2>2
  <2>3. CASE j = Len(kept) + 1
    <3>1. on[i] \in 1..(k - 1)
      BY <1>4, <2>1
    <3> QED BY <1>5, <2>3, <3>1
  <2> QED BY <1>7, <2>2, <2>3
<1>10. Rising(on, more, gs, k)
  BY <1>6, <1>8, <1>9 DEF Rising
<1> QED BY <1>1, <1>10 DEF more

(* The dump that was added to.                                             *)
LEMMA DumpCollected ==
  ASSUME HeapShape, NEW r \in 1..Len(heap), NEW gs,
         heap' = [heap EXCEPT ![r].goroutines = gs]
  PROVE  heap'[r].goroutines = gs
<1> PICK A, B, C : heap \in HeapOver(A, B, C)
  BY DEF HeapShape
<1> DEFINE R == [goroutines : A, iterIndex : B, isIndexed : C]
<1>1. heap \in Seq(R) /\ DOMAIN heap = 1..Len(heap)
  BY DEF HeapOver
<1>2. heap[r] \in R
  <2>1. \A T : heap \in Seq(T) => heap[r] \in T
    OBVIOUS
  <2> QED BY <1>1, <2>1, Zenon
<1>3. \A d \in R : [d EXCEPT !.goroutines = gs].goroutines = gs
  OBVIOUS
<1>4. heap'[r] = [heap[r] EXCEPT !.goroutines = gs]
  BY <1>1
<1> QED BY <1>2, <1>3, <1>4

(* The dump that a loop walks is not the one it collects into.             *)
LEMMA WalkedIsUsed ==
  ASSUME Shapes, NEW m, Walks(m)
  PROVE  /\ m \in Nat /\ stack[m - 1].ref \in InUse
         /\ stack[m - 1].ref \in 1..Len(heap)
<1>1. m \in Nat /\ m - 1 \in DOMAIN stack
  BY DEF Walks, Shapes, StackShape
<1>2. RefsOf(stack[m - 1]) = {stack[m - 1].ref}
  BY RefsOfTagged DEF Walks
<1>3. stack[m - 1].ref \in RefsIn(stack)
  BY <1>1, <1>2, RefsOfElement
<1> QED BY <1>1, <1>3 DEF Shapes, InUse

(* AddGoroutine keeps the goroutine the loop is at, in another dump.       *)
LEMMA StepAdding ==
  ASSUME Stepping, InFilter, AddGoroutine, NEW m, Walks(m), Len(stack) = m,
         Collected(m, Walked(m).iterIndex - 1)
  PROVE  Iterating(0, 0)' /\ Moves(NextIp)
<1> USE DEF registers
<1>0. /\ Shapes /\ HeapShape /\ StackShape /\ Private
      /\ regDumpDst \in 0..Len(heap) /\ status' = "running"
  BY SteppingIs DEF Stepping, IInv, Shapes
<1>1. /\ heap' = [heap EXCEPT ![regDumpDst].goroutines = Append(@, regGoroutine)]
      /\ Advance(stack)
      /\ regDumpDst' = regDumpDst /\ regGoroutine' = regGoroutine
  <2>1. ~Crash
    BY <1>0 DEF Crash
  <2> QED BY <2>1 DEF AddGoroutine
<1>2. regDumpDst \in 1..Len(heap) /\ regDumpDst \notin InUse
  BY <1>0, HeapLength DEF Private
<1> DEFINE gs == Append(Kept, regGoroutine)
<1>3. heap' = [heap EXCEPT ![regDumpDst].goroutines = gs]
  BY <1>1 DEF Kept
<1>4. m \in Nat /\ stack[m - 1].ref \in InUse /\ stack[m - 1].ref \in 1..Len(heap)
  BY <1>0, WalkedIsUsed
<1> HIDE DEF gs
<1>5. heap'[stack[m - 1].ref] = heap[stack[m - 1].ref] /\ heap'[regDumpDst].goroutines = gs
  BY <1>0, <1>2, <1>3, <1>4, HeapCollected, DumpCollected
<1>6. stack' = stack /\ Moves(NextIp)
  BY <1>1, Zenon DEF Advance, GoTo, Moves, WithIp
<1>7. Topped(m, 0)
  BY <1>0, <1>4, <1>6, ToppedStacks
<1>8. Walks(m)' /\ Walked(m)' = Walked(m)
  BY <1>0, <1>1, <1>5, <1>7, StillWalks
<1>9. Kept' = gs
  BY <1>1, <1>5 DEF Kept
<1> DEFINE k == Walked(m).iterIndex
           ws == Walked(m).goroutines
<1>10. k \in Nat \ {0} /\ ws[k] = regGoroutine
  BY DEF Walks
<1>11. PICK S : Kept \in Seq(S)
  BY DEF Collected
<1>12. PICK at : Rising(at, Kept, ws, k - 1)
  BY DEF Collected
<1> HIDE DEF k, ws
<1>13. (\E T : gs \in Seq(T)) /\ \E on : Rising(on, gs, ws, k)
  BY <1>10, <1>11, <1>12, RisesOn DEF gs
<1>14. k - 0 = k
  BY <1>10
<1>15. Collected(m, Walked(m).iterIndex - 0)'
  <2>1. (\E T : Kept \in Seq(T))'
    BY <1>9, <1>13
  <2>2. (\E on : Rising(on, Kept, Walked(m).goroutines, Walked(m).iterIndex - 0))'
    <3>1. PICK on : Rising(on, gs, ws, k)
      BY <1>13
    <3>2. Rising(on, gs, ws, k - 0)
      BY <1>14, <3>1
    <3>3. Rising(on, Kept', Walked(m)'.goroutines, Walked(m)'.iterIndex - 0)
      BY <1>8, <1>9, <3>2 DEF k, ws
    <3> QED BY <3>3 DEF Rising
  <2> QED BY <2>1, <2>2 DEF Collected
<1>16. Len(stack') = m + 0
  BY <1>4, <1>6
<1> QED BY <1>4, <1>6, <1>8, <1>15, <1>16 DEF Iterating

(* Between the instructions of a loop.                                     *)
LEMMA StepInBody ==
  ASSUME Stepping, InBody
  PROVE  LoopState'
<1>0. /\ Ready /\ FlowShape /\ StackShape /\ WellStacked(code)
      /\ Execute \/ Interrupt
      /\ code' = code /\ status' = "running"
      /\ Len(frames) = 1
  BY SteppingIs DEF Stepping, InBody
<1> DEFINE i == MainAt
           depth == MainDepth[i]
           pending == IF Added THEN 0 ELSE 1
<1>1. /\ i \in DOMAIN Main /\ i \in Nat /\ NextIp + 1 = i /\ Instr = Main[i]
      /\ NextIp \in Nat /\ Instr.arg \in Nat
  BY <1>0, Executed
<1>2. /\ DOMAIN MainDepth = 1..(Len(Main) + 1)
      /\ DOMAIN Main = 1..Len(Main) /\ Len(Main) \in Nat
      /\ \A j \in DOMAIN Main : StackedLoop(code, Main, MainDepth, j)
      /\ MainDepth[i + 1] = DepthAfter(Instr.op, depth)
      /\ depth \in Nat /\ Collecting(Main, i)
  BY <1>0, <1>1, MainStacked DEF InBody
<1>3. PICK m \in Nat :
        Walks(m) /\ Len(stack) = m + depth /\ Collected(m, Walked(m).iterIndex - pending)
  BY DEF InBody, Iterating
<1>4. \/ Evaluates(code, Main, MainDepth, i)
      \/ Instr.op = "Call" /\ depth = 0
      \/ Instr.op = "AddGoroutine" /\ depth = 0
  BY <1>1, <1>2 DEF StackedLoop
<1>5. i + 1 \in DOMAIN MainDepth /\ (Instr.op # "TempDump" => ~IsNext(Main, i + 1))
  BY <1>1, <1>2 DEF StackedLoop, IsNext
<1>6. Collected(m, Walked(m).iterIndex - 0)
  BY <1>3, CollectedBefore
<1>7. Added => Instr.op = "JumpTo" /\ IsNext(Main, Instr.arg + 1)
  <2> SUFFICES ASSUME Added PROVE Instr.op = "JumpTo" /\ IsNext(Main, Instr.arg + 1)
    OBVIOUS
  <2>1. i - 1 \in DOMAIN Main /\ Main[i - 1].op = "AddGoroutine" /\ i - 1 + 1 = i
    BY <1>1, <1>2 DEF Added
  <2>2. /\ StackedLoop(code, Main, MainDepth, i - 1)
        /\ MainDepth[i - 1] \in Int /\ MainDepth[i - 1] >= -1
    BY <1>0, <1>1, <1>2, <2>1, MainStacked
  <2>3. MainDepth[i - 1] >= 0
    BY <2>1, <2>2 DEF StackedLoop
  <2>4. ~Evaluates(code, Main, MainDepth, i - 1)
    BY <2>1 DEF Evaluates, Loads, Tests, Comparisons, Conditional
  <2> QED BY <1>1, <2>1, <2>2, <2>3, <2>4 DEF StackedLoop
<1>8. CASE Evaluates(code, Main, MainDepth, i)
  <2>1. /\ SameDumps
        /\ \/ /\ Moves(NextIp) /\ Instr.op # "JumpTo"
              /\ DepthAfter(Instr.op, depth) \in Nat
              /\ Topped(m, DepthAfter(Instr.op, depth))
           \/ /\ Moves(Instr.arg - 1) /\ Instr.op \in Conditional
              /\ depth - 1 \in Nat /\ Topped(m, depth - 1)
           \/ /\ Moves(Instr.arg - 1) /\ Instr.op = "JumpTo"
              /\ Topped(m, depth)
    BY <1>0, <1>1, <1>2, <1>3, <1>8, Evaluated
  <2>2. ASSUME NEW ip \in Int, Moves(ip), ip + 2 \in DOMAIN MainDepth, NEW d \in Nat,
               IF IsNext(Main, ip + 2) THEN d = 0 ELSE MainDepth[ip + 2] = d,
               Topped(m, d), ~Added \/ IsNext(Main, ip + 2)
        PROVE  LoopState'
    <3>1. Iterating(d, 0)'
      BY <1>0, <1>3, <1>6, <2>1, <2>2, KeepsIterating
    <3>2. Len(frames') = 1 /\ MainAt' = ip + 2
      BY <1>0, <2>2, MovedTo
    <3>3. CASE ~Added
      <4>1. Collected(m, Walked(m).iterIndex - 1)
        BY <1>3, <3>3
      <4>2. Iterating(d, 1)'
        BY <1>0, <1>3, <4>1, <2>1, <2>2, KeepsIterating
      <4> QED BY <1>0, <2>2, <3>1, <3>2, <4>2, Arrives
    <3>4. CASE IsNext(Main, ip + 2)
      <4>1. IsNext(Main, MainAt)'
        BY <1>0, <3>2, <3>4, SameCode DEF IsNext
      <4>2. Iterating(0, 0)'
        BY <2>2, <3>1, <3>4
      <4> QED BY <3>2, <4>1, <4>2 DEF LoopState, GoingOn
    <3> QED BY <2>2, <3>3, <3>4
  <2>3. CASE /\ Moves(NextIp) /\ Instr.op # "JumpTo"
             /\ DepthAfter(Instr.op, depth) \in Nat
             /\ Topped(m, DepthAfter(Instr.op, depth))
    <3>1. NextIp \in Int /\ NextIp + 2 = i + 1
      BY <1>1
    <3>2. Instr.op # "TempDump" /\ ~Added
      BY <1>7, <1>8, <1>1, <2>3 DEF Evaluates, Loads, Tests, Comparisons, Conditional
    <3> QED BY <1>2, <1>5, <2>2, <2>3, <3>1, <3>2
  <2>4. ASSUME Instr.op \in Conditional \cup {"JumpTo"}, Moves(Instr.arg - 1),
               NEW left \in Nat, Topped(m, left),
               left = IF Instr.op \in Conditional THEN depth - 1 ELSE depth
        PROVE  LoopState'
    <3>1. Lands(Main, MainDepth, i)
      BY <1>1, <1>8, <2>4 DEF Evaluates
    <3>2. Instr.arg - 1 \in Int /\ Instr.arg - 1 + 2 = Instr.arg + 1
      BY <1>1
    <3>3. /\ Instr.arg + 1 \in DOMAIN MainDepth
          /\ IF IsNext(Main, Instr.arg + 1) THEN left = 0
                                            ELSE MainDepth[Instr.arg + 1] = left
      BY <1>1, <1>2, <2>4, <3>1 DEF Lands
    <3> QED BY <1>7, <2>2, <2>4, <3>2, <3>3
  <2> QED BY <1>2, <2>1, <2>3, <2>4 DEF Conditional
<1>9. CASE Instr.op = "Call" /\ depth = 0
  <2>1. Call /\ ~Added
    BY <1>0, <1>7, <1>9, Performed DEF LoopOps, Loads, Tests, Conditional, Comparisons
  <2>2. ~Crash
    BY <1>0 DEF Crash
  <2>3. Called
    BY <1>9, <2>1, <2>2, Zenon DEF Call, Called, WithIp
  <2>4. stack' = stack /\ SameDumps
    BY <2>1, <2>2 DEF Call, SameDumps, registers
  <2>5. /\ Len(frames') = 2 /\ MainAt' = i + 1 /\ PredicateAt' = 1
        /\ frames'[2].chunk \in 2..Len(code.chunks)
    BY <1>0, <2>3, CalledTo
  <2>6. Topped(m, 0)
    BY <1>0, <1>3, <1>9, <2>4, ToppedStacks
  <2>7. Iterating(0, 1)'
    BY <1>0, <1>3, <2>1, <2>4, <2>6, KeepsIterating
  <2>8. Main' = Main /\ MainDepth' = MainDepth
    BY <1>0, SameCode
  <2>9. 1 \in DOMAIN PredicateDepth' /\ PredicateDepth'[1] = 0
    <3>1. Predicate' = code.chunks[frames'[2].chunk]
      BY <1>0 DEF Predicate
    <3>2. StackedPredicate(code, Predicate')
      BY <1>0, <2>5, <3>1 DEF WellStacked
    <3>3. PredicateDepth' = Depths(Predicate', 0)
      BY DEF PredicateDepth
    <3>4. Predicate' \in Seq(Instructions)
      <4>1. frames'[2].chunk \in 1..Len(code.chunks)
        BY <1>0, <2>5, Position
      <4> QED BY <1>0, <3>1, <4>1, ElementOf DEF FlowShape
    <3> QED BY <3>2, <3>3, <3>4 DEF StackedPredicate, Tracks
  <2>10. MainAt' - 1 = i
    BY <1>1, <2>5
  <2>11. Iterating(PredicateDepth[PredicateAt], 1)'
    BY <2>5, <2>7, <2>9 DEF Iterating
  <2>12. InPredicate'
    BY <1>1, <1>5, <1>9, <2>5, <2>8, <2>9, <2>10, <2>11 DEF InPredicate
  <2> QED BY <2>12 DEF LoopState
<1>10. CASE Instr.op = "AddGoroutine" /\ depth = 0
  <2>1. AddGoroutine /\ ~Added
    BY <1>0, <1>7, <1>10, Performed DEF LoopOps, Loads, Tests, Conditional, Comparisons
  <2>2. InFilter
    BY <1>2 DEF InFilter, Main, MainAt
  <2>3. Len(stack) = m /\ Collected(m, Walked(m).iterIndex - 1)
    BY <1>3, <1>10, <2>1
  <2>4. Iterating(0, 0)' /\ Moves(NextIp)
    BY <1>3, <2>1, <2>2, <2>3, StepAdding
  <2>5. NextIp \in Int /\ NextIp + 2 = i + 1
    BY <1>1
  <2>6. Len(frames') = 1 /\ MainAt' = i + 1
    BY <1>0, <2>4, <2>5, MovedTo
  <2>7. Main' = Main /\ MainDepth' = MainDepth
    BY <1>0, SameCode
  <2>8. ~IsNext(Main, MainAt)'
    BY <1>5, <1>10, <2>6, <2>7 DEF IsNext
  <2>9. MainDepth'[MainAt'] = 0 /\ MainAt' \in DOMAIN MainDepth'
    BY <1>2, <1>5, <1>10, <2>6, <2>7 DEF DepthAfter, Loads, Tests, Comparisons, Conditional
  <2>10. Added'
    <3>1. MainAt' - 1 = i /\ MainAt' > 1
      BY <1>1, <1>2, <2>6
    <3> QED BY <1>1, <1>10, <2>7, <3>1 DEF Added
  <2>11. Iterating(MainDepth[MainAt], IF Added THEN 0 ELSE 1)'
    BY <2>4, <2>9, <2>10 DEF Iterating
  <2> QED BY <2>6, <2>8, <2>9, <2>11 DEF LoopState, InBody
<1> QED BY <1>4, <1>8, <1>9, <1>10

(* The iterator that was set.                                              *)
LEMMA IndexSet ==
  ASSUME HeapShape, NEW r \in 1..Len(heap), NEW n,
         heap' = [heap EXCEPT ![r].iterIndex = n]
  PROVE  heap'[r].iterIndex = n
<1> PICK A, B, C : heap \in HeapOver(A, B, C)
  BY DEF HeapShape
<1> DEFINE R == [goroutines : A, iterIndex : B, isIndexed : C]
<1>1. heap \in Seq(R) /\ DOMAIN heap = 1..Len(heap)
  BY DEF HeapOver
<1>2. heap[r] \in R
  <2>1. \A T : heap \in Seq(T) => heap[r] \in T
    OBVIOUS
  <2> QED BY <1>1, <2>1, Zenon
<1>3. \A d \in R : [d EXCEPT !.iterIndex = n].iterIndex = n
  OBVIOUS
<1>4. heap'[r] = [heap[r] EXCEPT !.iterIndex = n]
  BY <1>1
<1> QED BY <1>2, <1>3, <1>4

(* A goroutine that is not kept changes nothing.                           *)
LEMMA RisesFurther ==
  ASSUME NEW kept, NEW gs, NEW k \in Nat, NEW at, Rising(at, kept, gs, k)
  PROVE  Rising(at, kept, gs, k + 1)
<1>1. 1..k \subseteq 1..(k + 1)
  OBVIOUS
<1> QED BY <1>1 DEF Rising

(* The turn of the next goroutine, with the dump on top of s, or the end.  *)
LEMMA StepIterating ==
  ASSUME Stepping, Len(frames) = 1, IsNext(Main, MainAt),
         NEW s, \E S : s \in Seq(S), Silent(s), Len(s) > 0, s[Len(s)].tag = "dump",
         NEW ref \in 1..Len(heap), s[Len(s)].ref = ref,
         NEW k \in Nat, Iterate(ref, k, s), regDumpDst' = regDumpDst,
         \E S : Kept \in Seq(S),
         \E at : Rising(at, Kept, heap[ref].goroutines, k)
  PROVE  LoopState'
<1>0. /\ Ready /\ FlowShape /\ HeapShape /\ Private /\ WellStacked(code)
      /\ code' = code /\ status' = "running" /\ regDumpDst \in 0..Len(heap)
  BY SteppingIs DEF Stepping, IInv, Shapes
<1> DEFINE i == MainAt
<1>1. /\ i \in DOMAIN Main /\ i \in Nat /\ NextIp + 1 = i /\ Instr = Main[i]
      /\ NextIp \in Nat /\ Instr.arg \in Nat /\ Instr.op = "NextGoroutine"
  BY <1>0, Executed DEF IsNext
<1>2. /\ DOMAIN MainDepth = 1..(Len(Main) + 1)
      /\ DOMAIN Main = 1..Len(Main) /\ Len(Main) \in Nat
      /\ \A j \in DOMAIN Main : StackedLoop(code, Main, MainDepth, j)
      /\ MainDepth[i + 1] = DepthAfter(Instr.op, MainDepth[i])
  BY <1>0, <1>1, MainStacked
<1>3. /\ i > 1 /\ Main[i - 1].op = "TempDump"
      /\ Instr.arg + 1 \in DOMAIN MainDepth /\ MainDepth[Instr.arg + 1] = -1
      /\ ~IsNext(Main, Instr.arg + 1)
  BY <1>1, <1>2 DEF StackedLoop
<1>4. regDumpDst \in 1..Len(heap)
  <2>1. Collecting(Main, i)
    <3>0. DOMAIN Main = 1..Len(Main) /\ Len(Main) \in Nat /\ i \in 1..Len(Main) /\ i > 1
      BY <1>1, <1>2, <1>3
    <3>1. i - 1 \in DOMAIN Main /\ i - 1 < i
      BY <3>0
    <3>2. \A j \in DOMAIN Main : ~(i - 1 < j /\ j < i)
      BY <1>1, <1>2
    <3> QED BY <1>3, <3>1, <3>2 DEF Collecting
  <2>2. InFilter
    BY <2>1 DEF InFilter, Main, MainAt
  <2> QED BY <1>0, <2>2, HeapLength DEF Private
<1>5. Main' = Main /\ MainDepth' = MainDepth
  BY <1>0, SameCode
<1>6. PICK S : s \in Seq(S)
  OBVIOUS
<1>7. CASE k < Len(heap[ref].goroutines)
  <2> DEFINE g == heap[ref].goroutines[k + 1]
             m == Len(s) + 1
  <2>1. /\ heap' = [heap EXCEPT ![ref].iterIndex = k + 1]
        /\ regGoroutine' = g
        /\ Push(s, Goroutine(g))
    BY <1>7 DEF Iterate
  <2>2. ~Crash
    BY <1>0 DEF Crash
  <2>3. Advance(Append(s, Goroutine(g)))
    BY <2>1, <2>2 DEF Push
  <2>4. stack' = Append(s, Goroutine(g)) /\ Moves(NextIp)
    BY <2>3, Zenon DEF Advance, GoTo, Moves, WithIp
  <2>5. heap'[ref].iterIndex = k + 1 /\ heap'[ref].goroutines = heap[ref].goroutines
    BY <1>0, <2>1, IndexSet, HeapsAfter DEF Keeps
  <2>6. Kept' = Kept
    BY <1>0, <1>4, <2>1, HeapsAfter DEF Keeps, Kept
  <2>7. Goroutine(g).tag = "goroutine" /\ Goroutine(g).goroutine = g
    BY DEF Goroutine
  <2>8. /\ Len(stack') = m /\ DOMAIN stack' = 1..m /\ m \in Nat /\ m >= 2 /\ m - 1 = Len(s)
        /\ stack'[m] = Goroutine(g)
        /\ \A j \in 1..Len(s) : stack'[j] = s[j]
    <3> DEFINE v == Goroutine(g)
    <3> HIDE DEF v
    <3>1. /\ Len(Append(s, v)) = Len(s) + 1 /\ DOMAIN Append(s, v) = 1..(Len(s) + 1)
          /\ Append(s, v)[Len(s) + 1] = v
          /\ \A j \in 1..Len(s) : Append(s, v)[j] = s[j]
      BY <1>6
    <3> QED BY <1>6, <2>4, <3>1 DEF v
  <2> HIDE DEF g, m
  <2>9. Walked(m)' = heap'[ref]
    <3>1. m - 1 \in 1..Len(s)
      BY <2>8
    <3>2. stack'[m - 1].ref = ref
      BY <2>8, <3>1
    <3> QED BY <3>2 DEF Walked
  <2>10. Walks(m)'
    <3>1. m \in 2..Len(stack')
      BY <2>8
    <3>2. stack'[m].tag = "goroutine" /\ stack'[m].goroutine = regGoroutine'
      BY <2>1, <2>7, <2>8
    <3>3. stack'[m - 1].tag = "dump"
      BY <2>8
    <3>4. \A j \in DOMAIN stack' : j # m => stack'[j].tag # "goroutine"
      <4> SUFFICES ASSUME NEW j \in 1..m, j # m
                   PROVE  stack'[j].tag # "goroutine"
        BY <2>8
      <4>1. j \in 1..Len(s) /\ j \in DOMAIN s
        BY <1>6, <2>8
      <4> QED BY <2>8, <4>1 DEF Silent
    <3>5. heap'[ref].iterIndex \in Nat \ {0}
      BY <2>5
    <3>6. heap'[ref].goroutines[heap'[ref].iterIndex] = regGoroutine'
      BY <2>1, <2>5 DEF g
    <3> QED BY <2>9, <3>1, <3>2, <3>3, <3>4, <3>5, <3>6 DEF Walks
  <2>11. Collected(m, Walked(m).iterIndex - 0)' /\ Collected(m, Walked(m).iterIndex - 1)'
    <3>1. PICK at : Rising(at, Kept, heap[ref].goroutines, k)
      OBVIOUS
    <3>2. Rising(at, Kept, heap[ref].goroutines, k + 1)
      BY <3>1, RisesFurther
    <3>3. /\ Walked(m)'.goroutines = heap[ref].goroutines
          /\ Walked(m)'.iterIndex - 0 = k + 1 /\ Walked(m)'.iterIndex - 1 = k
      BY <2>5, <2>9
    <3>4. (\E T : Kept \in Seq(T))'
      BY <2>6
    <3>5. (\E on : Rising(on, Kept, Walked(m).goroutines, Walked(m).iterIndex - 0))'
      <4>1. Rising(at, Kept', Walked(m)'.goroutines, Walked(m)'.iterIndex - 0)
        BY <2>6, <3>2, <3>3
      <4> QED BY <4>1 DEF Rising
    <3>6. (\E on : Rising(on, Kept, Walked(m).goroutines, Walked(m).iterIndex - 1))'
      <4>1. Rising(at, Kept', Walked(m)'.goroutines, Walked(m)'.iterIndex - 1)
        BY <2>6, <3>1, <3>3
      <4> QED BY <4>1 DEF Rising
    <3> QED BY <3>4, <3>5, <3>6 DEF Collected
  <2>12. Iterating(0, 1)' /\ Iterating(0, 0)'
    <3>1. Len(stack') = m + 0
      BY <2>8
    <3> QED BY <2>8, <2>10, <2>11, <3>1 DEF Iterating
  <2>13. Len(frames') = 1 /\ MainAt' = i + 1
    <3>1. NextIp \in Int /\ NextIp + 2 = i + 1
      BY <1>1
    <3> QED BY <1>0, <2>4, <3>1, MovedTo
  <2>14. i + 1 \in DOMAIN MainDepth /\ MainDepth[i + 1] = 0
    BY <1>1, <1>2 DEF DepthAfter
  <2> QED BY <1>0, <2>12, <2>13, <2>14, Arrives
<1>8. CASE ~(k < Len(heap[ref].goroutines))
  <2>1. GoTo(Instr.arg - 1, SubSeq(s, 1, Len(s) - 1))
    BY <1>8 DEF Iterate
  <2>2. Moves(Instr.arg - 1)
    BY <2>1, Zenon DEF GoTo, Moves, WithIp
  <2>3. Silent(stack')
    <3>1. 1 \in Nat /\ 1 <= Len(s) /\ Len(s) \in Nat
      BY <1>6
    <3>2. /\ SubSeq(s, 1, Len(s) - 1) \in Seq(S)
          /\ Len(SubSeq(s, 1, Len(s) - 1)) = Len(s) - 1
          /\ \A j \in 1..(Len(s) - 1) : SubSeq(s, 1, Len(s) - 1)[j] = s[j]
      BY <1>6, <3>1, RefsInPrefix
    <3>3. /\ DOMAIN stack' = 1..(Len(s) - 1)
          /\ \A j \in 1..(Len(s) - 1) : j \in DOMAIN s /\ stack'[j] = s[j]
      BY <1>6, <2>1, <3>2 DEF GoTo
    <3> QED BY <3>3 DEF Silent
  <2>4. Len(frames') = 1 /\ MainAt' = Instr.arg + 1
    <3>1. Instr.arg - 1 \in Int /\ Instr.arg - 1 + 2 = Instr.arg + 1
      BY <1>1
    <3> QED BY <1>0, <2>2, <3>1, MovedTo
  <2>5. ~IsNext(Main, MainAt)'
    BY <1>3, <1>5, <2>4 DEF IsNext
  <2> QED BY <1>3, <1>5, <2>3, <2>4, <2>5 DEF LoopState, Elsewhere
<1> QED BY <1>7, <1>8

(* What NextGoroutine finds on the stack, when it does not fail.           *)
LEMMA NextFinds ==
  ASSUME Stepping, Len(frames) = 1, IsNext(Main, MainAt)
  PROVE  /\ regDumpDst' = regDumpDst
         /\ \/ /\ TagOf(1) = "dump"
               /\ Iterate(Nth(1).ref, 0, stack)
            \/ /\ TagOf(1) = "goroutine" /\ TagOf(2) = "dump"
               /\ Iterate(Nth(2).ref, heap[Nth(2).ref].iterIndex, Rest(1))
<1>1. /\ Execute \/ Interrupt
      /\ status' = "running" /\ Ready /\ FlowShape
  BY SteppingIs DEF Stepping
<1>2. Instr.op = "NextGoroutine"
  BY <1>1, Executed DEF IsNext
<1>3. NextGoroutine
  BY <1>1, <1>2, Performed DEF LoopOps, Loads, Tests, Conditional, Comparisons
<1>4. \A e : ~Fail(e)
  BY <1>1 DEF Fail
<1> QED BY <1>3, <1>4, Zenon DEF NextGoroutine

(* The first goroutine.                                                    *)
LEMMA StepEntering ==
  ASSUME Stepping, Entering
  PROVE  LoopState'
<1>0. Shapes /\ StackShape
  BY SteppingIs DEF Stepping, IInv
<1>1. Len(stack) \in Nat /\ DOMAIN stack = 1..Len(stack)
  BY <1>0 DEF StackShape
<1>2. TagOf(1) # "goroutine"
  BY <1>1 DEF TagOf, Nth, Entering, Silent
<1>3. /\ regDumpDst' = regDumpDst /\ TagOf(1) = "dump"
      /\ Iterate(Nth(1).ref, 0, stack)
  BY <1>2, NextFinds DEF Entering
<1>4. Len(stack) > 0 /\ stack[Len(stack)].tag = "dump" /\ Nth(1) = stack[Len(stack)]
  <2>1. 1 <= Len(stack) /\ Nth(1).tag = "dump"
    BY <1>3 DEF TagOf
  <2>2. Len(stack) + 1 - 1 = Len(stack)
    BY <1>1
  <2> QED BY <1>1, <2>1, <2>2 DEF Nth
<1> DEFINE ref == stack[Len(stack)].ref
<1>5. ref \in 1..Len(heap)
  <2>1. Len(stack) \in DOMAIN stack
    BY <1>1, <1>4
  <2>2. ref \in RefsIn(stack)
    BY <1>4, <2>1, RefsOfElement, RefsOfTagged
  <2> QED BY <1>0, <2>2 DEF Shapes, InUse
<1>6. Kept = <<>> /\ \E S : Kept \in Seq(S)
  <2>1. <<>> \in Seq({})
    OBVIOUS
  <2> QED BY <2>1 DEF Entering
<1>7. \E at : Rising(at, Kept, heap[ref].goroutines, 0)
  <2> DEFINE at == [i \in {} |-> 0]
  <2>1. Len(<<>>) = 0 /\ 1..0 = {} /\ at \in [{} -> {}]
    OBVIOUS
  <2>2. Rising(at, <<>>, heap[ref].goroutines, 0)
    BY <2>1 DEF Rising
  <2> QED BY <1>6, <2>2
<1>8. Iterate(ref, 0, stack)
  BY <1>3, <1>4
<1> QED BY <1>0, <1>3, <1>4, <1>5, <1>6, <1>7, <1>8, StepIterating DEF Entering, StackShape

(* The next goroutine.                                                     *)
LEMMA StepGoingOn ==
  ASSUME Stepping, GoingOn
  PROVE  LoopState'
<1>0. Shapes /\ StackShape
  BY SteppingIs DEF Stepping, IInv
<1>1. PICK m \in Nat :
        Walks(m) /\ Len(stack) = m + 0 /\ Collected(m, Walked(m).iterIndex - 0)
  BY DEF GoingOn, Iterating
<1>2. PICK S : stack \in Seq(S)
  BY <1>0 DEF StackShape
<1>3. Len(stack) = m /\ m >= 2 /\ DOMAIN stack = 1..m
  BY <1>1, <1>2 DEF Walks
<1>4. Nth(1) = stack[m] /\ Nth(2) = stack[m - 1] /\ TagOf(1) # "dump"
  <2>1. Len(stack) + 1 - 1 = m /\ Len(stack) + 1 - 2 = m - 1
    BY <1>3
  <2>2. Nth(1) = stack[m] /\ Nth(2) = stack[m - 1]
    BY <2>1 DEF Nth
  <2> QED BY <1>1, <1>3, <2>2 DEF TagOf, Walks
<1> DEFINE ref == stack[m - 1].ref
           s == Rest(1)
           k == Walked(m).iterIndex
<1>5. regDumpDst' = regDumpDst /\ Iterate(ref, k, s)
  BY <1>4, NextFinds DEF GoingOn, Walked
<1>6. ref \in 1..Len(heap)
  BY <1>0, <1>1, WalkedIsUsed
<1>7. s \in Seq(S) /\ Len(s) = m - 1 /\ \A i \in 1..(m - 1) : s[i] = stack[i]
  <2>1. 1 \in Nat /\ 1 <= Len(stack)
    BY <1>3
  <2>2. /\ s \in Seq(S) /\ Len(s) = Len(stack) - 1
        /\ \A i \in 1..(Len(stack) - 1) : s[i] = stack[i]
    BY <1>2, <2>1, RefsInPrefix DEF Rest
  <2> QED BY <1>3, <2>2
<1> HIDE DEF s
<1>8. /\ Len(s) > 0 /\ s[Len(s)] = stack[m - 1] /\ s[Len(s)].tag = "dump"
      /\ s[Len(s)].ref = ref
  BY <1>1, <1>3, <1>7 DEF Walks
<1>9. Silent(s)
  <2> SUFFICES ASSUME NEW i \in DOMAIN s PROVE s[i].tag # "goroutine"
    BY DEF Silent
  <2>1. i \in 1..(m - 1) /\ i \in DOMAIN stack /\ i # m
    BY <1>3, <1>7
  <2> QED BY <1>1, <1>7, <2>1 DEF Walks
<1>10. k \in Nat /\ k - 0 = k
  BY <1>1 DEF Walks
<1>11. (\E T : Kept \in Seq(T)) /\ \E at : Rising(at, Kept, heap[ref].goroutines, k)
  BY <1>1, <1>10 DEF Collected, Walked
<1> QED BY <1>5, <1>6, <1>7, <1>8, <1>9, <1>10, <1>11, StepIterating DEF GoingOn

(* TempDump is the one action for its instruction.                         *)
LEMMA OnlyTempDump ==
  ASSUME Execute \/ Interrupt, status' = "running", Instr.op = "TempDump"
  PROVE  TempDump
<1>1. PushDump => Instr.op = "PushDump"
  BY DEF PushDump, At
<1>2. AddGoroutine => Instr.op = "AddGoroutine"
  BY DEF AddGoroutine, At
<1> QED BY <1>1, <1>2, OtherInstructions, Zenon

(* The dump that was added to the heap.                                    *)
LEMMA HeapAppended ==
  ASSUME HeapShape, NEW d, heap' = Append(heap, d)
  PROVE  heap'[Len(heap) + 1] = d
<1> PICK A, B, C : heap \in HeapOver(A, B, C)
  BY DEF HeapShape
<1> DEFINE R == [goroutines : A, iterIndex : B, isIndexed : C]
<1>1. heap \in Seq(R)
  BY DEF HeapOver
<1> HIDE DEF R
<1> QED BY <1>1

(* Outside of loops, up to the TempDump of the next one.                   *)
LEMMA StepElsewhere ==
  ASSUME Stepping, Elsewhere
  PROVE  LoopState'
<1>0. /\ Ready /\ FlowShape /\ StackShape /\ HeapShape /\ WellStacked(code)
      /\ Execute \/ Interrupt
      /\ code' = code /\ status' = "running"
      /\ Len(frames) = 1 /\ Silent(stack)
  BY SteppingIs DEF Stepping, Elsewhere, IInv, Shapes
<1> DEFINE i == MainAt
<1>1. /\ i \in DOMAIN Main /\ i \in Nat /\ NextIp + 1 = i /\ Instr = Main[i]
      /\ NextIp \in Nat
  BY <1>0, Executed
<1>2. /\ DOMAIN MainDepth = 1..(Len(Main) + 1)
      /\ DOMAIN Main = 1..Len(Main) /\ Len(Main) \in Nat
      /\ \A j \in DOMAIN Main : StackedLoop(code, Main, MainDepth, j)
      /\ MainDepth[i + 1] = DepthAfter(Instr.op, -1)
  BY <1>0, <1>1, MainStacked DEF Elsewhere
<1>3. Instr.op \notin Conditional \cup
        {"JumpTo", "Call", "AddGoroutine", "NextGoroutine", "Return"}
  <2>1. Instr.op \notin Conditional \cup {"JumpTo", "Call", "AddGoroutine"}
    BY <1>1, <1>2 DEF StackedLoop, Elsewhere
  <2>2. Instr.op # "NextGoroutine"
    BY <1>1 DEF Elsewhere, IsNext
  <2>3. Instr.op # "Return"
    BY <1>0, Instructed
  <2> QED BY <2>1, <2>2, <2>3
<1>4. \/ LoadConstant \/ PushBool \/ LoadFieldAccessor
      \/ Comparison \/ ContainsOrIn \/ RegexMatches
      \/ Others
  BY <1>0, <1>3, Performed
<1>5. Works
  <2>1. CASE LoadConstant \/ PushBool \/ LoadFieldAccessor
    BY <2>1, LoadsWork, Zenon DEF Works
  <2>2. CASE Comparison \/ ContainsOrIn \/ RegexMatches
    BY <2>2, TestsWork, Zenon DEF Works
  <2>3. CASE Others
    BY <1>0, <2>3, OthersWork
  <2> QED BY <1>4, <2>1, <2>2, <2>3
<1>6. Silent(stack') /\ Moves(NextIp)
  BY <1>0, <1>5, WorksInSilence
<1>7. Len(frames') = 1 /\ MainAt' = i + 1
  <2>1. NextIp \in Int /\ NextIp + 2 = i + 1
    BY <1>1
  <2> QED BY <1>0, <1>6, <2>1, MovedTo
<1>8. Main' = Main /\ MainDepth' = MainDepth
  BY <1>0, SameCode
<1>9. i + 1 \in DOMAIN MainDepth /\ MainDepth[i + 1] = -1
  BY <1>1, <1>2, <1>3 DEF DepthAfter
<1>10. CASE IsNext(Main, i + 1)
  <2>1. Instr.op = "TempDump"
    <3>1. i + 1 \in DOMAIN Main /\ i + 1 - 1 = i
      BY <1>1, <1>10 DEF IsNext
    <3> QED BY <1>1, <1>2, <1>10, <3>1 DEF StackedLoop
  <2>2. TempDump
    <3>1. Others
      BY <1>0, <2>1, Performed DEF LoopOps, Loads, Tests, Conditional, Comparisons
    <3> QED BY <1>0, <2>1, OnlyTempDump
  <2>3. Kept' = <<>>
    <3>1. /\ heap' = Append(heap, NewDump(<<>>)) /\ regDumpDst' = Len(heap) + 1
      BY <2>2 DEF TempDump
    <3>2. heap'[Len(heap) + 1] = NewDump(<<>>)
      BY <1>0, <3>1, HeapAppended
    <3> QED BY <3>1, <3>2 DEF Kept, NewDump
  <2>4. IsNext(Main, MainAt)'
    BY <1>7, <1>8, <1>10 DEF IsNext
  <2> QED BY <1>6, <1>7, <2>3, <2>4 DEF LoopState, Entering
<1>11. CASE ~IsNext(Main, i + 1)
  <2>1. ~IsNext(Main, MainAt)'
    BY <1>7, <1>8, <1>11 DEF IsNext
  <2> QED BY <1>6, <1>7, <1>8, <1>9, <2>1 DEF LoopState, Elsewhere
<1> QED BY <1>10, <1>11

-----------------------------------------------------------------------------
(* The invariant.                                                          *)
LEMMA LoopsUnchanged ==
  ASSUME UNCHANGED <<code, frames, stack, heap, regGoroutine, regDumpDst>>, LoopState
  PROVE  LoopState'
<1>1. Main' = Main /\ MainDepth' = MainDepth /\ MainAt' = MainAt
  BY SameCode DEF MainAt
<1>2. Predicate' = Predicate /\ PredicateDepth' = PredicateDepth /\ PredicateAt' = PredicateAt
  BY SameCode DEF PredicateAt
<1>3. \A m : Walked(m)' = Walked(m)
  BY DEF Walked
<1>4. Kept' = Kept
  BY DEF Kept
<1>5. \A m : Walks(m)' <=> Walks(m)
  BY <1>3 DEF Walks
<1>6. \A m, k : Collected(m, k)' <=> Collected(m, k)
  BY <1>3, <1>4 DEF Collected, Rising
<1>7. ASSUME NEW depth, NEW pending, NEW depth2, NEW pending2,
             depth2 = depth, pending2 = pending, Iterating(depth, pending)
      PROVE  \E m \in Nat :
               /\ Walks(m)' /\ Len(stack') = m + depth2
               /\ Collected(m, Walked(m).iterIndex - pending2)'
  <2>1. PICK m \in Nat :
          Walks(m) /\ Len(stack) = m + depth /\ Collected(m, Walked(m).iterIndex - pending)
    BY <1>7, Zenon DEF Iterating
  <2>2. Collected(m, Walked(m).iterIndex - pending2)'
    BY <1>3, <1>4, <1>7, <2>1 DEF Collected, Rising
  <2>3. Walks(m)' /\ Len(stack') = m + depth2
    BY <1>5, <1>7, <2>1
  <2> QED BY <2>2, <2>3
<1>8. Added' <=> Added
  BY <1>1 DEF Added
<1>9. IsNext(Main, MainAt)' <=> IsNext(Main, MainAt)
  BY <1>1 DEF IsNext
<1>10. Silent(stack') <=> Silent(stack)
  OBVIOUS
<1>11. InPredicate => InPredicate'
  <2> SUFFICES ASSUME InPredicate PROVE InPredicate'
    OBVIOUS
  <2>1. Iterating(PredicateDepth[PredicateAt], 1)
    BY DEF InPredicate
  <2>2. \E m \in Nat :
          /\ Walks(m)' /\ Len(stack') = m + (PredicateDepth[PredicateAt])'
          /\ Collected(m, Walked(m).iterIndex - 1)'
    <3>1. (PredicateDepth[PredicateAt])' = PredicateDepth[PredicateAt]
      BY <1>2
    <3>2. \A depth, depth2 : depth2 = depth /\ Iterating(depth, 1) =>
            \E m \in Nat : /\ Walks(m)' /\ Len(stack') = m + depth2
                          /\ Collected(m, Walked(m).iterIndex - 1)'
      BY <1>7
    <3> QED BY <2>1, <3>1, <3>2, Zenon
  <2>3. Iterating(PredicateDepth[PredicateAt], 1)'
    BY <2>2 DEF Iterating
  <2> QED BY <1>1, <1>2, <2>3 DEF InPredicate
<1>12. GoingOn => GoingOn'
  <2> SUFFICES ASSUME GoingOn PROVE GoingOn'
    OBVIOUS
  <2>1. Iterating(0, 0)
    BY DEF GoingOn
  <2>2. \E m \in Nat : /\ Walks(m)' /\ Len(stack') = m + 0
                       /\ Collected(m, Walked(m).iterIndex - 0)'
    <3>1. \A depth, pending : Iterating(depth, pending) =>
            \E m \in Nat : /\ Walks(m)' /\ Len(stack') = m + depth
                          /\ Collected(m, Walked(m).iterIndex - pending)'
      BY <1>7
    <3> QED BY <2>1, <3>1
  <2>3. Iterating(0, 0)'
    BY <2>2 DEF Iterating
  <2> QED BY <1>9, <2>3 DEF GoingOn
<1>13. InBody => InBody'
  <2> SUFFICES ASSUME InBody PROVE InBody'
    OBVIOUS
  <2>1. Iterating(MainDepth[MainAt], IF Added THEN 0 ELSE 1)'
    BY <1>1, <1>7, <1>8 DEF InBody, Iterating
  <2> QED BY <1>1, <1>9, <2>1 DEF InBody
<1>14. (Entering => Entering') /\ (Elsewhere => Elsewhere')
  BY <1>1, <1>4, <1>9, <1>10 DEF Entering, Elsewhere
<1> QED BY <1>11, <1>12, <1>13, <1>14 DEF LoopState

(* Every step of a run keeps the invariant.                                *)
LEMMA RunStepLoops ==
  ASSUME IInv, LoopInv, RunStep
  PROVE  LoopInv'
<1>1. /\ Execute \/ Interrupt
      /\ code' = code /\ Control
  BY Controlled DEF RunStep, Run
<1> SUFFICES ASSUME status' = "running" PROVE WellStacked(code)' /\ LoopState'
  BY DEF LoopInv
<1>2. status = "running"
  BY <1>1 DEF Control, Flow, Ready
<1>3. WellStacked(code) /\ LoopState
  BY <1>2 DEF LoopInv
<1>4. WellStacked(code)'
  BY <1>1, <1>3 DEF WellStacked
<1>5. Stepping
  BY <1>1, <1>3 DEF Stepping
<1> QED BY <1>3, <1>4, <1>5, StepInPredicate, StepEntering, StepGoingOn, StepInBody,
           StepElsewhere DEF LoopState

(* A source starts at the first instruction, with an empty stack.          *)
LEMMA EvalStarts ==
  ASSUME NEW s \in Sources, Eval(s), status' = "running"
  PROVE  /\ Compiled[s] \notin {CompileError, CompilePanic}
         /\ code' = Compiled[s] /\ stack' = <<>>
         /\ WellStacked(code)' /\ Elsewhere'
         /\ Len(frames') = 1 /\ MainAt' = 1 /\ Len(Main') \in Nat
<1>1. Compiled[s] \notin {CompileError, CompilePanic}
  <2>1. status = "idle"
    BY DEF Eval
  <2>2. CASE Compiled[s] = CompileError
    <3>1. status' = status \/ Compiled[s] = CompilePanic \/ Compiled[s] # CompileError
      BY DEF Eval, vmVars, control
    <3>2. Compiled[s] # CompilePanic
      BY <2>1 DEF Eval, vmVars, control
    <3> QED BY <2>1, <2>2, <3>1, <3>2
  <2>3. CASE Compiled[s] = CompilePanic
    BY <2>1, <2>3 DEF Eval, vmVars, control
  <2> QED BY <2>2, <2>3
<1>2. /\ code' = Compiled[s] /\ stack' = <<>>
      /\ frames' = <<[chunk |-> 1, ip |-> -1, returnAddr |-> 0]>>
  BY <1>1 DEF Eval, Reset
<1>3. WellStacked(Compiled[s]) /\ IsCode(Compiled[s]) /\ Compiled[s].chunks # <<>>
  BY <1>1, LoopsAssumption, EvaluatorAssumption
<1>4. WellStacked(code)'
  BY <1>2, <1>3 DEF WellStacked
<1>5. Len(frames') = 1 /\ MainAt' = 1
  BY <1>2 DEF MainAt
<1>6. Main' = Compiled[s].chunks[1]
  BY <1>2 DEF Main
<1>7. /\ Tracks(Main', MainDepth') /\ MainDepth'[1] = -1
      /\ \A i \in DOMAIN Main' : StackedLoop(Compiled[s], Main', MainDepth', i)
  <2>1. MainDepth' = Depths(Main', -1)
    BY DEF MainDepth
  <2>2. StackedMain(Compiled[s], Main')
    BY <1>3, <1>6 DEF WellStacked
  <2> QED BY <2>1, <2>2 DEF StackedMain
<1>8. Len(Main') \in Nat
  <2>1. Compiled[s].chunks \in Seq(Seq(Instructions))
    BY <1>3 DEF IsCode, Instructions
  <2>2. 1 \in 1..Len(Compiled[s].chunks)
    BY <1>3, <2>1
  <2>3. Main' \in Seq(Instructions)
    BY <1>6, <2>1, <2>2, ElementOf
  <2> QED BY <2>3
<1>9. 1 \in DOMAIN MainDepth'
  BY <1>7, <1>8 DEF Tracks
<1>10. ~IsNext(Main', 1)
  BY <1>7 DEF IsNext, StackedLoop
<1>11. Silent(stack')
  BY <1>2 DEF Silent
<1>12. Elsewhere'
  BY <1>5, <1>7, <1>9, <1>10, <1>11 DEF Elsewhere, IsNext
<1> QED BY <1>1, <1>2, <1>4, <1>5, <1>8, <1>12

LEMMA EvalLoops ==
  ASSUME NEW s \in Sources, Eval(s)
  PROVE  LoopInv'
BY EvalStarts DEF LoopInv, LoopState

(* So does every step of the evaluator.                                    *)
LEMMA NextLoops ==
  ASSUME IInv, LoopInv, [Next]_vars
  PROVE  LoopInv'
<1>1. ASSUME NEW s \in Sources, CancelCompile(s) PROVE LoopInv'
  BY <1>1 DEF CancelCompile, vmVars, control, LoopInv
<1>2. CASE Finish \/ Confirm \/ Decline
  <2>1. status' # "running"
    BY <1>2 DEF Finish, Confirm, Decline
  <2> QED BY <2>1 DEF LoopInv
<1>3. CASE UNCHANGED vars
  <2>1. UNCHANGED <<status, code, frames, stack, heap, regGoroutine, regDumpDst>>
    BY <1>3 DEF vars, vmVars, control, registers
  <2>2. WellStacked(code) => WellStacked(code)'
    BY <2>1 DEF WellStacked
  <2> QED BY <2>1, <2>2, LoopsUnchanged DEF LoopInv
<1> QED BY <1>1, <1>2, <1>3, RunStepLoops, EvalLoops DEF Next

(* The invariant holds.                                                    *)
LEMMA LoopInvHolds == Spec => []LoopInv
<1>1. Init => LoopInv
  BY DEF Init, LoopInv
<1>2. IInv /\ LoopInv /\ [Next]_vars => LoopInv'
  BY NextLoops
<1> QED BY <1>1, <1>2, IInvHolds, PTL DEF Spec

(* Wherever a loop is, its filter is collecting.                           *)
LEMMA FiltersInLoops ==
  ASSUME FlowShape, WellStacked(code), LoopState
  PROVE  Elsewhere \/ InFilter
<1>1. /\ DOMAIN MainDepth = 1..(Len(Main) + 1)
      /\ DOMAIN Main = 1..Len(Main) /\ Len(Main) \in Nat
      /\ \A i \in DOMAIN MainDepth : MainDepth[i] >= 0 => Collecting(Main, i)
      /\ \A i \in DOMAIN Main : StackedLoop(code, Main, MainDepth, i)
      /\ \A i \in DOMAIN Main : MainDepth[i + 1] = DepthAfter(Main[i].op, MainDepth[i])
  BY MainStacked
<1>2. CASE InBody
  BY <1>1, <1>2 DEF InBody, InFilter, Main, MainAt
<1>3. CASE Entering \/ GoingOn
  <2> DEFINE i == MainAt
  <2>1. /\ i \in 1..Len(Main) /\ i > 1 /\ Main[i - 1].op = "TempDump"
    BY <1>1, <1>3 DEF Entering, GoingOn, IsNext, StackedLoop
  <2>2. i - 1 \in DOMAIN Main /\ i - 1 < i
    BY <1>1, <2>1
  <2>3. \A j \in DOMAIN Main : ~(i - 1 < j /\ j < i)
    BY <1>1, <2>1
  <2>4. Collecting(Main, MainAt)
    BY <2>1, <2>2, <2>3 DEF Collecting
  <2> QED BY <2>4 DEF InFilter, Main, MainAt
<1>4. CASE InPredicate
  <2>1. /\ MainAt - 1 \in DOMAIN Main /\ Main[MainAt - 1].op = "Call"
        /\ MainDepth[MainAt - 1] = 0 /\ MainAt \in DOMAIN MainDepth
    BY <1>4 DEF InPredicate
  <2>2. MainAt - 1 + 1 = MainAt
    BY <1>1, <2>1
  <2>3. MainDepth[MainAt] = DepthAfter("Call", 0)
    BY <1>1, <2>1, <2>2
  <2>4. MainDepth[MainAt] = 1
    BY <2>3 DEF DepthAfter
  <2> QED BY <1>1, <2>1, <2>4 DEF InFilter, Main, MainAt
<1> QED BY <1>2, <1>3, <1>4 DEF LoopState

(* The loop that is running, where it is, and what it collected.           *)
LEMMA LoopFound ==
  ASSUME IInv, LoopInv, Looping
  PROVE  /\ InFilter
         /\ \E m \in Nat :
              /\ Walks(m) /\ LoopAt = m
              /\ \E at : Rising(at, Kept, Walked(m).goroutines, Walked(m).iterIndex)
<1>1. /\ FlowShape /\ StackShape /\ WellStacked(code)
      /\ LoopState /\ ~Silent(stack)
  BY DEF Looping, LoopInv, IInv, Shapes, Silent
<1>3. PICK depth, pending : pending \in {0, 1} /\ Iterating(depth, pending)
  <2>1. CASE InPredicate
    BY <2>1, Zenon DEF InPredicate
  <2>2. CASE InBody
    <3>1. (IF Added THEN 0 ELSE 1) \in {0, 1}
      OBVIOUS
    <3> QED BY <2>2, <3>1, Zenon DEF InBody
  <2>3. CASE GoingOn
    BY <2>3, Zenon DEF GoingOn
  <2> QED BY <1>1, <2>1, <2>2, <2>3 DEF LoopState, Entering, Elsewhere
<1>4. InFilter
  <2>1. ~Elsewhere
    BY <1>1 DEF Elsewhere
  <2> QED BY <1>1, <2>1, FiltersInLoops
<1>5. PICK m \in Nat : Walks(m) /\ Collected(m, Walked(m).iterIndex - pending)
  BY <1>3 DEF Iterating
<1>6. LoopAt = m
  <2>1. DOMAIN stack = 1..Len(stack) /\ Len(stack) \in Nat
    BY <1>1 DEF StackShape
  <2>2. m \in DOMAIN stack
    BY <1>5, <2>1 DEF Walks
  <2>3. {i \in DOMAIN stack : stack[i].tag = "goroutine"} = {m}
    BY <1>5, <2>2 DEF Walks
  <2>4. LoopAt = Max({m})
    BY <2>3 DEF LoopAt
  <2> QED BY <2>4 DEF Max
<1>7. Collected(m, Walked(m).iterIndex - 0)
  BY <1>3, <1>5, CollectedBefore
<1>8. Walked(m).iterIndex - 0 = Walked(m).iterIndex
  BY <1>5 DEF Walks
<1> QED BY <1>4, <1>5, <1>6, <1>7, <1>8 DEF Collected

(* While a filter evaluates its predicate, the register the field          *)
(* accessors read, the goroutine on the stack and the iterator of the dump *)
(* agree.                                                                  *)
THEOREM IteratorsAgree == Spec => []IteratorAgrees
<1>1. IInv /\ LoopInv => IteratorAgrees
  <2> SUFFICES ASSUME IInv, LoopInv, Looping
               PROVE  /\ regGoroutine = stack[LoopAt].goroutine
                      /\ LoopAt > 1 /\ stack[LoopAt - 1].tag = "dump"
                      /\ Walked(LoopAt).iterIndex > 0
                      /\ Walked(LoopAt).goroutines[Walked(LoopAt).iterIndex] = regGoroutine
    BY DEF IteratorAgrees, Walked
  <2>1. PICK m \in Nat : Walks(m) /\ LoopAt = m
    BY LoopFound
  <2>2. m > 1 /\ Walked(m).iterIndex > 0
    BY <2>1 DEF Walks
  <2> QED BY <2>1, <2>2 DEF Walks
<1> QED BY <1>1, IInvHolds, LoopInvHolds, PTL

(* The dump a filter collects into is nobody else's until it is pushed.    *)
THEOREM TempDumpsArePrivate == Spec => []TempDumpIsPrivate
<1>1. IInv /\ LoopInv => TempDumpIsPrivate
  <2> SUFFICES ASSUME IInv, LoopInv, Looping
               PROVE  regDumpDst > 0 /\ regDumpDst \notin InUse
    BY DEF TempDumpIsPrivate
  <2>1. InFilter /\ Private /\ regDumpDst \in 0..Len(heap) /\ HeapShape
    BY LoopFound DEF IInv, Shapes, Looping
  <2>2. Len(heap) \in Nat
    BY <2>1, HeapLength
  <2> QED BY <2>1, <2>2 DEF Private
<1> QED BY <1>1, IInvHolds, LoopInvHolds, PTL

(* A filter keeps goroutines of the dump it walks, in their order, up to   *)
(* the one it is at.                                                       *)
THEOREM CollectsOnlyWhatItSaw == Spec => []CollectsWhatItSaw
<1>1. IInv /\ LoopInv => CollectsWhatItSaw
  <2> SUFFICES ASSUME IInv, LoopInv, Looping
               PROVE  \E at : Rising(at, Kept, Walked(LoopAt).goroutines,
                                     Walked(LoopAt).iterIndex)
    BY DEF CollectsWhatItSaw, Rising, Kept, Walked
  <2> QED BY LoopFound
<1> QED BY <1>1, IInvHolds, LoopInvHolds, PTL

-----------------------------------------------------------------------------
(* Panics.  The effect of each instruction on the height of the stack.     *)
LEMMA EffectOf ==
  /\ \A op \in Loads \cup {"Dup", "LoadGoroutineDump", "PushDump", "Call",
                           "NextGoroutine"} : Effect(op) = 1
  /\ \A op \in Tests \cup Conditional
       \cup {"JumpTo", "FuncUnion", "FuncIntersect", "FuncDiff", "FuncGraph",
             "FuncToJSON", "FuncToDot"} : Effect(op) = -1
  /\ \A op \in {"FuncSave", "FuncShowDump"} : Effect(op) = -2
  /\ \A op \in {"Noop", "Assignment", "TempDump", "ResetDump", "AddGoroutine",
                "FuncLoad", "Return", "CommandGetWorkingDir", "CommandListDir"} :
       Effect(op) = 0
  /\ \A op : Effect(op) \in {-2, -1, 0, 1}
BY DEF Effect, Loads, Tests, Comparisons, Conditional

(* An instruction adds at most n values to the stack, and does not panic   *)
(* when there is room for them.                                            *)
Behaves(n) ==
  /\ status' = "running" => Len(stack') <= Len(stack) + n
  /\ Len(stack) + n <= StackSize => status' # "crashed"

LEMMA Behaving ==
  ASSUME StackShape, Ready
  PROVE  /\ \A e, n : Fail(e) => Behaves(n)
         /\ Advance(stack) => Behaves(0) /\ Behaves(1)
         /\ \A n \in Nat : n <= Len(stack) /\ Advance(Rest(n)) => Behaves(0 - n)
         /\ \A v : Push(stack, v) => Behaves(1)
         /\ \A n \in Nat : \A v : n <= Len(stack) /\ Push(Rest(n), v) => Behaves(1 - n)
<1> PICK V : stack \in Seq(V)
  BY DEF StackShape
<1>1. Len(stack) \in Nat /\ StackSize \in Nat /\ status = "running"
  BY VMAssumption DEF Ready
<1>2. \A e, n : Fail(e) => Behaves(n)
  BY DEF Fail, Behaves
<1>3. \A s : Advance(s) => stack' = s /\ status' = status
  BY DEF Advance, GoTo
<1>4. ASSUME NEW n \in Nat, n <= Len(stack)
      PROVE  Len(Rest(n)) = Len(stack) - n /\ Rest(n) \in Seq(V)
  <2>1. /\ Rest(n) \in Seq(V) /\ Len(Rest(n)) = Len(stack) - n
    BY <1>1, <1>4, RefsInPrefix DEF Rest
  <2> QED BY <2>1
<1>5. ASSUME NEW s \in Seq(V), NEW v, Push(s, v)
      PROVE  Behaves(Len(s) - Len(stack) + 1)
  <2>1. CASE Len(s) < StackSize
    <3>1. stack' = Append(s, v) /\ status' = status
      BY <1>3, <1>5, <2>1 DEF Push
    <3>2. Len(stack') = Len(s) + 1
      BY <3>1
    <3> QED BY <1>1, <3>1, <3>2 DEF Behaves
  <2>2. CASE ~(Len(s) < StackSize)
    <3>1. status' = "crashed"
      BY <1>5, <2>2 DEF Push, Crash
    <3> QED BY <1>1, <2>2, <3>1 DEF Behaves
  <2> QED BY <2>1, <2>2
<1>6. Advance(stack) => Behaves(0) /\ Behaves(1)
  BY <1>1, <1>3 DEF Behaves
<1>7. ASSUME NEW n \in Nat, n <= Len(stack), Advance(Rest(n)) PROVE Behaves(0 - n)
  <2>1. Len(Rest(n)) = Len(stack) - n
    BY <1>4, <1>7
  <2> HIDE DEF Rest
  <2> QED BY <1>1, <1>3, <1>7, <2>1 DEF Behaves
<1>8. ASSUME NEW v, Push(stack, v) PROVE Behaves(1)
  <2>1. Len(stack) - Len(stack) + 1 = 1
    BY <1>1
  <2> QED BY <1>1, <1>5, <1>8, <2>1
<1>9. ASSUME NEW n \in Nat, NEW v, n <= Len(stack), Push(Rest(n), v) PROVE Behaves(1 - n)
  <2>0. Rest(n) \in Seq(V) /\ Len(Rest(n)) = Len(stack) - n
    BY <1>4, <1>9
  <2> HIDE DEF Rest
  <2>1. Len(Rest(n)) - Len(stack) + 1 = 1 - n
    BY <1>1, <1>9, <2>0
  <2>2. Behaves(Len(Rest(n)) - Len(stack) + 1)
    BY <1>5, <1>9, <2>0
  <2> QED BY <2>1, <2>2
<1> QED BY <1>2, <1>6, <1>7, <1>8, <1>9

(* The instructions of a predicate, and the others that push and pop.      *)
LEMMA LoadsAndTestsBehave ==
  ASSUME StackShape, Ready,
         \/ LoadConstant \/ PushBool \/ LoadFieldAccessor
         \/ Comparison \/ ContainsOrIn \/ RegexMatches
  PROVE  Behaves(Effect(Instr.op))
<1>1. CASE LoadConstant \/ PushBool
  <2>1. Effect(Instr.op) = 1
    BY <1>1, EffectOf DEF LoadConstant, PushBool, At, Loads
  <2>2. \E v : Push(stack, v)
    BY <1>1, Zenon DEF LoadConstant, PushBool
  <2> QED BY <2>1, <2>2, Behaving
<1>2. CASE LoadFieldAccessor
  <2>1. Effect(Instr.op) = 1
    BY <1>2, EffectOf DEF LoadFieldAccessor, At, Loads
  <2>2. (\E v : Push(stack, v)) \/ Advance(stack) \/ \E e : Fail(e)
    BY <1>2, Zenon DEF LoadFieldAccessor
  <2> QED BY <2>1, <2>2, Behaving
<1>3. CASE Comparison \/ ContainsOrIn \/ RegexMatches
  <2>1. Effect(Instr.op) = -1
    <3>1. Instr.op \in Tests
      BY <1>3 DEF Comparison, ContainsOrIn, RegexMatches, At, Tests
    <3> QED BY <3>1, EffectOf
  <2>2. 2 \in Nat /\ 2 <= Len(stack)
    BY <1>3, Popped DEF Comparison, ContainsOrIn, RegexMatches
  <2>3. (\E v : Push(Rest(2), v)) \/ \E e : Fail(e)
    BY <1>3, Zenon DEF Comparison, ContainsOrIn, RegexMatches
  <2>4. 1 - 2 = -1
    OBVIOUS
  <2>5. (\E v : Push(Rest(2), v)) => Behaves(1 - 2)
    BY <2>2, Behaving
  <2>6. (\E e : Fail(e)) => Behaves(1 - 2)
    BY Behaving
  <2> QED BY <2>1, <2>3, <2>4, <2>5, <2>6
<1> QED BY <1>1, <1>2, <1>3

(* Those outside of loops, where a register is set and several names are   *)
(* assigned no dump.                                                       *)
LEMMA OthersBehave ==
  ASSUME StackShape, Ready, Others,
         ResetDump \/ PushDump => regDumpDst # 0,
         AssignMulti => Nth(1).tag # "dump"
  PROVE  Behaves(Effect(Instr.op))
<1>0. \A e, n : Fail(e) => Behaves(n)
  BY Behaving
<1>1. CASE Noop \/ CommandGetWorkingDir \/ CommandListDir \/ TempDump
  <2>1. Effect(Instr.op) = 0
    BY <1>1, EffectOf
       DEF Noop, CommandGetWorkingDir, CommandListDir, TempDump, At
  <2>2. Advance(stack) \/ \E e : Fail(e)
    BY <1>1, Zenon DEF Noop, CommandGetWorkingDir, CommandListDir, TempDump
  <2> QED BY <1>0, <2>1, <2>2, Behaving
<1>2. CASE Dup \/ LoadGoroutineDump
  <2>1. Effect(Instr.op) = 1
    BY <1>2, EffectOf DEF Dup, LoadGoroutineDump, At
  <2>2. (\E v : Push(stack, v)) \/ \E e : Fail(e)
    BY <1>2, Zenon DEF Dup, LoadGoroutineDump
  <2> QED BY <1>0, <2>1, <2>2, Behaving
<1>3. CASE Assignment \/ AssignMulti
  <2>1. Effect(Instr.op) = 0
    BY <1>3, EffectOf DEF Assignment, AssignMulti, At
  <2>2. Advance(stack) \/ \E e : Fail(e)
    BY <1>3, Zenon DEF Assignment, AssignMulti
  <2> QED BY <1>0, <2>1, <2>2, Behaving
<1>4. CASE ResetDump
  <2>1. Instr.op = "ResetDump" /\ Effect(Instr.op) = 0
    BY <1>4, EffectOf DEF ResetDump, At
  <2>2. Advance(stack)
    BY <1>4, <2>1 DEF ResetDump
  <2> QED BY <2>1, <2>2, Behaving
<1>5. CASE PushDump
  <2>1. Instr.op = "PushDump" /\ Effect(Instr.op) = 1
    BY <1>5, EffectOf DEF PushDump, At
  <2>2. \E v : Push(stack, v)
    BY <1>5, <2>1, Zenon DEF PushDump
  <2> QED BY <2>1, <2>2, Behaving
<1>6. CASE FuncUnion \/ FuncIntersect \/ FuncDiff \/ FuncGraph
  <2>1. Effect(Instr.op) = -1
    BY <1>6, EffectOf DEF FuncUnion, FuncIntersect, FuncDiff, FuncGraph, At
  <2>2. 2 \in Nat /\ 2 <= Len(stack)
    BY <1>6, Popped DEF FuncUnion, FuncIntersect, FuncDiff, FuncGraph
  <2>3. \E v : Push(Rest(2), v)
    BY <1>6, Zenon DEF FuncUnion, FuncIntersect, FuncDiff, FuncGraph, PushNew
  <2>4. Behaves(1 - 2)
    BY <2>2, <2>3, Behaving
  <2>5. 1 - 2 = -1
    OBVIOUS
  <2> QED BY <2>1, <2>4, <2>5
<1>7. CASE FuncLoad
  <2>1. Effect(Instr.op) = 0 /\ 1 - 1 = 0
    BY <1>7, EffectOf DEF FuncLoad, At
  <2>2. 1 \in Nat /\ 1 <= Len(stack)
    BY <1>7, Popped DEF FuncLoad
  <2>3. (\E v : Push(Rest(1), v)) \/ \E e : Fail(e)
    BY <1>7, Zenon DEF FuncLoad, PushNew
  <2>4. Behaves(1 - 1)
    BY <1>0, <2>2, <2>3, Behaving
  <2> QED BY <2>1, <2>4
<1>8. CASE FuncSave \/ FuncShowDump
  <2>1. Effect(Instr.op) = -2 /\ 0 - 2 = -2
    BY <1>8, EffectOf DEF FuncSave, FuncShowDump, At
  <2>2. 2 \in Nat /\ 2 <= Len(stack)
    BY <1>8, Popped DEF FuncSave, FuncShowDump, StackShape
  <2>3. Advance(Rest(2)) \/ \E e : Fail(e)
    BY <1>8, Zenon DEF FuncSave, FuncShowDump
  <2>4. Behaves(0 - 2)
    BY <1>0, <2>2, <2>3, Behaving
  <2> QED BY <2>1, <2>4
<1>9. CASE FuncExport
  <2>1. Effect(Instr.op) = -1 /\ 0 - 1 = -1
    BY <1>9, EffectOf DEF FuncExport, At
  <2>2. 1 \in Nat /\ 1 <= Len(stack)
    BY <1>9, Popped DEF FuncExport, StackShape
  <2>3. Advance(Rest(1)) \/ \E e : Fail(e)
    BY <1>9, Zenon DEF FuncExport
  <2>4. Behaves(0 - 1)
    BY <1>0, <2>2, <2>3, Behaving
  <2> QED BY <2>1, <2>4
<1> QED BY <1>1, <1>2, <1>3, <1>4, <1>5, <1>6, <1>7, <1>8, <1>9, Zenon DEF Others

(* The loop adds a goroutine to a dump that takes one; jumps leave the     *)
(* stack, but for their condition, calls and returns leave it altogether.  *)
LEMMA MovesBehave ==
  ASSUME StackShape, Ready
  PROVE  /\ AddGoroutine /\ regDumpDst # 0 /\ regGoroutine # NoGoroutine
              /\ ~heap[regDumpDst].isIndexed => Behaves(0)
         /\ ConditionalJump => Behaves(-1)
         /\ JumpTo => Behaves(0)
         /\ Call /\ Instr.arg < Len(code.chunks) => Behaves(0)
         /\ Return /\ Len(frames) > 1 => Behaves(0)
<1>0. Len(stack) \in Nat /\ status = "running"
  BY DEF StackShape, Ready
<1>1. AddGoroutine /\ regDumpDst # 0 /\ regGoroutine # NoGoroutine
        /\ ~heap[regDumpDst].isIndexed => Behaves(0)
  BY Behaving DEF AddGoroutine
<1>2. ASSUME ConditionalJump PROVE Behaves(-1)
  <2>1. PICK ip : GoTo(ip, Rest(1))
    BY <1>2, Zenon DEF ConditionalJump, Advance
  <2>2. 1 \in Nat /\ 1 <= Len(stack)
    BY <1>2, Popped DEF ConditionalJump
  <2>3. Len(Rest(1)) = Len(stack) - 1
    BY <2>2, StacksBelow
  <2> HIDE DEF Rest
  <2> QED BY <1>0, <2>1, <2>3 DEF Behaves, GoTo
<1>3. JumpTo => Behaves(0)
  BY <1>0 DEF JumpTo, GoTo, Behaves
<1>4. Call /\ Instr.arg < Len(code.chunks) => Behaves(0)
  BY <1>0 DEF Call, Behaves
<1>5. Return /\ Len(frames) > 1 => Behaves(0)
  BY <1>0 DEF Return, Behaves
<1> QED BY <1>1, <1>2, <1>3, <1>4, <1>5

-----------------------------------------------------------------------------
(* How high the stack is where the machine is, by the text.                *)
Height == Heights(Main)

(* A loop comes back to its NextGoroutine with the goroutine on the dump.  *)
Turning == IsNext(Main, MainAt) /\ TagOf(1) = "goroutine"

(* The stack is as high as the text allows, what is about to be assigned   *)
(* to several names is a diff, and the dump a filter collects into takes   *)
(* goroutines.                                                             *)
RoomState ==
  /\ Len(frames) = 1 =>
       /\ Len(stack) <= Height[MainAt] + (IF Turning THEN 1 ELSE 0)
       /\ MainAt \in DOMAIN Main /\ IsMulti(code, Main[MainAt]) => TagOf(1) = "diff"
  /\ Len(frames) = 2 =>
       /\ Predicate = code.chunks[Main[MainAt - 1].arg + 1]
       /\ Len(stack) <= Height[MainAt - 1] + PredicateDepth[PredicateAt]
  /\ Elsewhere \/ ~heap[regDumpDst].isIndexed

(* The invariant, together with IInv, LoopInv and TypeOK.                  *)
RoomInv ==
  status = "running" =>
    /\ Compiled[src] \notin {CompileError, CompilePanic} /\ code = Compiled[src]
    /\ PanicFree(code) => RoomState

(* What the condition on the code says of the heights.                     *)
LEMMA HeightsReach ==
  ASSUME FlowShape, PanicFree(code)
  PROVE  /\ DOMAIN Main = 1..Len(Main) /\ Len(Main) \in Nat /\ StackSize \in Nat
         /\ DOMAIN Height = 1..(Len(Main) + 1)
         /\ \A i \in DOMAIN Height : Height[i] \in Nat /\ Height[i] <= StackSize
         /\ \A i \in DOMAIN Main : Reaches(Main, Height, i) /\ CallsSafely(code, Height, i)
<1>1. Main \in Seq(Instructions)
  BY Position, ElementOf DEF FlowShape, Main
<1>2. HasRoom(code) /\ StackSize \in Nat
  BY VMAssumption DEF PanicFree
<1>3. /\ DOMAIN Height = 1..(Len(Main) + 1)
      /\ \A i \in DOMAIN Height : Height[i] \in 0..StackSize
      /\ \A i \in DOMAIN Main : Reaches(Main, Height, i) /\ CallsSafely(code, Height, i)
  BY <1>2 DEF HasRoom, Height, Main
<1> QED BY <1>1, <1>2, <1>3

(* There is room for what an instruction pushes, in the first chunk or in  *)
(* a predicate.                                                            *)
LEMMA RoomInMain ==
  ASSUME FlowShape, PanicFree(code), Ready, StackShape, RoomState,
         Len(frames) = 1, Instr.op \notin {"JumpTo", "NextGoroutine"}
  PROVE  /\ Len(stack) + Effect(Instr.op) <= Height[MainAt + 1]
         /\ Len(stack) <= Height[MainAt]
         /\ Height[MainAt + 1] <= StackSize
<1>1. MainAt \in DOMAIN Main /\ Instr = Main[MainAt]
  BY Executed
<1>2. MainAt \in DOMAIN Height /\ MainAt + 1 \in DOMAIN Height
  BY <1>1, HeightsReach
<1>3. Height[MainAt] \in Nat /\ Height[MainAt + 1] \in Nat /\ Height[MainAt + 1] <= StackSize
  BY <1>2, HeightsReach
<1>4. ~Turning
  BY <1>1 DEF Turning, IsNext
<1>5. Len(stack) <= Height[MainAt] + 0 /\ Len(stack) \in Nat
  BY <1>4 DEF RoomState, StackShape
<1>6. Height[MainAt + 1] >= Height[MainAt] + Effect(Instr.op)
  <2>1. Reaches(Main, Height, MainAt)
    BY <1>1, HeightsReach
  <2> QED BY <1>1, <2>1 DEF Reaches
<1>7. Effect(Instr.op) \in Int
  BY EffectOf
<1> QED BY <1>3, <1>5, <1>6, <1>7

LEMMA RoomInPredicate ==
  ASSUME FlowShape, PanicFree(code), WellStacked(code), Ready, StackShape, RoomState,
         InPredicate, Instr.op \notin {"JumpTo", "Return"}
  PROVE  Len(stack) + Effect(Instr.op) <= StackSize
<1> DEFINE i == PredicateAt
           at == MainAt - 1
<1>1. i \in DOMAIN Predicate /\ Instr = Predicate[i] /\ Len(frames) = 2
  BY Executed DEF InPredicate
<1>2. /\ i + 1 \in DOMAIN PredicateDepth /\ PredicateDepth[i] \in Int
      /\ PredicateDepth[i] >= -1 /\ i \in DOMAIN PredicateDepth
      /\ PredicateDepth[i + 1] = DepthAfter(Instr.op, PredicateDepth[i])
      /\ \/ Evaluates(code, Predicate, PredicateDepth, i)
         \/ Instr.op = "Return" /\ PredicateDepth[i] = 1
  BY <1>1, PredicateStacked
<1>3. PredicateDepth[i] \in Nat
  <2>1. PICK m \in Nat : Walks(m) /\ Len(stack) = m + PredicateDepth[i]
    BY DEF InPredicate, Iterating
  <2>2. m <= Len(stack) /\ Len(stack) \in Nat
    BY <2>1 DEF Walks, StackShape
  <2> QED BY <1>2, <2>1, <2>2
<1>4. PredicateDepth[i + 1] = PredicateDepth[i] + Effect(Instr.op)
  <2>1. Instr.op \in Loads \cup Tests \cup Conditional
    BY <1>1, <1>2 DEF Evaluates
  <2>2. CASE Instr.op \in Loads
    <3>1. Effect(Instr.op) = 1
      BY <2>2, EffectOf
    <3>2. DepthAfter(Instr.op, PredicateDepth[i]) = PredicateDepth[i] + 1
      BY <1>3, <2>2 DEF DepthAfter, Loads
    <3> QED BY <1>2, <3>1, <3>2
  <2>3. CASE Instr.op \in Tests \cup Conditional
    <3>1. Effect(Instr.op) = -1
      BY <2>3, EffectOf
    <3>2. DepthAfter(Instr.op, PredicateDepth[i]) = PredicateDepth[i] - 1
      BY <1>3, <2>3 DEF DepthAfter, Loads, Tests, Comparisons, Conditional
    <3> QED BY <1>2, <1>3, <3>1, <3>2
  <2> QED BY <2>1, <2>2, <2>3
<1>5. /\ at \in DOMAIN Main /\ Main[at].op = "Call" /\ at \in DOMAIN Height
      /\ CallsSafely(code, Height, at) /\ Height[at] \in Nat
  BY HeightsReach DEF InPredicate
<1>6. Height[at] + PredicateDepth[i + 1] <= StackSize
  <2>1. PredicateDepth = Depths(code.chunks[Main[at].arg + 1], 0)
    BY <1>1 DEF PredicateDepth, RoomState
  <2>2. \A k \in DOMAIN PredicateDepth : Height[at] + PredicateDepth[k] <= StackSize
    BY <1>5, <2>1 DEF CallsSafely, Main
  <2> QED BY <1>2, <2>2
<1>7. Len(stack) <= Height[at] + PredicateDepth[i] /\ Len(stack) \in Nat
  BY <1>1 DEF RoomState, StackShape
<1>8. Effect(Instr.op) \in Int /\ StackSize \in Nat
  BY EffectOf, HeightsReach
<1> QED BY <1>3, <1>4, <1>5, <1>6, <1>7, <1>8

-----------------------------------------------------------------------------
(* Loops leave alone whether the dumps are indexed.                        *)
LEMMA IndexedStays ==
  ASSUME HeapShape, NEW q \in 1..Len(heap)
  PROVE  /\ \A r, n : heap' = [heap EXCEPT ![r].iterIndex = n]
                        => heap'[q].isIndexed = heap[q].isIndexed
         /\ \A r, gs : heap' = [heap EXCEPT ![r].goroutines = gs]
                        => heap'[q].isIndexed = heap[q].isIndexed
<1> PICK A, B, C : heap \in HeapOver(A, B, C)
  BY DEF HeapShape
<1> DEFINE R == [goroutines : A, iterIndex : B, isIndexed : C]
<1>1. heap \in Seq(R) /\ DOMAIN heap = 1..Len(heap)
  BY DEF HeapOver
<1>2. heap[q] \in R
  <2>1. \A T : heap \in Seq(T) => heap[q] \in T
    OBVIOUS
  <2> QED BY <1>1, <2>1, Zenon
<1>3. \A d \in R : \A x : /\ [d EXCEPT !.iterIndex = x].isIndexed = d.isIndexed
                          /\ [d EXCEPT !.goroutines = x].isIndexed = d.isIndexed
  OBVIOUS
<1>4. ASSUME NEW r, NEW n, heap' = [heap EXCEPT ![r].iterIndex = n]
      PROVE  heap'[q].isIndexed = heap[q].isIndexed
  <2>1. heap'[q] = IF q = r THEN [heap[q] EXCEPT !.iterIndex = n] ELSE heap[q]
    BY <1>1, <1>4
  <2> QED BY <1>2, <1>3, <2>1
<1>5. ASSUME NEW r, NEW gs, heap' = [heap EXCEPT ![r].goroutines = gs]
      PROVE  heap'[q].isIndexed = heap[q].isIndexed
  <2>1. heap'[q] = IF q = r THEN [heap[q] EXCEPT !.goroutines = gs] ELSE heap[q]
    BY <1>1, <1>5
  <2> QED BY <1>2, <1>3, <2>1
<1> QED BY <1>4, <1>5

(* The dump being collected is one of the heap.                            *)
LEMMA CollectedIsThere ==
  ASSUME IInv, status = "running", WellStacked(code), LoopState
  PROVE  Elsewhere \/ (regDumpDst \in 1..Len(heap) /\ regDumpDst # 0)
<1>1. FlowShape /\ Private /\ regDumpDst \in 0..Len(heap) /\ Len(heap) \in Nat
  BY HeapLength DEF IInv, Shapes
<1>2. Elsewhere \/ InFilter
  BY <1>1, FiltersInLoops
<1> QED BY <1>1, <1>2 DEF Private

(* What a step within a loop leaves as it is.                              *)
SameLoop(m) ==
  /\ \E d \in Nat : Topped(m, d)
  /\ heap'[regDumpDst'].isIndexed = heap[regDumpDst].isIndexed

LEMMA StaysInLoop ==
  ASSUME Stepping, InPredicate \/ InBody
  PROVE  \E m \in Nat : Walks(m) /\ SameLoop(m)
                        /\ \/ InPredicate /\ Len(stack) = m + PredicateDepth[PredicateAt]
                           \/ InBody /\ Len(stack) = m + MainDepth[MainAt]
<1>0. /\ Ready /\ FlowShape /\ StackShape /\ WellStacked(code) /\ HeapShape
      /\ Execute \/ Interrupt
      /\ code' = code /\ status' = "running" /\ status = "running"
      /\ regDumpDst \in 1..Len(heap)
  <2>1. status = "running"
    BY SteppingIs DEF Ready
  <2>2. ~Elsewhere
    <3>1. 2 # 1
      OBVIOUS
    <3>2. InPredicate => ~Elsewhere
      BY <3>1 DEF InPredicate, Elsewhere
    <3>3. InBody => ~Elsewhere
      BY DEF InBody, Elsewhere
    <3> QED BY <3>2, <3>3
  <2> QED BY <2>1, <2>2, SteppingIs, CollectedIsThere DEF Stepping, IInv, Shapes, LoopState
<1>1. SameDumps => heap'[regDumpDst'].isIndexed = heap[regDumpDst].isIndexed
  BY DEF SameDumps
<1>2. ~Crash
  BY <1>0 DEF Crash
<1>3. CASE InPredicate
  <2> DEFINE i == PredicateAt
  <2>1. PICK m \in Nat : Walks(m) /\ Len(stack) = m + PredicateDepth[i]
    BY <1>3 DEF InPredicate, Iterating
  <2>2. /\ Instr = Predicate[i] /\ PredicateDepth[i] \in Int /\ Len(frames) = 2
        /\ \/ Evaluates(code, Predicate, PredicateDepth, i)
           \/ Instr.op = "Return" /\ PredicateDepth[i] = 1
    BY <1>0, <1>3, Executed, PredicateStacked DEF InPredicate
  <2>3. PredicateDepth[i] \in Nat
    BY <1>0, <2>1, <2>2 DEF Walks, StackShape
  <2>4. CASE Evaluates(code, Predicate, PredicateDepth, i)
    <3>1. SameDumps /\ \E d \in Nat : Topped(m, d)
      BY <1>0, <2>1, <2>2, <2>3, <2>4, Evaluated
    <3> QED BY <1>1, <1>3, <2>1, <3>1 DEF SameLoop
  <2>5. CASE Instr.op = "Return"
    <3>1. Return
      BY <1>0, <2>5, Performed DEF LoopOps, Loads, Tests, Conditional, Comparisons
    <3>2. stack' = stack /\ SameDumps
      BY <1>2, <3>1 DEF Return, SameDumps, registers
    <3>3. Topped(m, PredicateDepth[i])
      BY <1>0, <2>1, <2>3, <3>2, ToppedStacks
    <3> QED BY <1>1, <1>3, <2>1, <2>3, <3>2, <3>3 DEF SameLoop
  <2> QED BY <2>2, <2>4, <2>5
<1>4. CASE InBody
  <2> DEFINE i == MainAt
  <2>1. PICK m \in Nat : Walks(m) /\ Len(stack) = m + MainDepth[i]
    BY <1>4 DEF InBody, Iterating
  <2>2. /\ Instr = Main[i] /\ MainDepth[i] \in Nat
        /\ \/ Evaluates(code, Main, MainDepth, i)
           \/ Instr.op = "Call"
           \/ Instr.op = "AddGoroutine"
    <3>1. /\ i \in DOMAIN Main /\ Instr = Main[i]
          /\ MainDepth[i] \in Int /\ MainDepth[i] >= 0
          /\ StackedLoop(code, Main, MainDepth, i)
      BY <1>0, <1>4, Executed, MainStacked DEF InBody
    <3> QED BY <3>1 DEF StackedLoop
  <2>3. CASE Evaluates(code, Main, MainDepth, i)
    <3>1. SameDumps /\ \E d \in Nat : Topped(m, d)
      BY <1>0, <2>1, <2>2, <2>3, Evaluated
    <3> QED BY <1>1, <1>4, <2>1, <3>1 DEF SameLoop
  <2>4. CASE Instr.op = "Call"
    <3>1. Call
      BY <1>0, <2>4, Performed DEF LoopOps, Loads, Tests, Conditional, Comparisons
    <3>2. stack' = stack /\ SameDumps
      BY <1>2, <3>1 DEF Call, SameDumps, registers
    <3>3. Topped(m, MainDepth[i])
      BY <1>0, <2>1, <2>2, <3>2, ToppedStacks
    <3> QED BY <1>1, <1>4, <2>1, <2>2, <3>2, <3>3 DEF SameLoop
  <2>5. CASE Instr.op = "AddGoroutine"
    <3>1. AddGoroutine
      BY <1>0, <2>5, Performed DEF LoopOps, Loads, Tests, Conditional, Comparisons
    <3>2. /\ stack' = stack /\ regDumpDst' = regDumpDst
          /\ \E gs : heap' = [heap EXCEPT ![regDumpDst].goroutines = gs]
      BY <1>2, <3>1 DEF AddGoroutine, registers, Advance, GoTo
    <3>3. Topped(m, MainDepth[i])
      BY <1>0, <2>1, <2>2, <3>2, ToppedStacks
    <3>4. heap'[regDumpDst'].isIndexed = heap[regDumpDst].isIndexed
      BY <1>0, <3>2, IndexedStays
    <3> QED BY <1>4, <2>1, <2>2, <3>3, <3>4 DEF SameLoop
  <2> QED BY <2>2, <2>3, <2>4, <2>5
<1> QED BY <1>3, <1>4

(* The loop that goes on is the same one.                                  *)
LEMMA SameGoroutine ==
  ASSUME NEW m \in Nat, Walks(m), SameLoop(m), LoopState'
  PROVE  /\ InPredicate' \/ InBody' \/ GoingOn'
         /\ \A n \in Nat : Walks(n)' => n = m
         /\ GoingOn' => TagOf(1)' = "goroutine"
<1>1. PICK d \in Nat : Topped(m, d)
  BY DEF SameLoop
<1>2. m \in 1..m /\ m \in 1..(m + d)
  BY DEF Walks
<1>3. m \in DOMAIN stack' /\ stack'[m].tag = "goroutine"
  BY <1>1, <1>2 DEF Topped, Walks
<1>4. InPredicate' \/ InBody' \/ GoingOn'
  <2>1. ~Silent(stack')
    BY <1>3 DEF Silent
  <2> QED BY <2>1 DEF LoopState, Entering, Elsewhere
<1>5. \A n \in Nat : Walks(n)' => n = m
  BY <1>3 DEF Walks
<1>6. GoingOn' => TagOf(1)' = "goroutine"
  <2> SUFFICES ASSUME GoingOn' PROVE TagOf(1)' = "goroutine"
    OBVIOUS
  <2>1. PICK n \in Nat : Walks(n)' /\ Len(stack') = n + 0
    BY DEF GoingOn, Iterating
  <2>2. n = m
    BY <1>5, <2>1
  <2>3. Len(stack') = m /\ 1 <= Len(stack') /\ Len(stack') + 1 - 1 = m
    BY <1>2, <2>1, <2>2
  <2> QED BY <1>3, <2>3 DEF TagOf, Nth
<1> QED BY <1>4, <1>5, <1>6

(* Nothing is assigned within a loop.                                      *)
LEMMA NoAssignments ==
  ASSUME FlowShape, WellStacked(code), code' = code, InBody' \/ GoingOn'
  PROVE  ~(MainAt \in DOMAIN Main /\ IsMulti(code, Main[MainAt]))'
<1> DEFINE t == MainAt'
<1>1. Main' = Main /\ MainDepth' = MainDepth
  BY SameCode
<1> SUFFICES ASSUME t \in DOMAIN Main, Main[t].op = "Assignment" PROVE FALSE
  BY <1>1 DEF IsMulti
<1>2. InBody'
  BY <1>1 DEF GoingOn, IsNext
<1>3. MainDepth[t] >= 0 /\ StackedLoop(code, Main, MainDepth, t)
  BY <1>1, <1>2, MainStacked DEF InBody
<1> QED BY <1>3 DEF StackedLoop, Evaluates, Loads, Tests, Comparisons, Conditional

(* The heights follow from the code.                                       *)
LEMMA SameHeights ==
  ASSUME code' = code
  PROVE  Height' = Height /\ (PanicFree(code)' <=> PanicFree(code))
BY SameCode DEF Height, PanicFree, HasRoom, FindsConstants, AssignsDiffs, HasDump

(* Within a predicate.                                                     *)
LEMMA RoomAfterPredicate ==
  ASSUME Stepping, PanicFree(code), LoopState', InPredicate, RoomState
  PROVE  RoomState'
<1>0. /\ Ready /\ FlowShape /\ StackShape /\ WellStacked(code)
      /\ code' = code /\ status' = "running" /\ Len(frames) = 2
      /\ Execute \/ Interrupt
      /\ Flow
  BY SteppingIs, Controlled DEF Stepping, InPredicate, Control
<1>1. PICK m \in Nat :
        /\ Walks(m) /\ SameLoop(m)
        /\ Len(stack) = m + PredicateDepth[PredicateAt]
  <2>1. ~InBody
    BY <1>0 DEF InBody
  <2> QED BY <2>1, StaysInLoop
<1> DEFINE at == MainAt - 1
<1>2. /\ at \in DOMAIN Main /\ Main[at].op = "Call" /\ at \in Nat /\ at + 1 = MainAt
      /\ at \in DOMAIN Height /\ at + 1 \in DOMAIN Height
      /\ Height[at] \in Nat /\ Height[at + 1] \in Nat
      /\ Reaches(Main, Height, at)
  <2>1. at \in DOMAIN Main /\ Main[at].op = "Call"
    BY DEF InPredicate
  <2>2. at \in 1..Len(Main) /\ Len(Main) \in Nat /\ DOMAIN Height = 1..(Len(Main) + 1)
    BY <1>0, <2>1, HeightsReach
  <2>3. MainAt \in Int
    BY <1>0, Position DEF MainAt
  <2>4. /\ at \in Nat /\ at + 1 = MainAt
        /\ at \in DOMAIN Height /\ at + 1 \in DOMAIN Height
    BY <2>2, <2>3
  <2> HIDE DEF at
  <2> QED BY <1>0, <2>1, <2>4, HeightsReach
<1>3. m <= Height[at]
  <2>1. Len(stack) <= Height[at] + PredicateDepth[PredicateAt]
    BY <1>0 DEF RoomState
  <2>2. PredicateDepth[PredicateAt] \in Int
    BY <1>0, PredicateStacked DEF InPredicate
  <2> QED BY <1>1, <1>2, <2>1, <2>2
<1>4. Main' = Main /\ Height' = Height
  BY <1>0, SameCode, SameHeights
<1>5. /\ InPredicate' \/ InBody' \/ GoingOn'
      /\ \A n \in Nat : Walks(n)' => n = m
      /\ GoingOn' => TagOf(1)' = "goroutine"
  BY <1>1, SameGoroutine
<1>6. ~heap'[regDumpDst'].isIndexed
  <2>1. ~Elsewhere
    BY <1>0 DEF Elsewhere
  <2> QED BY <1>1, <2>1 DEF RoomState, SameLoop
<1>7. ASSUME NEW ip \in Int, Moves(ip) PROVE RoomState'
  <2>1. Len(frames') = 2 /\ MainAt' = MainAt /\ Predicate' = Predicate
    BY <1>0, <1>7, MovedTo
  <2>2. InPredicate'
    BY <1>5, <2>1 DEF InBody, GoingOn
  <2>3. PICK n \in Nat : Walks(n)' /\ Len(stack') = n + PredicateDepth'[PredicateAt']
    BY <2>2 DEF InPredicate, Iterating
  <2>4. n = m
    BY <1>5, <2>3
  <2>5. PredicateDepth'[PredicateAt'] \in Int
    <3>1. PredicateDepth' = PredicateDepth
      BY <2>1 DEF PredicateDepth
    <3> QED BY <1>0, <2>2, <3>1, PredicateStacked DEF InPredicate
  <2>6. Len(stack') <= Height[at] + PredicateDepth'[PredicateAt']
    BY <1>2, <1>3, <2>3, <2>4, <2>5
  <2>7. Predicate' = code'.chunks[Main'[MainAt' - 1].arg + 1]
    BY <1>0, <1>4, <2>1 DEF RoomState
  <2>8. Len(frames') # 1
    BY <2>1
  <2> QED BY <1>4, <1>6, <2>1, <2>6, <2>7, <2>8 DEF RoomState
<1>8. ASSUME Returned PROVE RoomState'
  <2>1. Len(frames') = 1 /\ MainAt' = MainAt
    BY <1>0, <1>8, ReturnedTo
  <2>2. stack' = stack
    <3>1. Return
      BY <1>0, <1>8, Performed
         DEF Returned, LoopOps, Loads, Tests, Conditional, Comparisons
    <3> QED BY <1>0, <3>1 DEF Return, Crash
  <2>3. PredicateDepth[PredicateAt] = 1
    <3>1. PredicateAt \in DOMAIN Predicate /\ Instr = Predicate[PredicateAt]
      BY <1>0, Executed
    <3>2. ~Evaluates(code, Predicate, PredicateDepth, PredicateAt)
      BY <1>8, <3>1 DEF Returned, Evaluates, Loads, Tests, Comparisons, Conditional
    <3> QED BY <1>0, <3>1, <3>2, PredicateStacked
  <2>4. Height[MainAt] >= Height[at] + 1
    <3>1. Effect("Call") = 1
      BY EffectOf
    <3> QED BY <1>2, <3>1 DEF Reaches
  <2>5. Len(stack') <= Height[MainAt] /\ Height[MainAt] \in Nat
    BY <1>1, <1>2, <1>3, <2>2, <2>3, <2>4
  <2>6. ~(MainAt \in DOMAIN Main /\ IsMulti(code, Main[MainAt]))'
    <3>1. InBody' \/ GoingOn'
      BY <1>5, <2>1 DEF InPredicate
    <3> QED BY <1>0, <3>1, NoAssignments
  <2>7. Len(stack') <= Height'[MainAt'] + (IF Turning THEN 1 ELSE 0)'
    BY <1>0, <1>4, <2>1, <2>2, <2>5 DEF StackShape
  <2> QED BY <1>6, <2>1, <2>6, <2>7 DEF RoomState
<1>9. NextIp \in Int /\ Instr.arg - 1 \in Int /\ ~Called
  BY <1>0, Executed, Instructed DEF Called
<1> QED BY <1>0, <1>7, <1>8, <1>9 DEF Flow

(* Between the instructions of a loop.                                     *)
LEMMA RoomAfterBody ==
  ASSUME Stepping, PanicFree(code), LoopState', InBody, RoomState
  PROVE  RoomState'
<1>0. /\ Ready /\ FlowShape /\ StackShape /\ WellStacked(code)
      /\ code' = code /\ status' = "running" /\ Len(frames) = 1
      /\ Execute \/ Interrupt
      /\ Flow
  BY SteppingIs, Controlled DEF Stepping, InBody, Control
<1> DEFINE at == MainAt
<1>1. PICK m \in Nat : Walks(m) /\ SameLoop(m) /\ Len(stack') \in Nat
  <2>1. PICK m \in Nat : Walks(m) /\ SameLoop(m)
    BY StaysInLoop
  <2>2. Len(stack') \in Nat
    BY <2>1 DEF SameLoop, Topped
  <2> QED BY <2>1, <2>2
<1>2. /\ at \in DOMAIN Main /\ Instr = Main[at] /\ NextIp + 1 = at
      /\ at \in DOMAIN Height /\ at + 1 \in DOMAIN Height
      /\ Height[at] \in Nat /\ Height[at + 1] \in Nat
      /\ Reaches(Main, Height, at) /\ ~IsNext(Main, at)
  <2>1. at \in DOMAIN Main /\ Instr = Main[at] /\ NextIp + 1 = at
    BY <1>0, Executed
  <2>2. at \in DOMAIN Height /\ at + 1 \in DOMAIN Height
    BY <1>0, <2>1, HeightsReach
  <2> QED BY <1>0, <2>1, <2>2, HeightsReach DEF InBody
<1>3. Len(stack) <= Height[at] /\ Len(stack) \in Nat
  BY <1>0, <1>2 DEF RoomState, Turning, StackShape
<1>4. Main' = Main /\ Height' = Height
  BY <1>0, SameCode, SameHeights
<1>5. /\ InPredicate' \/ InBody' \/ GoingOn'
      /\ GoingOn' => TagOf(1)' = "goroutine"
  BY <1>1, SameGoroutine
<1>6. ~heap'[regDumpDst'].isIndexed
  <2>1. ~Elsewhere
    BY DEF Elsewhere, InBody
  <2> QED BY <1>1, <2>1 DEF RoomState, SameLoop
<1>7. Instr.op \in Loads \cup Tests \cup Conditional \cup {"JumpTo", "Call", "AddGoroutine"}
  <2>1. MainDepth[at] >= 0 /\ StackedLoop(code, Main, MainDepth, at)
    BY <1>0, <1>2, MainStacked DEF InBody
  <2> QED BY <1>2, <2>1 DEF StackedLoop, Evaluates
<1>8. ASSUME NEW t, Len(frames') = 1, MainAt' = t, t \in DOMAIN Height,
             Len(stack') <= Height[t] + (IF IsNext(Main, t) THEN 1 ELSE 0)
      PROVE  RoomState'
  <2>1. InBody' \/ GoingOn'
    BY <1>5, <1>8 DEF InPredicate
  <2>2. ~(MainAt \in DOMAIN Main /\ IsMulti(code, Main[MainAt]))'
    BY <1>0, <2>1, NoAssignments
  <2>3. IsNext(Main, t) => Turning'
    <3> SUFFICES ASSUME IsNext(Main, t) PROVE Turning'
      OBVIOUS
    <3>1. IsNext(Main, MainAt)'
      BY <1>4, <1>8
    <3>2. GoingOn'
      BY <2>1, <3>1 DEF InBody
    <3> QED BY <1>5, <3>1, <3>2 DEF Turning
  <2>4. Turning' => IsNext(Main, t)
    BY <1>4, <1>8 DEF Turning
  <2>5. Len(stack') <= Height'[MainAt'] + (IF Turning THEN 1 ELSE 0)'
    BY <1>4, <1>8, <2>3, <2>4
  <2> QED BY <1>6, <1>8, <2>2, <2>5 DEF RoomState
<1>9. CASE Instr.op \notin Conditional \cup {"JumpTo", "Call"}
  <2>1. Moves(NextIp)
    BY <1>0, <1>7, <1>9 DEF Flow, Called, Returned, Jumps, Conditional, Loads, Tests, Comparisons
  <2>2. Len(frames') = 1 /\ MainAt' = at + 1
    <3>1. NextIp \in Int /\ NextIp + 2 = at + 1
      BY <1>0, <1>2, Executed
    <3> QED BY <1>0, <2>1, <3>1, MovedTo
  <2>3. Len(stack') <= Len(stack) + Effect(Instr.op) /\ Effect(Instr.op) \in Int
    <3>0. Effect(Instr.op) \in Int
      BY EffectOf
    <3>1. CASE Instr.op = "AddGoroutine"
      <4>1. AddGoroutine
        BY <1>0, <3>1, Performed DEF LoopOps, Loads, Tests, Conditional, Comparisons
      <4>2. stack' = stack /\ Effect(Instr.op) = 0
        BY <1>0, <3>1, <4>1, EffectOf DEF AddGoroutine, Crash, Advance, GoTo
      <4> QED BY <1>3, <4>2
    <3>2. CASE Instr.op \in Loads \cup Tests
      <4>1. \/ LoadConstant \/ PushBool \/ LoadFieldAccessor
            \/ Comparison \/ ContainsOrIn \/ RegexMatches
        BY <1>0, <3>2, Performed DEF LoopOps, Loads, Tests, Conditional, Comparisons
      <4> QED BY <1>0, <3>0, <4>1, LoadsAndTestsBehave DEF Behaves
    <3> QED BY <1>7, <1>9, <3>1, <3>2
  <2>4. Len(stack') <= Height[at + 1]
    <3>1. Height[at + 1] >= Height[at] + Effect(Instr.op)
      BY <1>2, <1>9 DEF Reaches
    <3> QED BY <1>1, <1>2, <1>3, <2>3, <3>1
  <2> QED BY <1>2, <1>8, <2>2, <2>4
<1>10. CASE Instr.op \in Conditional \cup {"JumpTo"}
  <2> DEFINE left == IF Instr.op \in Conditional THEN Height[at] - 1 ELSE Height[at]
  <2>1. /\ Len(stack') <= left
        /\ Moves(Instr.arg - 1) \/ (Instr.op \in Conditional /\ Moves(NextIp))
    <3>1. CASE Instr.op \in Conditional
      <4>1. ConditionalJump
        BY <1>0, <3>1, Performed DEF LoopOps, Loads, Tests, Conditional, Comparisons
      <4>2. Behaves(-1)
        BY <1>0, <4>1, MovesBehave
      <4>3. Moves(Instr.arg - 1) \/ Moves(NextIp)
        BY <4>1, Zenon DEF ConditionalJump, Advance, GoTo, Moves, WithIp
      <4> QED BY <1>0, <1>1, <1>2, <1>3, <3>1, <4>2, <4>3 DEF Behaves
    <3>2. CASE Instr.op = "JumpTo"
      <4>1. JumpTo
        BY <1>0, <3>2, Performed DEF LoopOps, Loads, Tests, Conditional, Comparisons
      <4>2. stack' = stack /\ Moves(Instr.arg - 1)
        BY <4>1, Zenon DEF JumpTo, GoTo, Moves, WithIp
      <4> QED BY <1>2, <1>3, <3>2, <4>2 DEF Conditional
    <3> QED BY <1>10, <3>1, <3>2
  <2>2. CASE Instr.op \in Conditional /\ Moves(NextIp)
    <3>1. Len(frames') = 1 /\ MainAt' = at + 1
      <4>1. NextIp \in Int /\ NextIp + 2 = at + 1
        BY <1>0, <1>2, Executed
      <4> QED BY <1>0, <2>2, <4>1, MovedTo
    <3>2. Height[at + 1] >= left
      <4>1. Effect(Instr.op) = -1 /\ Instr.op # "JumpTo"
        BY <2>2, EffectOf DEF Conditional
      <4> QED BY <1>2, <2>2, <4>1 DEF Reaches
    <3>3. Len(stack') <= Height[at + 1]
      BY <1>1, <1>2, <2>1, <3>2
    <3> QED BY <1>2, <1>8, <3>1, <3>3
  <2>3. CASE Moves(Instr.arg - 1)
    <3> DEFINE t == Instr.arg + 1
    <3>1. Len(frames') = 1 /\ MainAt' = t
      <4>1. Instr.arg - 1 \in Int /\ Instr.arg - 1 + 2 = t
        BY <1>0, Executed
      <4> QED BY <1>0, <2>3, <4>1, MovedTo
    <3>2. /\ t \in DOMAIN Height
          /\ left <= Height[t] + (IF IsNext(Main, t) THEN 1 ELSE 0)
      BY <1>2, <1>10 DEF Reaches
    <3>3. Height[t] \in Nat
      BY <1>0, <3>2, HeightsReach
    <3>4. Len(stack') <= Height[t] + (IF IsNext(Main, t) THEN 1 ELSE 0)
      <4>1. left \in Int
        BY <1>2
      <4> HIDE DEF left, t
      <4> QED BY <1>1, <2>1, <3>2, <3>3, <4>1
    <3> QED BY <1>8, <3>1, <3>2, <3>4
  <2> QED BY <2>1, <2>2, <2>3
<1>11. CASE Instr.op = "Call"
  <2>1. Called /\ stack' = stack
    <3>1. Call /\ ~Crash
      BY <1>0, <1>11, Performed
         DEF LoopOps, Loads, Tests, Conditional, Comparisons, Crash
    <3> QED BY <1>11, <3>1, Zenon DEF Call, Called, WithIp
  <2>2. /\ Len(frames') = 2 /\ MainAt' = at + 1 /\ PredicateAt' = 1
        /\ frames'[2].chunk = Instr.arg + 1
    BY <1>0, <2>1, CalledTo
  <2>3. Predicate' = code.chunks[Main[at].arg + 1]
    BY <1>0, <1>2, <2>2 DEF Predicate
  <2>4. MainAt' - 1 = at
    BY <1>0, <1>2, <2>2, Executed
  <2>5. PredicateDepth'[PredicateAt'] = 0
    <3>1. InPredicate'
      BY <1>5, <2>2 DEF InBody, GoingOn
    <3>2. frames'[2].chunk \in 2..Len(code.chunks)
      BY <1>0, <2>1, CalledTo
    <3>3. Predicate' = code.chunks[frames'[2].chunk]
      BY <1>0 DEF Predicate
    <3>4. StackedPredicate(code, Predicate')
      BY <1>0, <3>2, <3>3 DEF WellStacked
    <3>5. PredicateDepth' = Depths(Predicate', 0)
      BY DEF PredicateDepth
    <3> QED BY <2>2, <3>4, <3>5 DEF StackedPredicate
  <2>6. Len(stack') <= Height'[MainAt' - 1] + PredicateDepth'[PredicateAt']
    BY <1>2, <1>3, <1>4, <2>1, <2>4, <2>5
  <2>7. Len(frames') # 1
    BY <2>2
  <2>8. Predicate' = code'.chunks[Main'[MainAt' - 1].arg + 1]
    BY <1>0, <1>4, <2>3, <2>4
  <2> QED BY <1>6, <2>6, <2>7, <2>8 DEF RoomState
<1> QED BY <1>9, <1>10, <1>11

(* The stack that NextGoroutine finds, but for the goroutine whose turn is *)
(* over, has room for the next one.                                        *)
LEMMA RoomToIterate ==
  ASSUME Stepping, PanicFree(code), RoomState, Len(frames) = 1, IsNext(Main, MainAt)
  PROVE  \E ref, k, s :
           /\ Iterate(ref, k, s) /\ regDumpDst' = regDumpDst
           /\ \E S : s \in Seq(S)
           /\ Len(s) > 0 /\ Len(s) <= Height[MainAt]
<1>0. Ready /\ FlowShape /\ StackShape
  BY SteppingIs
<1>1. PICK S : stack \in Seq(S)
  BY <1>0 DEF StackShape
<1>2. Height[MainAt] \in Nat
  BY <1>0, Executed, HeightsReach
<1>3. /\ regDumpDst' = regDumpDst
      /\ \/ /\ TagOf(1) = "dump"
            /\ Iterate(Nth(1).ref, 0, stack)
         \/ /\ TagOf(1) = "goroutine" /\ TagOf(2) = "dump"
            /\ Iterate(Nth(2).ref, heap[Nth(2).ref].iterIndex, Rest(1))
  BY NextFinds
<1>4. Len(stack) <= Height[MainAt] + (IF Turning THEN 1 ELSE 0) /\ Len(stack) \in Nat
  BY <1>1 DEF RoomState
<1>5. CASE TagOf(1) = "dump" /\ Iterate(Nth(1).ref, 0, stack)
  <2>1. Len(stack) > 0
    BY <1>4, <1>5 DEF TagOf
  <2>2. Len(stack) <= Height[MainAt]
    BY <1>2, <1>4, <1>5 DEF Turning
  <2> QED BY <1>1, <1>3, <1>5, <2>1, <2>2
<1>6. CASE /\ TagOf(1) = "goroutine" /\ TagOf(2) = "dump"
           /\ Iterate(Nth(2).ref, heap[Nth(2).ref].iterIndex, Rest(1))
  <2>1. 2 <= Len(stack)
    BY <1>4, <1>6 DEF TagOf
  <2>2. Rest(1) \in Seq(S) /\ Len(Rest(1)) = Len(stack) - 1
    <3>1. 1 \in Nat /\ 1 <= Len(stack)
      BY <1>4, <2>1
    <3> QED BY <1>1, <3>1, RefsInPrefix DEF Rest
  <2> HIDE DEF Rest
  <2>3. Len(stack) <= Height[MainAt] + 1
    BY <1>2, <1>4
  <2>4. Len(Rest(1)) > 0 /\ Len(Rest(1)) <= Height[MainAt]
    BY <1>2, <1>4, <2>1, <2>2, <2>3
  <2> QED BY <1>3, <1>6, <2>2, <2>4
<1> QED BY <1>3, <1>5, <1>6

(* On to the next goroutine, or out of the loop.                           *)
LEMMA RoomAfterTurn ==
  ASSUME Stepping, PanicFree(code), LoopState', Entering \/ GoingOn, RoomState
  PROVE  RoomState'
<1>0. /\ Ready /\ FlowShape /\ StackShape /\ HeapShape /\ WellStacked(code)
      /\ code' = code /\ status' = "running"
      /\ Len(frames) = 1 /\ IsNext(Main, MainAt)
  BY SteppingIs DEF Stepping, IInv, Shapes, Entering, GoingOn
<1> DEFINE at == MainAt
<1>1. PICK ref, k, s :
        /\ Iterate(ref, k, s) /\ regDumpDst' = regDumpDst
        /\ \E S : s \in Seq(S)
        /\ Len(s) > 0 /\ Len(s) <= Height[at]
  BY <1>0, RoomToIterate
<1>2. /\ at \in DOMAIN Main /\ Instr = Main[at] /\ NextIp + 1 = at
      /\ Instr.op = "NextGoroutine" /\ Instr.arg \in Nat
  BY <1>0, Executed DEF IsNext
<1>3. /\ at + 1 \in DOMAIN Height /\ Height[at] \in Nat /\ Height[at + 1] \in Nat
      /\ Height[at + 1] >= Height[at] + 1
      /\ Instr.arg + 1 \in DOMAIN Height /\ Height[Instr.arg + 1] \in Nat
      /\ Height[Instr.arg + 1] >= Height[at] - 1
  <2>1. Reaches(Main, Height, at) /\ at \in DOMAIN Height /\ at + 1 \in DOMAIN Height
    BY <1>0, <1>2, HeightsReach
  <2>2. Effect("NextGoroutine") = 1
    BY EffectOf
  <2> QED BY <1>0, <1>2, <2>1, <2>2, HeightsReach DEF Reaches
<1>4. Main' = Main /\ Height' = Height
  BY <1>0, SameCode, SameHeights
<1>5. ~heap'[regDumpDst'].isIndexed
  <2>1. ~Elsewhere
    BY DEF Elsewhere, Entering, GoingOn
  <2>2. regDumpDst \in 1..Len(heap)
    BY <1>0, <2>1, CollectedIsThere DEF Stepping, LoopState, Ready
  <2>3. \E n : heap' = [heap EXCEPT ![ref].iterIndex = n]
    BY <1>1, Zenon DEF Iterate
  <2>4. heap'[regDumpDst].isIndexed = heap[regDumpDst].isIndexed
    BY <1>0, <2>2, <2>3, IndexedStays
  <2> QED BY <1>1, <2>1, <2>4 DEF RoomState
<1>6. ~Crash
  BY <1>0 DEF Crash
<1>7. ASSUME NEW t, Len(frames') = 1, MainAt' = t, t \in {at + 1, Instr.arg + 1},
             Len(stack') \in Nat, Len(stack') <= Height[t]
      PROVE  RoomState'
  <2>1. ~(t \in DOMAIN Main /\ IsMulti(code, Main[t]))
    <3> SUFFICES ASSUME t \in DOMAIN Main, IsMulti(code, Main[t]) PROVE FALSE
      OBVIOUS
    <3>1. AssignsDiffs(code)
      BY DEF PanicFree
    <3>2. /\ t > 1 /\ Main[t - 1].op = "FuncDiff"
          /\ \A j \in DOMAIN Main : IsNext(Main, j) => Main[j].arg + 1 # t
      BY <3>1 DEF AssignsDiffs, Main
    <3>3. CASE t = at + 1
      <4>1. t - 1 = at
        BY <1>0, <1>2, <3>3, Executed
      <4> QED BY <1>2, <3>2, <4>1
    <3>4. CASE t = Instr.arg + 1
      BY <1>0, <1>2, <3>2, <3>4
    <3> QED BY <1>7, <3>3, <3>4
  <2>2. Len(stack') <= Height'[MainAt'] + (IF Turning THEN 1 ELSE 0)'
    BY <1>3, <1>4, <1>7
  <2>3. ~(MainAt \in DOMAIN Main /\ IsMulti(code, Main[MainAt]))'
    BY <1>0, <1>4, <1>7, <2>1 DEF IsMulti
  <2> QED BY <1>5, <1>7, <2>2, <2>3 DEF RoomState
<1>8. PICK S : s \in Seq(S)
  BY <1>1
<1>9. CASE \E v : Push(s, v)
  <2>1. PICK v : Push(s, v)
    BY <1>9
  <2>2. stack' = Append(s, v) /\ Moves(NextIp)
    <3>1. Advance(Append(s, v))
      BY <1>6, <2>1 DEF Push
    <3> QED BY <3>1, Zenon DEF Advance, GoTo, Moves, WithIp
  <2>3. Len(stack') = Len(s) + 1 /\ Len(s) \in Nat
    BY <1>8, <2>2
  <2>4. Len(frames') = 1 /\ MainAt' = at + 1
    <3>1. NextIp \in Int /\ NextIp + 2 = at + 1
      BY <1>0, <1>2, Executed
    <3> QED BY <1>0, <2>2, <3>1, MovedTo
  <2>5. Len(stack') <= Height[at + 1] /\ Len(stack') \in Nat
    BY <1>1, <1>3, <2>3
  <2> QED BY <1>7, <2>4, <2>5
<1>10. CASE GoTo(Instr.arg - 1, SubSeq(s, 1, Len(s) - 1))
  <2>1. stack' = SubSeq(s, 1, Len(s) - 1) /\ Moves(Instr.arg - 1)
    BY <1>10, Zenon DEF GoTo, Moves, WithIp
  <2>2. Len(stack') = Len(s) - 1 /\ Len(s) \in Nat
    <3>1. 1 \in Nat /\ 1 <= Len(s) /\ Len(s) \in Nat
      BY <1>1, <1>8
    <3>2. Len(SubSeq(s, 1, Len(s) - 1)) = Len(s) - 1
      BY <1>8, <3>1, RefsInPrefix
    <3> QED BY <2>1, <3>1, <3>2
  <2>3. Len(frames') = 1 /\ MainAt' = Instr.arg + 1
    <3>1. Instr.arg - 1 \in Int /\ Instr.arg - 1 + 2 = Instr.arg + 1
      BY <1>2
    <3> QED BY <1>0, <2>1, <3>1, MovedTo
  <2>4. Len(stack') <= Height[Instr.arg + 1] /\ Len(stack') \in Nat
    BY <1>1, <1>3, <2>2
  <2> QED BY <1>7, <2>3, <2>4
<1> QED BY <1>1, <1>9, <1>10, Zenon DEF Iterate

(* FuncDiff is the one action for its instruction.                         *)
LEMMA OnlyFuncDiff ==
  ASSUME Others, Instr.op = "FuncDiff"
  PROVE  FuncDiff
<1>1. \/ Noop \/ Dup \/ LoadGoroutineDump \/ Assignment \/ AssignMulti
      \/ TempDump \/ ResetDump \/ PushDump
      \/ CommandGetWorkingDir \/ CommandListDir
      => Instr.op # "FuncDiff"
  BY DEF Noop, Dup, LoadGoroutineDump, Assignment, AssignMulti, TempDump, ResetDump,
         PushDump, CommandGetWorkingDir, CommandListDir, At
<1>2. FuncUnion \/ FuncIntersect \/ FuncGraph
      \/ FuncLoad \/ FuncSave \/ FuncShowDump \/ FuncExport
      => Instr.op # "FuncDiff"
  <2>1. \A op : At(op) => Instr.op = op
    BY DEF At
  <2>2. FuncUnion \/ FuncIntersect \/ FuncGraph
        \/ FuncLoad \/ FuncSave \/ FuncShowDump \/ FuncExport
        => \E op \in {"FuncUnion", "FuncIntersect", "FuncGraph", "FuncLoad", "FuncSave",
                      "FuncShowDump", "FuncToJSON", "FuncToDot"} : At(op)
    BY Zenon DEF FuncUnion, FuncIntersect, FuncGraph, FuncLoad, FuncSave, FuncShowDump,
                 FuncExport
  <2> QED BY <2>1, <2>2
<1> QED BY <1>1, <1>2, Zenon DEF Others

(* What a diff puts on the stack.                                          *)
LEMMA DiffOnTop ==
  ASSUME StackShape, FuncDiff, status' = "running"
  PROVE  TagOf(1)' = "diff"
<1>1. PICK S : stack \in Seq(S)
  BY DEF StackShape
<1>2. Rest(2) \in Seq(S)
  <2>1. 2 \in Nat /\ 2 <= Len(stack)
    BY Popped DEF FuncDiff
  <2> QED BY <1>1, <2>1, RefsInPrefix DEF Rest
<1>3. PICK l, c, r : Push(Rest(2), Diff(l, c, r))
  BY Zenon DEF FuncDiff
<1> DEFINE s == Rest(2)
           v == Diff(l, c, r)
<1>4. v.tag = "diff"
  BY DEF Diff
<1> HIDE DEF s, v
<1>5. stack' = Append(s, v)
  BY <1>3 DEF Push, Advance, GoTo, Crash, s, v
<1>6. s \in Seq(S)
  BY <1>2 DEF s
<1>7. /\ Len(stack') = Len(s) + 1 /\ Len(s) \in Nat
      /\ stack'[Len(s) + 1] = v
  BY <1>5, <1>6
<1>8. Len(stack') + 1 - 1 = Len(s) + 1 /\ 1 <= Len(stack')
  BY <1>7
<1> QED BY <1>4, <1>7, <1>8 DEF TagOf, Nth

(* Outside of loops.                                                       *)
LEMMA RoomAfterElsewhere ==
  ASSUME Stepping, PanicFree(code), LoopState', Elsewhere, RoomState
  PROVE  RoomState'
<1>0. /\ Ready /\ FlowShape /\ StackShape /\ HeapShape /\ WellStacked(code)
      /\ Execute \/ Interrupt
      /\ code' = code /\ status' = "running"
      /\ Len(frames) = 1 /\ Silent(stack)
  BY SteppingIs DEF Stepping, Elsewhere, IInv, Shapes
<1> DEFINE at == MainAt
<1>1. /\ at \in DOMAIN Main /\ at \in Nat /\ NextIp + 1 = at /\ Instr = Main[at]
      /\ NextIp \in Nat
  BY <1>0, Executed
<1>2. /\ at \in DOMAIN MainDepth /\ at + 1 \in DOMAIN MainDepth
      /\ StackedLoop(code, Main, MainDepth, at)
      /\ MainDepth[at + 1] = DepthAfter(Instr.op, -1)
  BY <1>0, <1>1, MainStacked DEF Elsewhere
<1>3. Instr.op \notin Conditional \cup
        {"JumpTo", "Call", "AddGoroutine", "NextGoroutine", "Return"}
  <2>1. Instr.op \notin Conditional \cup {"JumpTo", "Call", "AddGoroutine"}
    BY <1>1, <1>2 DEF StackedLoop, Elsewhere
  <2>2. Instr.op # "NextGoroutine"
    BY <1>1 DEF Elsewhere, IsNext
  <2>3. Instr.op # "Return"
    BY <1>0, Instructed
  <2> QED BY <2>1, <2>2, <2>3
<1>4. \/ LoadConstant \/ PushBool \/ LoadFieldAccessor
      \/ Comparison \/ ContainsOrIn \/ RegexMatches
      \/ Others
  BY <1>0, <1>3, Performed
<1>5. ~Crash
  BY <1>0 DEF Crash
<1>6. Len(stack') <= Len(stack) + Effect(Instr.op)
  <2>1. CASE \/ LoadConstant \/ PushBool \/ LoadFieldAccessor
             \/ Comparison \/ ContainsOrIn \/ RegexMatches
    BY <1>0, <2>1, LoadsAndTestsBehave DEF Behaves
  <2>2. CASE Others
    <3>1. ResetDump \/ PushDump => regDumpDst # 0
      BY <1>5 DEF ResetDump, PushDump
    <3>2. AssignMulti => Nth(1).tag # "dump"
      <4>1. "dump" # "diff"
        OBVIOUS
      <4> QED BY <1>5, <4>1, Zenon DEF AssignMulti
    <3> QED BY <1>0, <2>2, <3>1, <3>2, OthersBehave DEF Behaves
  <2> QED BY <1>4, <2>1, <2>2
<1>7. Moves(NextIp) /\ Len(frames') = 1 /\ MainAt' = at + 1
  <2>1. Works
    <3>1. CASE LoadConstant \/ PushBool \/ LoadFieldAccessor
      BY <3>1, LoadsWork, Zenon DEF Works
    <3>2. CASE Comparison \/ ContainsOrIn \/ RegexMatches
      BY <3>2, TestsWork, Zenon DEF Works
    <3>3. CASE Others
      BY <1>0, <3>3, OthersWork
    <3> QED BY <1>4, <3>1, <3>2, <3>3
  <2>2. Moves(NextIp)
    BY <1>0, <2>1, WorksInSilence
  <2>3. NextIp \in Int /\ NextIp + 2 = at + 1
    BY <1>1
  <2> QED BY <1>0, <2>2, <2>3, MovedTo
<1>8. Main' = Main /\ MainDepth' = MainDepth /\ Height' = Height
  BY <1>0, SameCode, SameHeights
<1>9. Len(stack') <= Height'[MainAt'] + (IF Turning THEN 1 ELSE 0)'
  <2>1. Len(stack) + Effect(Instr.op) <= Height[at + 1]
    BY <1>0, <1>3, RoomInMain
  <2>2. Height[at + 1] \in Nat
    BY <1>0, <1>1, HeightsReach
  <2>3. Len(stack') \in Nat /\ Len(stack) \in Nat /\ Effect(Instr.op) \in Int
    BY <1>0, EffectOf DEF StackShape
  <2> QED BY <1>6, <1>7, <1>8, <2>1, <2>2, <2>3
<1>10. ASSUME at + 1 \in DOMAIN Main, IsMulti(code, Main[at + 1])
       PROVE  TagOf(1)' = "diff"
  <2>1. AssignsDiffs(code)
    BY DEF PanicFree
  <2>2. Main[at].op = "FuncDiff"
    <3> DEFINE t == at + 1
    <3>1. t - 1 = at
      BY <1>1
    <3>2. t \in DOMAIN Main /\ IsMulti(code, Main[t])
      BY <1>10
    <3> HIDE DEF t
    <3>3. Main[t - 1].op = "FuncDiff"
      BY <2>1, <3>2 DEF AssignsDiffs, Main
    <3> QED BY <3>1, <3>3
  <2>3. Instr.op = "FuncDiff"
    BY <1>1, <2>2
  <2>4. Others
    BY <1>0, <2>3, Performed DEF LoopOps, Loads, Tests, Conditional, Comparisons
  <2> QED BY <1>0, <2>3, <2>4, OnlyFuncDiff, DiffOnTop
<1>11. Elsewhere' \/ ~heap'[regDumpDst'].isIndexed
  <2>1. CASE IsNext(Main, at + 1)
    <3>1. Instr.op = "TempDump"
      <4>1. at + 1 \in DOMAIN Main /\ at + 1 - 1 = at
        BY <1>1, <2>1 DEF IsNext
      <4> QED BY <1>0, <1>1, <2>1, <4>1, MainStacked DEF StackedLoop
    <3>2. TempDump
      BY <1>0, <3>1, OnlyTempDump
    <3>3. /\ heap' = Append(heap, NewDump(<<>>)) /\ regDumpDst' = Len(heap) + 1
      BY <3>2 DEF TempDump
    <3>4. heap'[Len(heap) + 1] = NewDump(<<>>)
      BY <1>0, <3>3, HeapAppended
    <3> QED BY <3>3, <3>4 DEF NewDump
  <2>2. CASE ~IsNext(Main, at + 1)
    <3>1. MainDepth[at + 1] = -1
      BY <1>2, <1>3 DEF DepthAfter
    <3>2. ~IsNext(Main, MainAt)'
      BY <1>7, <1>8, <2>2 DEF IsNext
    <3> QED BY <1>7, <1>8, <3>1, <3>2 DEF LoopState, InPredicate, Entering, GoingOn, InBody
  <2> QED BY <2>1, <2>2
<1>12. (MainAt \in DOMAIN Main /\ IsMulti(code, Main[MainAt]))' => TagOf(1)' = "diff"
  BY <1>0, <1>7, <1>8, <1>10 DEF IsMulti
<1> QED BY <1>7, <1>9, <1>11, <1>12 DEF RoomState

-----------------------------------------------------------------------------
(* Every step of a run keeps the invariant.                                *)
LEMMA RunStepRoom ==
  ASSUME IInv, LoopInv, LoopInv', RoomInv, RunStep
  PROVE  RoomInv'
<1>1. /\ Execute \/ Interrupt
      /\ code' = code /\ src' = src /\ Control
  BY Controlled DEF RunStep, Run
<1> SUFFICES ASSUME status' = "running"
             PROVE  /\ Compiled[src'] \notin {CompileError, CompilePanic}
                    /\ code' = Compiled[src'] /\ (PanicFree(code)' => RoomState')
  BY DEF RoomInv
<1>2. status = "running"
  BY <1>1 DEF Control, Flow, Ready
<1>3. WellStacked(code) /\ LoopState /\ LoopState'
  BY <1>2 DEF LoopInv
<1>4. Stepping
  BY <1>1, <1>3 DEF Stepping
<1>5. ASSUME PanicFree(code)' PROVE RoomState'
  <2>1. PanicFree(code)
    BY <1>1, <1>5, SameHeights
  <2>2. RoomState
    BY <1>2, <2>1 DEF RoomInv
  <2> QED BY <1>3, <1>4, <2>1, <2>2, RoomAfterPredicate, RoomAfterTurn, RoomAfterBody,
             RoomAfterElsewhere DEF LoopState
<1> QED BY <1>1, <1>2, <1>5 DEF RoomInv

(* A source starts with an empty stack.                                    *)
LEMMA EvalRoom ==
  ASSUME NEW s \in Sources, Eval(s)
  PROVE  RoomInv'
<1> SUFFICES ASSUME status' = "running"
             PROVE  /\ Compiled[src'] \notin {CompileError, CompilePanic}
                    /\ code' = Compiled[src'] /\ (PanicFree(code)' => RoomState')
  BY DEF RoomInv
<1>1. /\ Compiled[s] \notin {CompileError, CompilePanic}
      /\ code' = Compiled[s] /\ stack' = <<>> /\ Elsewhere'
      /\ Len(frames') = 1 /\ MainAt' = 1 /\ Len(Main') \in Nat
  BY EvalStarts
<1>2. src' = s
  BY DEF Eval
<1>3. ASSUME PanicFree(code)' PROVE RoomState'
  <2>1. Height'[1] \in Nat
    <3>1. HasRoom(code)'
      BY <1>3 DEF PanicFree
    <3>2. /\ DOMAIN Height' = 1..(Len(Main') + 1)
          /\ \A i \in DOMAIN Height' : Height'[i] \in 0..StackSize
      BY <3>1 DEF HasRoom, Height, Main
    <3>3. 1 \in 1..(Len(Main') + 1) /\ StackSize \in Nat
      BY <1>1, VMAssumption
    <3> QED BY <3>2, <3>3
  <2>2. TagOf(1)' = "none" /\ Len(stack') = 0
    BY <1>1 DEF TagOf
  <2>3. Len(stack') <= Height'[MainAt'] + (IF Turning THEN 1 ELSE 0)'
    BY <1>1, <2>1, <2>2 DEF Turning
  <2>4. ~IsMulti(code, Main[MainAt])' \/ MainAt' \notin DOMAIN Main'
    <3>1. AssignsDiffs(code)'
      BY <1>3 DEF PanicFree
    <3>2. ~(1 > 1)
      OBVIOUS
    <3> QED BY <1>1, <3>1, <3>2 DEF AssignsDiffs, Main
  <2> QED BY <1>1, <2>3, <2>4 DEF RoomState
<1> QED BY <1>1, <1>2, <1>3

LEMMA RoomUnchanged ==
  ASSUME UNCHANGED vars, RoomInv
  PROVE  RoomInv'
<1>1. UNCHANGED <<status, code, frames, stack, heap, regDumpDst, src>>
  BY DEF vars, vmVars, control, registers
<1>2. /\ Main' = Main /\ MainDepth' = MainDepth /\ MainAt' = MainAt /\ Height' = Height
      /\ Predicate' = Predicate /\ PredicateDepth' = PredicateDepth
      /\ PredicateAt' = PredicateAt
      /\ PanicFree(code)' <=> PanicFree(code)
  BY <1>1, SameCode, SameHeights DEF MainAt, PredicateAt
<1>3. TagOf(1)' = TagOf(1)
  BY <1>1 DEF TagOf, Nth
<1>4. (Turning' <=> Turning) /\ (Elsewhere' <=> Elsewhere)
  BY <1>1, <1>2, <1>3 DEF Turning, IsNext, Elsewhere, Silent
<1>5. IsMulti(code, Main[MainAt])' <=> IsMulti(code, Main[MainAt])
  BY <1>1, <1>2 DEF IsMulti
<1>6. RoomState => RoomState'
  BY <1>1, <1>2, <1>3, <1>4, <1>5 DEF RoomState
<1> QED BY <1>1, <1>2, <1>6 DEF RoomInv

LEMMA NextRoom ==
  ASSUME IInv, LoopInv, LoopInv', RoomInv, [Next]_vars
  PROVE  RoomInv'
<1>1. ASSUME NEW s \in Sources, CancelCompile(s) PROVE RoomInv'
  BY <1>1 DEF CancelCompile, vmVars, control, RoomInv
<1>2. CASE Finish \/ Confirm \/ Decline
  <2>1. status' # "running"
    BY <1>2 DEF Finish, Confirm, Decline
  <2> QED BY <2>1 DEF RoomInv
<1> QED BY <1>1, <1>2, RoomUnchanged, RunStepRoom, EvalRoom DEF Next

(* The invariant holds.                                                    *)
LEMMA RoomInvHolds == Spec => []RoomInv
<1>1. Init => RoomInv
  BY DEF Init, RoomInv
<1>2. IInv /\ LoopInv /\ LoopInv' /\ RoomInv /\ [Next]_vars => RoomInv'
  BY NextRoom
<1> QED BY <1>1, <1>2, IInvHolds, LoopInvHolds, PTL DEF Spec

-----------------------------------------------------------------------------
(* Whether an instruction can panic.  A source that is free of panics by   *)
(* its text is running.                                                    *)
Foreseen == /\ TypeOK /\ IInv /\ LoopInv /\ RoomInv
            /\ status = "running" /\ PanicFree(code)

LEMMA ForeseenIs ==
  ASSUME Foreseen
  PROVE  /\ FlowShape /\ StackShape /\ HeapShape /\ Private
         /\ WellStacked(code) /\ LoopState /\ RoomState
BY DEF Foreseen, IInv, Shapes, LoopInv, RoomInv

(* Where the machine is when it executes an instruction.                   *)
LEMMA ForeseenAt ==
  ASSUME Foreseen, Ready
  PROVE  /\ Len(frames) \in {1, 2}
         /\ Len(frames) = 2 =>
              /\ InPredicate
              /\ Instr.op \in Loads \cup Tests \cup Conditional \cup {"JumpTo", "Return"}
         /\ Instr.op \notin {"JumpTo", "NextGoroutine", "Return"} =>
              Len(stack) + Effect(Instr.op) <= StackSize
<1>0. /\ FlowShape /\ StackShape /\ WellStacked(code) /\ LoopState /\ RoomState
      /\ PanicFree(code)
  BY ForeseenIs DEF Foreseen
<1>1. Len(frames) \in {1, 2}
  BY <1>0, Executed
<1>2. ASSUME Len(frames) = 2
      PROVE  /\ InPredicate
             /\ Instr.op \in Loads \cup Tests \cup Conditional \cup {"JumpTo", "Return"}
  <2>1. InPredicate
    BY <1>0, <1>2 DEF LoopState, Entering, GoingOn, InBody, Elsewhere
  <2>2. PredicateAt \in DOMAIN Predicate /\ Instr = Predicate[PredicateAt]
    BY <1>0, <1>2, Executed
  <2>3. \/ Evaluates(code, Predicate, PredicateDepth, PredicateAt)
        \/ Predicate[PredicateAt].op = "Return"
    BY <1>0, <1>2, <2>2, PredicateStacked
  <2> QED BY <2>1, <2>2, <2>3 DEF Evaluates
<1>3. ASSUME Instr.op \notin {"JumpTo", "NextGoroutine", "Return"}
      PROVE  Len(stack) + Effect(Instr.op) <= StackSize
  <2>1. CASE Len(frames) = 1
    <3>1. /\ Len(stack) + Effect(Instr.op) <= Height[MainAt + 1]
          /\ Height[MainAt + 1] <= StackSize
      BY <1>0, <1>3, <2>1, RoomInMain
    <3>2. Height[MainAt + 1] \in Nat
      BY <1>0, <2>1, Executed, HeightsReach
    <3>3. /\ Len(stack) \in Nat /\ Effect(Instr.op) \in Int /\ StackSize \in Nat
      BY <1>0, EffectOf, VMAssumption DEF StackShape
    <3> QED BY <3>1, <3>2, <3>3
  <2>2. CASE Len(frames) = 2
    BY <1>0, <1>2, <1>3, <2>2, RoomInPredicate
  <2> QED BY <1>1, <2>1, <2>2
<1> QED BY <1>1, <1>2, <1>3

(* Those that push and pop.                                                *)
LEMMA WorkIsSafe ==
  ASSUME Foreseen,
         \/ LoadConstant \/ PushBool \/ LoadFieldAccessor
         \/ Comparison \/ ContainsOrIn \/ RegexMatches
  PROVE  status' # "crashed"
<1>1. Instr.op \in Loads \cup Tests
  BY Endings DEF LoadConstant, PushBool, LoadFieldAccessor, Comparison, ContainsOrIn,
                 RegexMatches, Loads, Tests
<1>2. Ready
  <2>1. \A op : At(op) => Ready
    BY Endings
  <2> QED BY <2>1, Zenon DEF LoadConstant, PushBool, LoadFieldAccessor, Comparison,
                             ContainsOrIn, RegexMatches
<1>3. Instr.op \notin {"JumpTo", "NextGoroutine", "Return"}
  BY <1>1 DEF Loads, Tests, Comparisons
<1>4. Len(stack) + Effect(Instr.op) <= StackSize
  BY <1>2, <1>3, ForeseenAt
<1>5. Behaves(Effect(Instr.op))
  BY <1>2, ForeseenIs, LoadsAndTestsBehave
<1> QED BY <1>4, <1>5 DEF Behaves

(* The instructions outside of loops: a filter has set the register, and   *)
(* what is assigned to several names is a diff.                            *)
LEMMA OutsideIsSafe ==
  ASSUME Foreseen, Others
  PROVE  status' # "crashed"
<1>0. FlowShape /\ StackShape /\ Private /\ RoomState /\ PanicFree(code)
  BY ForeseenIs DEF Foreseen
<1>1. Ready
  <2>1. \A op : At(op) => Ready
    BY Endings
  <2> QED BY <2>1, Zenon DEF Others, Noop, Dup, LoadGoroutineDump, Assignment, AssignMulti,
       TempDump, ResetDump, PushDump, FuncUnion, FuncIntersect, FuncDiff, FuncGraph,
       FuncLoad, FuncSave, FuncShowDump, FuncExport, CommandGetWorkingDir, CommandListDir
<1>2. Instr.op \notin LoopOps
  BY OthersAreOutside
<1>3. Instr.op \notin {"JumpTo", "NextGoroutine", "Return"}
  BY <1>2 DEF LoopOps
<1>4. /\ Len(stack) + Effect(Instr.op) <= StackSize
      /\ Len(frames) = 1
  BY <1>1, <1>2, <1>3, ForeseenAt DEF LoopOps
<1>5. MainAt \in DOMAIN Main /\ Instr = Main[MainAt]
  BY <1>0, <1>1, <1>4, Executed
<1>6. ASSUME ResetDump \/ PushDump PROVE regDumpDst # 0
  <2>1. Instr.op \in {"ResetDump", "PushDump"}
    BY <1>6, Endings DEF ResetDump, PushDump
  <2>2. Collecting(Main, MainAt)
    BY <1>0, <1>5, <2>1 DEF PanicFree, HasDump, Main
  <2>3. InFilter
    BY <2>2 DEF InFilter, Main, MainAt
  <2> QED BY <1>0, <2>3 DEF Private
<1>7. ASSUME AssignMulti PROVE Nth(1).tag # "dump"
  <2>1. At("Assignment") /\ Constant.tag = "multi"
    BY <1>7 DEF AssignMulti
  <2>2. Instr.op = "Assignment" /\ HasConstant
    BY <2>1 DEF At, Fetches
  <2>3. IsMulti(code, Main[MainAt])
    BY <1>5, <2>1, <2>2 DEF IsMulti, HasConstant, Constant
  <2>4. TagOf(1) = "diff"
    BY <1>0, <1>4, <1>5, <2>3 DEF RoomState
  <2>5. "diff" # "none" /\ "diff" # "dump"
    OBVIOUS
  <2> QED BY <2>4, <2>5 DEF TagOf
<1>8. Behaves(Effect(Instr.op))
  BY <1>0, <1>1, <1>6, <1>7, OthersBehave
<1> QED BY <1>4, <1>8 DEF Behaves

(* A goroutine is added while its loop has one, to the filter's own dump.  *)
LEMMA AddingIsSafe ==
  ASSUME Foreseen, AddGoroutine
  PROVE  status' # "crashed"
<1>0. /\ FlowShape /\ StackShape /\ WellStacked(code) /\ LoopState /\ RoomState
      /\ IInv /\ status = "running" /\ TypeOK
  BY ForeseenIs DEF Foreseen
<1>1. Ready /\ Instr.op = "AddGoroutine"
  BY Endings DEF AddGoroutine
<1>2. Len(frames) = 1 /\ Len(stack) + Effect(Instr.op) <= StackSize
  <2>1. Instr.op \notin {"JumpTo", "NextGoroutine", "Return"}
    BY <1>1
  <2> QED BY <1>0, <1>1, <2>1, ForeseenAt, Instructed
<1>3. MainAt \in DOMAIN Main /\ Instr = Main[MainAt]
  BY <1>0, <1>1, <1>2, Executed
<1>4. InBody
  <2>1. ~IsNext(Main, MainAt)
    BY <1>1, <1>3 DEF IsNext
  <2>2. StackedLoop(code, Main, MainDepth, MainAt)
    BY <1>0, <1>3, MainStacked
  <2>3. ~Elsewhere
    BY <1>1, <1>3, <2>2 DEF Elsewhere, StackedLoop
  <2> QED BY <1>0, <1>2, <2>1, <2>3 DEF LoopState, InPredicate, Entering, GoingOn
<1>5. regGoroutine # NoGoroutine
  <2>1. PICK m \in Nat : Walks(m)
    BY <1>4 DEF InBody, Iterating
  <2>2. m \in 1..Len(stack) /\ stack[m].tag = "goroutine" /\ stack[m].goroutine = regGoroutine
    BY <1>0, <2>1 DEF Walks, StackShape
  <2>3. stack[m] \in ValuesOver(Len(heap))
    BY <1>0, <2>2, ElementOf DEF TypeOK, VMTypeOK
  <2>4. stack[m].goroutine \in Goroutines
    BY <2>2, <2>3 DEF ValuesOver
  <2> QED BY <2>2, <2>4, VMAssumption
<1>6. ~Elsewhere
  BY <1>4 DEF InBody, Elsewhere
<1>7. regDumpDst # 0
  BY <1>0, <1>6, CollectedIsThere
<1>8. ~heap[regDumpDst].isIndexed
  BY <1>0, <1>6 DEF RoomState
<1>9. Behaves(0)
  BY <1>0, <1>1, <1>5, <1>7, <1>8, MovesBehave
<1>10. Len(stack) + 0 <= StackSize
  <2>1. Effect(Instr.op) = 0
    BY <1>1, EffectOf
  <2> QED BY <1>2, <2>1
<1> QED BY <1>9, <1>10 DEF Behaves

(* The jumps lead somewhere.                                               *)
LEMMA MovingIsSafe ==
  ASSUME Foreseen, ConditionalJump \/ JumpTo \/ Call \/ Return
  PROVE  status' # "crashed"
<1>0. FlowShape /\ status = "running" /\ PanicFree(code)
  BY ForeseenIs DEF Foreseen
<1>1. CASE ConditionalJump \/ JumpTo
  <2>1. \E ip, s : GoTo(ip, s)
    BY <1>1, Zenon DEF ConditionalJump, JumpTo, Advance
  <2> QED BY <1>0, <2>1 DEF GoTo
<1>2. CASE Call
  <2>1. Ready /\ Instr.op = "Call"
    BY <1>2, Endings DEF Call
  <2>2. Len(frames) = 1
    BY <1>0, <2>1, Executed, Instructed
  <2>3. MainAt \in DOMAIN Main /\ Instr = Main[MainAt]
    BY <1>0, <2>1, <2>2, Executed
  <2>4. CallsSafely(code, Height, MainAt)
    BY <1>0, <2>3, HeightsReach
  <2>5. Instr.arg < Len(code.chunks)
    BY <2>1, <2>3, <2>4 DEF CallsSafely, Main
  <2> QED BY <1>0, <1>2, <2>5 DEF Call
<1>3. CASE Return
  <2>1. Ready /\ Instr.op = "Return"
    BY <1>3, Endings DEF Return
  <2>2. Len(frames) > 1
    <3>1. Len(frames) \in {1, 2} /\ Len(frames) # 1
      BY <1>0, <2>1, Executed, Instructed
    <3> QED BY <3>1
  <2> QED BY <1>0, <1>3, <2>2 DEF Return
<1> QED BY <1>1, <1>2, <1>3

(* There is room for the next goroutine.                                   *)
LEMMA IteratingIsSafe ==
  ASSUME Foreseen, NextGoroutine
  PROVE  status' # "crashed"
<1>0. /\ FlowShape /\ StackShape /\ RoomState
      /\ status = "running" /\ PanicFree(code)
  BY ForeseenIs DEF Foreseen
<1>1. Ready /\ Instr.op = "NextGoroutine"
  BY Endings DEF NextGoroutine
<1>2. Len(frames) = 1
  BY <1>1, ForeseenAt DEF Loads, Tests, Comparisons, Conditional
<1> DEFINE at == MainAt
<1>3. at \in DOMAIN Main /\ Instr = Main[at] /\ IsNext(Main, at)
  BY <1>0, <1>1, <1>2, Executed DEF IsNext
<1>4. /\ Height[at] \in Nat /\ StackSize \in Nat
      /\ Height[at] + 1 <= StackSize
  <2>1. /\ Reaches(Main, Height, at) /\ at \in DOMAIN Height /\ at + 1 \in DOMAIN Height
    BY <1>0, <1>2, <1>3, Executed, HeightsReach
  <2>2. Effect("NextGoroutine") = 1
    BY EffectOf
  <2>3. Height[at + 1] >= Height[at] + 1
    BY <1>1, <1>3, <2>1, <2>2 DEF Reaches
  <2> QED BY <1>0, <2>1, <2>3, HeightsReach
<1>5. Len(stack) <= Height[at] + (IF Turning THEN 1 ELSE 0) /\ Len(stack) \in Nat
  BY <1>0, <1>2 DEF RoomState, StackShape
<1>6. ASSUME NEW ref, NEW k, NEW s, Iterate(ref, k, s), Len(s) < StackSize
      PROVE  status' # "crashed"
  BY <1>0, <1>6 DEF Iterate, Push, Advance, GoTo
<1>7. TagOf(1) = "dump" => Len(stack) < StackSize
  BY <1>4, <1>5 DEF Turning
<1>8. TagOf(1) = "goroutine" => Len(Rest(1)) < StackSize
  <2> SUFFICES ASSUME TagOf(1) = "goroutine" PROVE Len(Rest(1)) < StackSize
    OBVIOUS
  <2>1. 1 \in Nat /\ 1 <= Len(stack)
    BY <1>5 DEF TagOf
  <2>2. Len(Rest(1)) = Len(stack) - 1
    BY <1>0, <2>1, StacksBelow
  <2> HIDE DEF Rest
  <2> QED BY <1>4, <1>5, <2>2
<1>9. \A e : Fail(e) => status' # "crashed"
  BY DEF Fail
<1> QED BY <1>6, <1>7, <1>8, <1>9, Zenon DEF NextGoroutine

(* No instruction refers to the constant past the last one.                *)
LEMMA ConstantsAreSafe ==
  ASSUME Foreseen, BadConstant \/ CommandHelp
  PROVE  status' # "crashed"
<1>0. FlowShape /\ PanicFree(code) /\ status = "running"
  BY ForeseenIs DEF Foreseen
<1>1. Ready /\ Instr.op \in Fetches \cup {"CommandHelp"}
  BY Endings DEF BadConstant, CommandHelp
<1>2. Len(code.constants) = 0 \/ Instr.arg # Len(code.constants)
  <2>1. Frame.chunk \in 1..Len(code.chunks) /\ NextIp + 1 \in 1..Len(Ops)
    BY <1>0, <1>1, Position DEF AnyFrames
  <2>2. /\ code.chunks \in Seq(Seq(Instructions)) /\ Ops \in Seq(Instructions)
    BY <1>0, <2>1, ElementOf DEF FlowShape, Ops
  <2>3. Frame.chunk \in DOMAIN code.chunks /\ NextIp + 1 \in DOMAIN Ops
    BY <2>1, <2>2
  <2>4. FindsConstants(code)
    BY <1>0 DEF PanicFree
  <2> QED BY <1>1, <2>3, <2>4 DEF FindsConstants, Ops, Instr
<1>3. \A e : Fail(e) => status' # "crashed"
  BY DEF Fail
<1> QED BY <1>2, <1>3, Zenon DEF BadConstant, CommandHelp

(* What ends the run otherwise ends it with an error, or in good order.    *)
LEMMA EndsAreSafe ==
  ASSUME status = "running",
         \/ CommandChangeDir \/ CommandEmpty \/ CommandQuit \/ CommandVars
         \/ CommandGetPragma \/ CommandSetPragma
         \/ BadOperands \/ OutOfGas \/ Halt \/ Interrupt
  PROVE  status' # "crashed"
<1>1. (\E e : Fail(e)) \/ Interrupt
  BY Zenon DEF CommandChangeDir, CommandEmpty, CommandQuit, CommandVars,
     CommandGetPragma, CommandSetPragma, BadOperands, OutOfGas, Halt
<1> QED BY <1>1 DEF Fail, Interrupt

LEMMA NoPanic ==
  ASSUME Foreseen, Execute \/ Interrupt
  PROVE  status' # "crashed"
<1>1. status = "running"
  BY DEF Foreseen
<1> QED BY <1>1, WorkIsSafe, OutsideIsSafe, AddingIsSafe, MovingIsSafe, IteratingIsSafe,
           ConstantsAreSafe, EndsAreSafe, Zenon DEF Execute, Others

-----------------------------------------------------------------------------
(* A source that panics has a text that does not rule it out, whatever the *)
(* dumps, the variables and the settings it finds, and whatever the        *)
(* sources before it left in the registers and in the heap.                *)
THEOREM PanicsForeseen == Spec => []PanicsAreForeseen
<1>1. Init => PanicsAreForeseen
  BY DEF Init, PanicsAreForeseen
<1>2. /\ PanicsAreForeseen /\ TypeOK /\ IInv /\ LoopInv /\ RoomInv
      /\ [Next]_vars
      => PanicsAreForeseen'
  <2> SUFFICES ASSUME PanicsAreForeseen, TypeOK, IInv, LoopInv, RoomInv, [Next]_vars,
                      status' = "crashed"
               PROVE  \/ Compiled[src'] = CompilePanic
                      \/ Compiled[src'] # CompileError /\ ~PanicFree(Compiled[src'])
    BY DEF PanicsAreForeseen
  <2>1. CASE UNCHANGED vars
    BY <2>1 DEF vars, vmVars, control, PanicsAreForeseen
  <2>2. ASSUME NEW s \in Sources, Eval(s) \/ CancelCompile(s)
        PROVE  Compiled[src'] = CompilePanic
    BY <2>2 DEF Eval, CancelCompile, vmVars, control
  <2>3. CASE Finish \/ Confirm \/ Decline
    BY <2>3 DEF Finish, Confirm, Decline
  <2>4. CASE RunStep
    <3>1. (Execute \/ Interrupt) /\ src' = src
      BY <2>4 DEF RunStep, Run
    <3>2. status = "running"
      BY <3>1, ExecuteRuns DEF Interrupt
    <3>3. Compiled[src] # CompileError /\ code = Compiled[src]
      BY <3>2 DEF RoomInv
    <3>4. ~PanicFree(code)
      BY <3>1, <3>2, NoPanic DEF Foreseen
    <3> QED BY <3>1, <3>3, <3>4
  <2> QED BY <2>1, <2>2, <2>3, <2>4 DEF Next
<1> QED BY <1>1, <1>2, AlwaysTyped, IInvHolds, LoopInvHolds, RoomInvHolds, PTL DEF Spec

(* So no source ends the process if the compiler panics on none of them    *)
(* and the code it makes of them is free of panics by its text.            *)
THEOREM NoCrash ==
  ASSUME \A s \in Sources :
           /\ Compiled[s] # CompilePanic
           /\ Compiled[s] = CompileError \/ PanicFree(Compiled[s])
  PROVE  Spec => []NeverCrashes
<1>1. FramesInv /\ PanicsAreForeseen => NeverCrashes
  BY DEF FramesInv, PanicsAreForeseen, NeverCrashes
<1> QED BY <1>1, FramesInvHolds, PanicsForeseen, PTL

=============================================================================
