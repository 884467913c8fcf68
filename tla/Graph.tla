------------------------------- MODULE Graph -------------------------------
(***************************************************************************)
(* The search behind the function graph: inGraphOf, graphAncestors and     *)
(* graphDescendants of graph.go, as a state machine with one step per      *)
(* iteration of their loops.                                               *)
(*                                                                         *)
(* An input pairs the dump the user filters (source) with the goroutines   *)
(* that match the filter (predicate).  The search walks the "created by"   *)
(* links up and then down from each goroutine of predicate; what it found  *)
(* is in result, and a goroutine is in the queue while it waits to be      *)
(* expanded.                                                               *)
(***************************************************************************)
EXTENDS GoroutineDump

CONSTANTS Goroutines,  \* the goroutines a dump may hold
          Inputs       \* the [source, predicate] pairs the search runs on

ASSUME GoroutinesAssumption == NoGoroutine \notin Goroutines

ASSUME InputsAssumption ==
  Inputs \subseteq [source : Seq(Goroutines), predicate : Seq(Goroutines)]

(* The dump that graph gets as predicate is its source with some of the    *)
(* goroutines left out: the loop of a filter adds them in their order.     *)
IsFiltered(kept, gs) ==
  \E at \in [DOMAIN kept -> DOMAIN gs] :
    /\ \A i, j \in DOMAIN kept : i < j => at[i] < at[j]
    /\ \A i \in DOMAIN kept : kept[i] = gs[at[i]]

ASSUME FilterAssumption ==
  \A in \in Inputs : IsFiltered(in.predicate, in.source)

VARIABLES input,   \* the arguments of inGraphOf
          phase,   \* "pick" | "up" | "down" | "done"
          k,       \* the goroutine of predicate being searched from
          queue,   \* the slice the code calls stack: taken from its front
          pos,     \* the loop over source inside graphDescendants
          result   \* the dump under construction, then the one returned

vars == <<input, phase, k, queue, pos, result>>

source == input.source
predicate == input.predicate

Init ==
  /\ input \in Inputs
  /\ phase = "pick"
  /\ k = 1
  /\ queue = <<>>
  /\ pos = 1
  /\ result = <<>>

\* Mutant: Add without the test for Has.
AddAlways(gs, g) == Append(gs, g)

AddTo(gs, g) == IF Has(gs, g) THEN gs ELSE Append(gs, g)

\* Mutant: the parent is added but never expanded.
DropExpanded(q, g) == Tail(q)

(* The goroutine at the front of the queue makes room for one at its end.  *)
Requeue(q, g) == Append(Tail(q), g)

-----------------------------------------------------------------------------
(* The body of inGraphOf's loop up to its first call.                      *)
Pick ==
  /\ phase = "pick" /\ k <= Len(predicate)
  /\ result' = AddTo(result, predicate[k])
  /\ queue' = <<predicate[k]>>
  /\ phase' = "up"
  /\ UNCHANGED <<input, k, pos>>

\* Mutant: parents are expanded again when they were found before.
ClimbAgain ==
  /\ phase = "up" /\ queue # <<>>
  /\ LET parent == ByID(source, Head(queue).createdBy)
     IN  IF parent = NoGoroutine
         THEN queue' = Tail(queue) /\ UNCHANGED result
         ELSE queue' = Requeue(queue, parent) /\ result' = AddTo(result, parent)
  /\ UNCHANGED <<input, phase, k, pos>>

(* One iteration of graphAncestors: the parent, unless it is not in the    *)
(* dump or was found before, is added and will be expanded in turn.        *)
Climb ==
  /\ phase = "up" /\ queue # <<>>
  /\ LET parent == ByID(source, Head(queue).createdBy)
     IN  IF parent = NoGoroutine \/ Has(result, parent)
         THEN queue' = Tail(queue) /\ UNCHANGED result
         ELSE /\ queue' = Requeue(queue, parent)
              /\ result' = Append(result, parent)
  /\ UNCHANGED <<input, phase, k, pos>>

\* Mutant: descends from everything found so far, not from the match.
StartDescentFromResult ==
  /\ phase = "up" /\ queue = <<>>
  /\ phase' = "down"
  /\ queue' = result
  /\ pos' = 1
  /\ UNCHANGED <<input, k, result>>

StartDescent ==
  /\ phase = "up" /\ queue = <<>>
  /\ phase' = "down"
  /\ queue' = <<predicate[k]>>
  /\ pos' = 1
  /\ UNCHANGED <<input, k, result>>

(* One iteration of the inner loop of graphDescendants, over source; the   *)
(* goroutine being expanded is the front of the queue.                     *)
Descend ==
  /\ phase = "down" /\ queue # <<>> /\ pos <= Len(source)
  /\ IF source[pos].createdBy = Head(queue).id /\ ~Has(result, source[pos])
     THEN /\ result' = Append(result, source[pos])
          /\ queue' = Append(queue, source[pos])
     ELSE UNCHANGED <<result, queue>>
  /\ pos' = pos + 1
  /\ UNCHANGED <<input, phase, k>>

\* Mutant: the inner loop does not start over for the next goroutine.
NextParentWithoutRestart ==
  /\ phase = "down" /\ queue # <<>> /\ pos > Len(source)
  /\ queue' = Tail(queue)
  /\ pos' = pos + 1
  /\ UNCHANGED <<input, phase, k, result>>

(* The end of the inner loop: the next goroutine of the queue.             *)
NextParent ==
  /\ phase = "down" /\ queue # <<>> /\ pos > Len(source)
  /\ queue' = Tail(queue)
  /\ pos' = 1
  /\ UNCHANGED <<input, phase, k, result>>

NextPredicate ==
  /\ phase = "down" /\ queue = <<>>
  /\ phase' = "pick"
  /\ k' = k + 1
  /\ UNCHANGED <<input, queue, pos, result>>

Finish ==
  /\ phase = "pick" /\ k > Len(predicate)
  /\ phase' = "done"
  /\ result' \in Sortings(result)
  /\ UNCHANGED <<input, k, queue, pos>>

Next == \/ Pick \/ Climb \/ StartDescent
        \/ Descend \/ NextParent \/ NextPredicate \/ Finish

Spec == Init /\ [][Next]_vars

(* The search is sequential code: it runs on as long as it has a step.     *)
FairSpec == Spec /\ WF_vars(Next)

-----------------------------------------------------------------------------
(* What graph is meant to return: the goroutines that match, everything    *)
(* above them and everything below them.  Ancestors is the smallest set    *)
(* with the matching goroutines that is closed under "parent of", and      *)
(* Descendants the smallest one closed under "child of".                   *)
Known == Range(source) \cup Range(predicate)

UpClosed(U) ==
  /\ Range(predicate) \subseteq U
  /\ \A g \in U : ByID(source, g.createdBy) # NoGoroutine
                    => ByID(source, g.createdBy) \in U

DownClosed(D) ==
  /\ Range(predicate) \subseteq D
  /\ \A g \in D : \A c \in Range(source) : c.createdBy = g.id => c \in D

Ancestors == {g \in Known : \A U \in SUBSET Known : UpClosed(U) => g \in U}

Descendants == {g \in Known : \A D \in SUBSET Known : DownClosed(D) => g \in D}

-----------------------------------------------------------------------------
(* Every variable holds a value of its kind.                               *)
TypeOK ==
  /\ source \in Seq(Goroutines) /\ predicate \in Seq(Goroutines)
  /\ phase \in {"pick", "up", "down", "done"}
  /\ k \in 1..(Len(predicate) + 1)
  /\ queue \in Seq(Goroutines)
  /\ pos \in 1..(Len(source) + 1)
  /\ result \in Seq(Goroutines)

(* graph never adds a goroutine that is neither a match, nor above a       *)
(* match, nor below a match: in particular not the other children of an    *)
(* ancestor, whatever is in the result already when it is visited.         *)
Sound == Range(result) \subseteq Ancestors \cup Descendants

(* A goroutine reached along several paths, or listed twice in the source, *)
(* is in the result once (Has guards every Add).                           *)
NoDuplicates ==
  \A i, j \in DOMAIN result : Same(result[i], result[j]) => i = j

(* A dump that lists every goroutine after the one that created it, and no *)
(* ID twice.                                                               *)
ParentsFirst(gs) ==
  \A i, j \in DOMAIN gs :
    /\ gs[i].id = gs[j].id => i = j
    /\ gs[i].id = gs[j].createdBy => i < j

(* On such a dump the search misses nothing, although each goroutine of    *)
(* predicate stops at whatever the ones before it added.                   *)
Complete ==
  phase = "done" /\ ParentsFirst(source)
    => Ancestors \cup Descendants \subseteq Range(result)

(* README.md, "Filter expressions": graph includes the goroutines that     *)
(* match "but also all goroutines that are ancestors or descendants of     *)
(* those goroutines", whatever the order of the dump.                      *)
CompleteInAnyOrder ==
  phase = "done" => Ancestors \cup Descendants \subseteq Range(result)

(* The search computes the function InGraphOf that the machine of module   *)
(* VM applies in one step, up to the order sort.Slice leaves open.         *)
ComputesInGraphOf ==
  phase = "done" => result \in Sortings(InGraphOf(source, predicate))

(* The search ends even on a dump whose "created by" links form a cycle.   *)
Terminates == <>(phase = "done")

=============================================================================
