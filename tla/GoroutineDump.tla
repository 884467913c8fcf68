--------------------------- MODULE GoroutineDump ---------------------------
(***************************************************************************)
(* The contents of a goroutine dump (type GoroutineDump in goroutines.go)  *)
(* and the algebra the functions of the language compute on them.  The     *)
(* contents are the field "goroutines": a sequence, in the order in which  *)
(* the goroutines were added.  Nothing in the program keeps it sorted or   *)
(* free of duplicates, so neither does this module.                        *)
(*                                                                         *)
(* A goroutine is a record with at least the fields id, hash (of the text  *)
(* of its trace) and createdBy (0 when the dump does not say).             *)
(***************************************************************************)
EXTENDS Integers, Sequences, SequencesExt

CONSTANT NoGoroutine   \* the nil *Goroutine

-----------------------------------------------------------------------------
(* Membership: two goroutines are the same when ID and hash agree.         *)
Same(g, p) == g.id = p.id /\ g.hash = p.hash

Has(gs, p) == \E i \in DOMAIN gs : Same(gs[i], p)

(* The first goroutine with that id, nil when there is none.               *)
ByID(gs, id) ==
  LET found == {i \in DOMAIN gs : gs[i].id = id}
  IN  IF found = {} THEN NoGoroutine ELSE gs[Min(found)]

-----------------------------------------------------------------------------
(* What sort.Slice may return: it orders by ID and promises nothing about  *)
(* goroutines whose IDs are equal.                                         *)
Sortings(gs) ==
  { [i \in DOMAIN gs |-> gs[p[i]]] :
      p \in { q \in Bijection(DOMAIN gs, DOMAIN gs) :
                \A i, j \in DOMAIN gs :
                  i < j => gs[q[i]].id <= gs[q[j]].id } }

(* Those of them that are in S, in their order.                            *)
Only(gs, S) ==
  FoldLeft(LAMBDA kept, g : IF g \in S THEN Append(kept, g) ELSE kept, <<>>, gs)

(* The goroutines of a dump that another dump has, and those it lacks.     *)
Shared(gs, other) == Only(gs, {g \in ToSet(gs) : Has(other, g)})
Missing(gs, other) == Only(gs, {g \in ToSet(gs) : ~Has(other, g)})

(* diff lists a shared goroutine once per side.                            *)
DiffCommon(left, right) == Shared(left, right) \o Shared(right, left)

-----------------------------------------------------------------------------
(* Index keeps the first goroutine of every hash.                          *)
Index(gs) ==
  FoldLeft(LAMBDA kept, g :
             IF \E i \in DOMAIN kept : kept[i].hash = g.hash
             THEN kept ELSE Append(kept, g),
           <<>>, gs)

SafeLimit(size, limit, offset) ==
  IF limit = 0 THEN size - offset ELSE Min({limit, size - offset})

\* Mutant: duplicates on the page are dropped, those before it count.
ShowPageThenIndex(gs, dedup, limit, offset) ==
  LET page == SubSeq(gs, offset + 1, offset + SafeLimit(Len(gs), limit, offset))
  IN  IF dedup = "none" THEN page ELSE Index(page)

(* The page of goroutines that Show prints.                                *)
ShowPage(gs, dedup, limit, offset) ==
  LET listed == IF dedup = "none" THEN gs ELSE Index(gs)
  IN  SubSeq(listed, offset + 1,
             offset + SafeLimit(Len(listed), limit, offset))

-----------------------------------------------------------------------------
\* Mutant: ancestors are not followed.
NoParent(source, g) == <<>>

ParentOf(source, g) ==
  IF ByID(source, g.createdBy) = NoGoroutine THEN <<>>
  ELSE <<ByID(source, g.createdBy)>>

ChildrenOf(source, g) ==
  Only(source, {c \in ToSet(source) : c.createdBy = g.id})

Near(source, g, up) == IF up THEN ParentOf(source, g) ELSE ChildrenOf(source, g)

Add(result, g) == IF Has(result, g) THEN result ELSE Append(result, g)
AddAll(result, gs) == FoldLeft(Add, result, gs)

(* A round of inGraphOf: what is near the first goroutine of the queue and *)
(* not in the result yet goes there and into the queue.                    *)
Round(source, up, s) ==
  IF s.queue = <<>> THEN s
  ELSE LET r == AddAll(s.result, Near(source, Head(s.queue), up))
       IN  [result |-> r,
            queue  |-> Tail(s.queue) \o SubSeq(r, Len(s.result) + 1, Len(r))]

(* inGraphOf as a function: from g breadth first, upwards or downwards.    *)
(* Every round takes one goroutine off the queue, and no goroutine of      *)
(* source is queued twice.                                                 *)
Explore(source, g, result, up) ==
  FoldLeft(LAMBDA s, i : Round(source, up, s),
           [result |-> result, queue |-> <<g>>],
           [i \in 1..(Len(source) + 1) |-> i]).result

(* The goroutines of the predicate dump, their ancestors and descendants,  *)
(* in the order found; inGraphOf then sorts them.                          *)
Visit(source, result, g) ==
  Explore(source, g, Explore(source, g, Add(result, g), TRUE), FALSE)

InGraphOf(source, predicate) ==
  FoldLeft(LAMBDA result, g : Visit(source, result, g), <<>>, predicate)

=============================================================================
