---------------------------- MODULE GraphProofs ----------------------------
(***************************************************************************)
(* What module Graph promises, proved for every set of goroutines and      *)
(* every input.  The invariant behind Sound says where each waiting        *)
(* goroutine is relative to the matches, which depends on the phase; the   *)
(* one behind Complete says which goroutines found so far have their       *)
(* parents and children, in terms of their places in the source.           *)
(* That the search computes InGraphOf takes a third: its state is the one  *)
(* after so many rounds of Explore, counted by the length of its queue.    *)
(***************************************************************************)
EXTENDS Graph, SequenceLemmas, FiniteSetTheorems

-----------------------------------------------------------------------------
(* A dump that is sorted holds the same goroutines at other places.        *)
LEMMA SortingsPermute ==
  ASSUME NEW S, NEW gs \in Seq(S), NEW out \in Sortings(gs)
  PROVE  /\ out \in Seq(S)
         /\ DOMAIN out = DOMAIN gs
         /\ \E p \in [DOMAIN gs -> DOMAIN gs] :
              /\ \A i, j \in DOMAIN gs : p[i] = p[j] => i = j
              /\ \A j \in DOMAIN gs : \E i \in DOMAIN gs : p[i] = j
              /\ \A i \in DOMAIN gs : out[i] = gs[p[i]]
<1>1. PICK p \in Bijection(DOMAIN gs, DOMAIN gs) :
         out = [i \in DOMAIN gs |-> gs[p[i]]]
  BY DEF Sortings
<1>2. /\ p \in [DOMAIN gs -> DOMAIN gs]
      /\ \A i, j \in DOMAIN gs : p[i] = p[j] => i = j
  BY DEF Bijection, Injection, IsInjective
<1>6. \A j \in DOMAIN gs : \E i \in DOMAIN gs : p[i] = j
  BY DEF Bijection, Surjection
<1>3. DOMAIN gs = 1..Len(gs) /\ Len(gs) \in Nat
  OBVIOUS
<1>4. \A i \in DOMAIN gs : gs[p[i]] \in S
  BY <1>2
<1>5. out \in Seq(S)
  BY <1>1, <1>3, <1>4, IsASeq
<1> QED BY <1>1, <1>2, <1>5, <1>6

(* A set of natural numbers that is not empty has a least element.         *)
LEMMA LeastNat ==
  ASSUME NEW T \in SUBSET Nat, T # {}
  PROVE  Min(T) \in T
<1> DEFINE R == {ss \in Nat \X Nat : ss[1] < ss[2]}
<1>1. IsWellFoundedOn(R, Nat)
  BY NatLessThanWellFounded DEF OpToRel
<1>2. PICK m \in T : \A y \in T : ~(<<y, m>> \in R)
  <2> HIDE DEF R
  <2> QED BY <1>1, WFMin
<1>3. ASSUME NEW y \in T PROVE m =< y
  <2>1. y \in Nat /\ m \in Nat /\ <<y, m>> \notin R
    BY <1>2
  <2> QED BY <2>1
<1> QED BY <1>3 DEF Min

(* byID returns nil or a goroutine of the dump.                            *)
LEMMA ByIDInDump ==
  ASSUME NEW S, NEW gs \in Seq(S), NEW id
  PROVE  ByID(gs, id) = NoGoroutine \/ ByID(gs, id) \in Range(gs)
<1> DEFINE found == {i \in DOMAIN gs : gs[i].id = id}
<1>1. found \in SUBSET Nat
  OBVIOUS
<1>2. CASE found = {}
  BY <1>2 DEF ByID
<1>3. CASE found # {}
  <2>1. Min(found) \in found
    BY <1>1, <1>3, LeastNat
  <2> QED BY <1>3, <2>1 DEF ByID, Range
<1> QED BY <1>2, <1>3

LEMMA RangeInSet ==
  ASSUME NEW S, NEW s \in Seq(S)
  PROVE  Range(s) \subseteq S
BY DEF Range

(* Appending puts one more element into the range of a sequence, taking    *)
(* the tail puts none in.                                                  *)
LEMMA RangeOfAppend ==
  ASSUME NEW S, NEW s \in Seq(S), NEW e \in S
  PROVE  /\ Append(s, e) \in Seq(S)
         /\ Range(Append(s, e)) = Range(s) \cup {e}
<1>1. /\ Append(s, e) \in Seq(S)
      /\ DOMAIN Append(s, e) = 1..(Len(s) + 1)
      /\ \A i \in 1..Len(s) : Append(s, e)[i] = s[i]
      /\ Append(s, e)[Len(s) + 1] = e
      /\ DOMAIN s = 1..Len(s) /\ Len(s) \in Nat
  OBVIOUS
<1>2. ASSUME NEW x \in Range(Append(s, e)) PROVE x \in Range(s) \cup {e}
  <2>1. PICK i \in 1..(Len(s) + 1) : x = Append(s, e)[i]
    BY <1>1, <1>2 DEF Range
  <2>2. CASE i = Len(s) + 1
    BY <1>1, <2>1, <2>2
  <2>3. CASE i \in 1..Len(s)
    BY <1>1, <2>1, <2>3 DEF Range
  <2> QED BY <1>1, <2>1, <2>2, <2>3
<1>3. ASSUME NEW x \in Range(s) \cup {e} PROVE x \in Range(Append(s, e))
  <2>1. CASE x = e
    BY <1>1, <2>1 DEF Range
  <2>2. CASE x \in Range(s)
    <3>1. PICK i \in 1..Len(s) : x = s[i]
      BY <1>1, <2>2 DEF Range
    <3>2. i \in 1..(Len(s) + 1)
      BY <1>1
    <3> QED BY <1>1, <3>1, <3>2 DEF Range
  <2> QED BY <1>3, <2>1, <2>2
<1> QED BY <1>1, <1>2, <1>3

LEMMA RangeOfTail ==
  ASSUME NEW S, NEW s \in Seq(S), s # <<>>
  PROVE  /\ Tail(s) \in Seq(S) /\ Head(s) \in Range(s)
         /\ Range(Tail(s)) \subseteq Range(s)
<1>1. /\ Tail(s) \in Seq(S) /\ Len(s) \in Nat \ {0}
      /\ Len(Tail(s)) = Len(s) - 1 /\ Head(s) = s[1]
      /\ \A i \in 1..Len(Tail(s)) : Tail(s)[i] = s[i + 1]
  OBVIOUS
<1>2. \A i \in DOMAIN Tail(s) : i + 1 \in DOMAIN s /\ Tail(s)[i] = s[i + 1]
  BY <1>1
<1> QED BY <1>1, <1>2 DEF Range

-----------------------------------------------------------------------------
(* The closure properties of the two sets the search is measured against.  *)
LEMMA MatchesRelated ==
  Range(predicate) \subseteq Ancestors /\ Range(predicate) \subseteq Descendants
BY DEF Ancestors, Descendants, Known, UpClosed, DownClosed

(* The parent of an ancestor is one.                                       *)
LEMMA ParentOfAncestor ==
  ASSUME source \in Seq(Goroutines), NEW g \in Ancestors,
         ByID(source, g.createdBy) # NoGoroutine
  PROVE  ByID(source, g.createdBy) \in Ancestors
<1>1. ByID(source, g.createdBy) \in Known
  BY ByIDInDump DEF Known
<1>2. ASSUME NEW U \in SUBSET Known, UpClosed(U)
      PROVE  ByID(source, g.createdBy) \in U
  <2>1. g \in U
    BY <1>2 DEF Ancestors
  <2> QED BY <1>2, <2>1 DEF UpClosed
<1> QED BY <1>1, <1>2 DEF Ancestors

(* The child of a descendant is one.                                       *)
LEMMA ChildOfDescendant ==
  ASSUME NEW g \in Descendants, NEW c \in Range(source), c.createdBy = g.id
  PROVE  c \in Descendants
<1>1. ASSUME NEW D \in SUBSET Known, DownClosed(D)
      PROVE  c \in D
  <2>1. g \in D
    BY <1>1 DEF Descendants
  <2> QED BY <1>1, <2>1 DEF DownClosed
<1> QED BY <1>1 DEF Descendants, Known

(* The invariant is inductive with the place of k in each phase, and with  *)
(* where the waiting goroutines come from.                                 *)
SearchInv ==
  /\ TypeOK
  /\ phase \in {"up", "down"} => k <= Len(predicate)
  /\ phase = "up" => Range(queue) \subseteq Ancestors
  /\ phase = "down" => Range(queue) \subseteq Descendants
  /\ Sound
  /\ NoDuplicates

(* Nothing is found at first.                                              *)
LEMMA SearchInvInit == Init => SearchInv
<1> SUFFICES ASSUME Init PROVE SearchInv
  OBVIOUS
<1>1. source \in Seq(Goroutines) /\ predicate \in Seq(Goroutines)
  BY InputsAssumption DEF Init, source, predicate
<1>2. Len(source) \in Nat /\ Len(predicate) \in Nat
  BY <1>1
<1>3. TypeOK
  BY <1>1, <1>2 DEF Init, TypeOK
<1>4. Range(result) = {}
  BY DEF Init, Range
<1> QED BY <1>3, <1>4 DEF SearchInv, Sound, NoDuplicates, Init

(* A goroutine added after the test for Has keeps the result free of       *)
(* duplicates.                                                             *)
LEMMA AppendFresh ==
  ASSUME result \in Seq(Goroutines), NoDuplicates,
         NEW g \in Goroutines, ~Has(result, g), result' = Append(result, g)
  PROVE  NoDuplicates'
<1>1. /\ DOMAIN result' = 1..(Len(result) + 1)
      /\ \A i \in 1..Len(result) : result'[i] = result[i]
      /\ result'[Len(result) + 1] = g
      /\ DOMAIN result = 1..Len(result) /\ Len(result) \in Nat
  OBVIOUS
<1>2. \A i \in 1..Len(result) : ~Same(result[i], g) /\ ~Same(g, result[i])
  BY <1>1 DEF Has, Same
<1>3. SUFFICES ASSUME NEW i \in DOMAIN result', NEW j \in DOMAIN result',
                      Same(result'[i], result'[j])
               PROVE  i = j
  BY DEF NoDuplicates, Same
<1>4. CASE i \in 1..Len(result) /\ j \in 1..Len(result)
  BY <1>1, <1>3, <1>4 DEF NoDuplicates
<1>5. CASE i = Len(result) + 1 /\ j \in 1..Len(result)
  BY <1>1, <1>2, <1>3, <1>5
<1>6. CASE i \in 1..Len(result) /\ j = Len(result) + 1
  BY <1>1, <1>2, <1>3, <1>6
<1> QED BY <1>1, <1>3, <1>4, <1>5, <1>6

(* One step per action; under it, what the action can disturb.             *)
LEMMA SearchInvStep ==
  ASSUME SearchInv, [Next]_vars
  PROVE  SearchInv'
<1> USE DEF SearchInv
<1>0. /\ Len(source) \in Nat /\ Len(predicate) \in Nat
      /\ source \in Seq(Goroutines) /\ predicate \in Seq(Goroutines)
  BY DEF TypeOK
<1>1. ASSUME UNCHANGED input
      PROVE  /\ source' = source /\ predicate' = predicate
             /\ Ancestors' = Ancestors /\ Descendants' = Descendants
  BY <1>1 DEF source, predicate, Ancestors, Descendants, Known,
              UpClosed, DownClosed
<1>2. CASE Pick
  <2>1. predicate[k] \in Goroutines /\ predicate[k] \in Range(predicate)
    BY <1>0, <1>2 DEF Pick, TypeOK, Range
  <2>2. /\ <<predicate[k]>> \in Seq(Goroutines)
        /\ Range(<<predicate[k]>>) = {predicate[k]}
    BY <2>1 DEF Range
  <2>3. TypeOK'
    BY <1>0, <1>1, <1>2, <2>1, <2>2 DEF Pick, TypeOK, AddTo
  <2>4. Range(result') \subseteq Range(result) \cup {predicate[k]}
    BY <1>2, <2>1, RangeOfAppend DEF Pick, AddTo, TypeOK
  <2>5. Sound'
    BY <1>1, <1>2, <2>1, <2>4, MatchesRelated DEF Pick, Sound
  <2>6. NoDuplicates'
    <3>1. CASE Has(result, predicate[k])
      BY <1>2, <3>1 DEF Pick, AddTo, NoDuplicates
    <3>2. CASE ~Has(result, predicate[k])
      BY <1>2, <2>1, <3>2, AppendFresh DEF Pick, AddTo, TypeOK
    <3> QED BY <3>1, <3>2
  <2>7. phase' = "up" /\ k' <= Len(predicate') /\ Range(queue') \subseteq Ancestors'
    BY <1>1, <1>2, <2>1, <2>2, MatchesRelated DEF Pick
  <2> QED BY <2>3, <2>5, <2>6, <2>7
<1>3. CASE Climb
  <2> DEFINE parent == ByID(source, Head(queue).createdBy)
  <2>1. /\ Tail(queue) \in Seq(Goroutines) /\ Head(queue) \in Range(queue)
        /\ Range(Tail(queue)) \subseteq Range(queue)
    BY <1>3, RangeOfTail DEF Climb, TypeOK
  <2>2. UNCHANGED <<input, phase, k, pos>> /\ phase = "up"
    BY <1>3 DEF Climb
  <2>3. CASE parent = NoGoroutine \/ Has(result, parent)
    <3>1. queue' = Tail(queue) /\ result' = result
      BY <1>3, <2>3 DEF Climb
    <3> QED
      BY <1>0, <1>1, <2>1, <2>2, <3>1 DEF TypeOK, Sound, NoDuplicates
  <2>4. CASE parent # NoGoroutine /\ ~Has(result, parent)
    <3>1. /\ queue' = Append(Tail(queue), parent)
          /\ result' = Append(result, parent)
      BY <1>3, <2>4 DEF Climb, Requeue
    <3>2. parent \in Goroutines /\ parent \in Ancestors
      <4>1. Head(queue) \in Ancestors
        BY <2>1, <2>2
      <4>2. parent \in Ancestors
        BY <1>0, <2>4, <4>1, ParentOfAncestor
      <4>3. parent \in Range(source)
        BY <1>0, <2>4, ByIDInDump
      <4> QED BY <1>0, <4>2, <4>3, RangeInSet
    <3> HIDE DEF parent
    <3>3. TypeOK'
      BY <1>0, <1>1, <2>1, <2>2, <3>1, <3>2 DEF TypeOK
    <3>4. Range(queue') \subseteq Range(queue) \cup {parent}
      <4>1. Tail(queue) \in Seq(Goroutines)
        BY <2>1
      <4>2. Range(Append(Tail(queue), parent)) = Range(Tail(queue)) \cup {parent}
        <5>1. \A s \in Seq(Goroutines), g \in Goroutines :
                Range(Append(s, g)) = Range(s) \cup {g}
          BY RangeOfAppend
        <5> QED BY <3>2, <4>1, <5>1, Zenon
      <4> QED BY <2>1, <3>1, <4>2
    <3>5. Range(result') = Range(result) \cup {parent}
      BY <3>1, <3>2, RangeOfAppend DEF TypeOK
    <3>6. NoDuplicates'
      BY <2>4, <3>1, <3>2, AppendFresh DEF TypeOK
    <3>7. Sound'
      BY <1>1, <2>2, <3>2, <3>5 DEF Sound
    <3> QED BY <1>1, <2>2, <3>2, <3>3, <3>4, <3>6, <3>7
  <2> QED BY <2>3, <2>4
<1>4. CASE StartDescent
  <2>1. predicate[k] \in Goroutines /\ predicate[k] \in Range(predicate)
    BY <1>0, <1>4 DEF StartDescent, TypeOK, Range
  <2>2. /\ <<predicate[k]>> \in Seq(Goroutines)
        /\ Range(<<predicate[k]>>) = {predicate[k]}
    BY <2>1 DEF Range
  <2>3. TypeOK'
    BY <1>0, <1>1, <1>4, <2>2 DEF StartDescent, TypeOK
  <2>4. Range(queue') \subseteq Descendants'
    BY <1>1, <1>4, <2>1, <2>2, MatchesRelated DEF StartDescent
  <2> QED
    BY <1>1, <1>4, <2>3, <2>4 DEF StartDescent, Sound, NoDuplicates
<1>5. CASE Descend
  <2> DEFINE child == source[pos]
  <2>1. child \in Goroutines /\ child \in Range(source)
    BY <1>0, <1>5 DEF Descend, TypeOK, Range
  <2>2. UNCHANGED <<input, phase, k>> /\ phase = "down" /\ pos' \in 1..(Len(source) + 1)
    BY <1>0, <1>5 DEF Descend, TypeOK
  <2>3. CASE child.createdBy = Head(queue).id /\ ~Has(result, child)
    <3>1. result' = Append(result, child) /\ queue' = Append(queue, child)
      BY <1>5, <2>3 DEF Descend
    <3>2. child \in Descendants
      <4>1. Head(queue) \in Descendants
        BY <1>5, <2>2, RangeOfTail DEF Descend, TypeOK
      <4> QED BY <2>1, <2>3, <4>1, ChildOfDescendant
    <3> HIDE DEF child
    <3>3. TypeOK'
      BY <1>0, <1>1, <2>1, <2>2, <3>1 DEF TypeOK
    <3>4. Range(queue') = Range(queue) \cup {child}
      BY <2>1, <3>1, RangeOfAppend DEF TypeOK
    <3>5. Range(result') = Range(result) \cup {child}
      BY <2>1, <3>1, RangeOfAppend DEF TypeOK
    <3>6. NoDuplicates'
      BY <2>1, <2>3, <3>1, AppendFresh DEF TypeOK
    <3>7. Sound'
      BY <1>1, <2>2, <3>2, <3>5 DEF Sound
    <3> QED BY <1>1, <2>2, <3>2, <3>3, <3>4, <3>6, <3>7
  <2>4. CASE ~(child.createdBy = Head(queue).id /\ ~Has(result, child))
    <3>1. UNCHANGED <<result, queue>>
      BY <1>5, <2>4 DEF Descend
    <3> QED BY <1>0, <1>1, <2>2, <3>1 DEF TypeOK, Sound, NoDuplicates
  <2> QED BY <2>3, <2>4
<1>6. CASE NextParent
  <2>1. Tail(queue) \in Seq(Goroutines) /\ Range(Tail(queue)) \subseteq Range(queue)
    BY <1>6, RangeOfTail DEF NextParent, TypeOK
  <2> QED
    BY <1>0, <1>1, <1>6, <2>1 DEF NextParent, TypeOK, Sound, NoDuplicates
<1>7. CASE NextPredicate
  BY <1>0, <1>1, <1>7 DEF NextPredicate, TypeOK, Sound, NoDuplicates
<1>8. CASE Finish
  <2>0. result \in Seq(Goroutines) /\ result' \in Sortings(result)
    BY <1>8 DEF Finish, TypeOK
  <2>1. /\ result' \in Seq(Goroutines) /\ DOMAIN result' = DOMAIN result
        /\ \E p \in [DOMAIN result -> DOMAIN result] :
             /\ \A i, j \in DOMAIN result : p[i] = p[j] => i = j
             /\ \A j \in DOMAIN result : \E i \in DOMAIN result : p[i] = j
             /\ \A i \in DOMAIN result : result'[i] = result[p[i]]
    BY <2>0, SortingsPermute
  <2>2. TypeOK'
    BY <1>0, <1>1, <1>8, <2>1 DEF Finish, TypeOK
  <2>3. Range(result') \subseteq Range(result)
    BY <2>1 DEF Range
  <2>4. Sound'
    BY <1>1, <1>8, <2>3 DEF Finish, Sound
  <2>5. NoDuplicates'
    <3>1. PICK p \in [DOMAIN result -> DOMAIN result] :
             /\ \A i, j \in DOMAIN result : p[i] = p[j] => i = j
             /\ \A i \in DOMAIN result : result'[i] = result[p[i]]
      BY <2>1
    <3>2. DOMAIN result' = DOMAIN result
      BY <2>1
    <3> QED BY <3>1, <3>2 DEF NoDuplicates, Same
  <2> QED BY <1>8, <2>2, <2>4, <2>5 DEF Finish
<1>9. CASE UNCHANGED vars
  BY <1>1, <1>9 DEF vars, TypeOK, Sound, NoDuplicates, source, predicate
<1> QED BY <1>2, <1>3, <1>4, <1>5, <1>6, <1>7, <1>8, <1>9 DEF Next

(* The invariant holds on every run.                                       *)
LEMMA SearchInvariant == Spec => []SearchInv
BY SearchInvInit, SearchInvStep, PTL DEF Spec

(* The variables of the search keep their types, on every input: no loop   *)
(* of inGraphOf, graphAncestors or graphDescendants runs off a slice.      *)
THEOREM TypeCorrect == Spec => []TypeOK
<1>1. SearchInv => TypeOK
  BY DEF SearchInv
<1> QED BY <1>1, SearchInvariant, PTL

(* On every dump, with repetitions or cyclic "created by" links too, graph *)
(* returns only matches, their ancestors and their descendants.            *)
THEOREM GraphSound == Spec => []Sound
<1>1. SearchInv => Sound
  BY DEF SearchInv
<1> QED BY <1>1, SearchInvariant, PTL

(* On every dump, graph returns no goroutine twice.                        *)
THEOREM GraphNoDuplicates == Spec => []NoDuplicates
<1>1. SearchInv => NoDuplicates
  BY DEF SearchInv
<1> QED BY <1>1, SearchInvariant, PTL

-----------------------------------------------------------------------------
(* The places in the dump src of the goroutines of gs, and of the children *)
(* of the goroutine at place i.                                            *)
PlacesIn(src, gs) == {i \in DOMAIN src : src[i] \in Range(gs)}
Below(src, i) == {j \in DOMAIN src : src[j].createdBy = src[i].id}

(* What is appended has one place, and the places of the others stay.      *)
LEMMA PlacesOfAppend ==
  ASSUME NEW G, NEW src \in Seq(G), ParentsFirst(src), NEW gs \in Seq(G),
         NEW i \in DOMAIN src
  PROVE  PlacesIn(src, Append(gs, src[i])) = PlacesIn(src, gs) \cup {i}
<1>1. src[i] \in G
  OBVIOUS
<1>2. Range(Append(gs, src[i])) = Range(gs) \cup {src[i]}
  BY <1>1, RangeOfAppend
<1>3. \A j \in DOMAIN src : src[j] = src[i] => j = i
  BY DEF ParentsFirst
<1> QED BY <1>2, <1>3 DEF PlacesIn

(* The tail has every place but that of the head.                          *)
LEMMA PlacesOfTail ==
  ASSUME NEW G, NEW src, NEW gs \in Seq(G), gs # <<>>
  PROVE  /\ PlacesIn(src, Tail(gs)) \subseteq PlacesIn(src, gs)
         /\ \A i \in PlacesIn(src, gs) :
              src[i] = Head(gs) \/ i \in PlacesIn(src, Tail(gs))
<1>1. Range(Tail(gs)) \subseteq Range(gs)
  BY RangeOfTail
<1>2. ASSUME NEW g \in Range(gs) PROVE g = Head(gs) \/ g \in Range(Tail(gs))
  <2>1. PICK i \in DOMAIN gs : g = gs[i]
    BY <1>2 DEF Range
  <2>2. CASE i = 1
    BY <2>1, <2>2
  <2>3. CASE i # 1
    <3>1. i - 1 \in DOMAIN Tail(gs) /\ Tail(gs)[i - 1] = g
      BY <2>1, <2>3
    <3> QED BY <3>1 DEF Range
  <2> QED BY <2>2, <2>3
<1> QED BY <1>1, <1>2 DEF PlacesIn

(* Has finds what is at a place of gs: no other goroutine has its ID.      *)
LEMMA HasItsPlace ==
  ASSUME NEW src, ParentsFirst(src), NEW gs, Range(gs) \subseteq Range(src),
         NEW i \in DOMAIN src
  PROVE  Has(gs, src[i]) <=> i \in PlacesIn(src, gs)
<1>1. ASSUME Has(gs, src[i]) PROVE i \in PlacesIn(src, gs)
  <2>1. PICK n \in DOMAIN gs : gs[n].id = src[i].id
    BY <1>1 DEF Has, Same
  <2>2. PICK j \in DOMAIN src : src[j] = gs[n]
    BY <2>1 DEF Range
  <2>3. j = i
    BY <2>1, <2>2 DEF ParentsFirst
  <2> QED BY <2>1, <2>2, <2>3 DEF PlacesIn, Range
<1>2. ASSUME i \in PlacesIn(src, gs) PROVE Has(gs, src[i])
  BY <1>2 DEF PlacesIn, Range, Has, Same
<1> QED BY <1>1, <1>2

(* byID finds the parent of a child, and only that.                        *)
LEMMA ParentsPlace ==
  ASSUME NEW src \in Seq(Goroutines), ParentsFirst(src), NEW i \in DOMAIN src
  PROVE  LET parent == ByID(src, src[i].createdBy)
         IN  /\ parent # NoGoroutine =>
                  \E p \in DOMAIN src : parent = src[p] /\ i \in Below(src, p)
             /\ \A p \in DOMAIN src : i \in Below(src, p) =>
                  parent = src[p] /\ parent # NoGoroutine /\ p < i
<1> DEFINE id == src[i].createdBy
           found == {j \in DOMAIN src : src[j].id = id}
<1>1. found # {} => Min(found) \in found
  <2>1. found \in SUBSET Nat
    OBVIOUS
  <2> HIDE DEF found
  <2> QED BY <2>1, LeastNat
<1>2. ByID(src, id) = IF found = {} THEN NoGoroutine ELSE src[Min(found)]
  BY DEF ByID
<1>3. ASSUME ByID(src, id) # NoGoroutine
      PROVE  \E p \in DOMAIN src : ByID(src, id) = src[p] /\ i \in Below(src, p)
  <2>1. Min(found) \in found /\ ByID(src, id) = src[Min(found)]
    BY <1>1, <1>2, <1>3
  <2> QED BY <2>1 DEF Below
<1>4. ASSUME NEW p \in DOMAIN src, i \in Below(src, p)
      PROVE  ByID(src, id) = src[p] /\ ByID(src, id) # NoGoroutine /\ p < i
  <2>1. p \in found
    BY <1>4 DEF Below
  <2>2. Min(found) = p
    BY <1>1, <2>1 DEF ParentsFirst
  <2>3. src[p] \in Goroutines
    OBVIOUS
  <2>4. p < i
    BY <1>4 DEF Below, ParentsFirst
  <2> QED BY <1>2, <2>1, <2>2, <2>3, <2>4, GoroutinesAssumption
<1> QED BY <1>3, <1>4

(* The place of the n-th goroutine of predicate.                           *)
At(n) == CHOOSE i \in DOMAIN source : source[i] = predicate[n]

(* The places of what was found.                                           *)
Found == PlacesIn(source, result)

(* The parent of what was found was found, unless the climb is still to    *)
(* look for it.                                                            *)
Connected ==
  \A p \in DOMAIN source : \A i \in Found :
    i \in Below(source, p) =>
      p \in Found \/ (phase = "up" /\ i \in PlacesIn(source, queue))

(* The matches that were searched from have all their descendants.         *)
Covered ==
  \E C \in SUBSET Found :
    /\ \A i \in C : Below(source, i) \subseteq C
    /\ \A n \in DOMAIN predicate : n < k => At(n) \in C

(* What is after the next match has its children: the descent from it may  *)
(* stop at what was found before.                                          *)
PickReady ==
  phase = "pick" =>
    \A i \in Found :
      k <= Len(predicate) /\ i >= At(k) => Below(source, i) \subseteq Found

(* The climb stays before the match.                                       *)
ClimbReady ==
  phase = "up" =>
    /\ At(k) \in Found
    /\ \A i \in PlacesIn(source, queue) : i <= At(k)
    /\ \A i \in Found : i > At(k) => Below(source, i) \subseteq Found

(* What is not before the match has its children, or waits for them, or is *)
(* being expanded.                                                         *)
DescentReady ==
  phase = "down" =>
    /\ At(k) \in Found
    /\ \A i \in Found : i >= At(k) =>
         \/ Below(source, i) \subseteq Found
         \/ queue # <<>> /\ i \in PlacesIn(source, Tail(queue))
         \/ /\ queue # <<>> /\ source[i] = Head(queue)
            /\ \A j \in Below(source, i) : j < pos => j \in Found

(* What holds of a search in a dump that lists parents first.              *)
SearchesAll ==
  /\ IsFiltered(predicate, source)
  /\ Range(result) \subseteq Range(source)
  /\ Range(queue) \subseteq Range(result)
  /\ Connected /\ Covered
  /\ PickReady /\ ClimbReady /\ DescentReady
  /\ Complete

CompleteInv == SearchInv /\ (ParentsFirst(source) => SearchesAll)

(* The matches are at places of the source, in the order of predicate.     *)
LEMMA MatchesPlaces ==
  ASSUME TypeOK, IsFiltered(predicate, source), ParentsFirst(source)
  PROVE  /\ \A n \in DOMAIN predicate :
              At(n) \in DOMAIN source /\ source[At(n)] = predicate[n]
         /\ \A n, m \in DOMAIN predicate : n < m => At(n) < At(m)
<1>1. PICK at \in [DOMAIN predicate -> DOMAIN source] :
         /\ \A i, j \in DOMAIN predicate : i < j => at[i] < at[j]
         /\ \A i \in DOMAIN predicate : predicate[i] = source[at[i]]
  BY DEF IsFiltered
<1>2. ASSUME NEW n \in DOMAIN predicate
      PROVE  At(n) = at[n]
  <2>1. at[n] \in DOMAIN source /\ source[at[n]] = predicate[n]
    BY <1>1
  <2>2. At(n) \in DOMAIN source /\ source[At(n)] = predicate[n]
    BY <2>1 DEF At
  <2> QED BY <2>1, <2>2 DEF ParentsFirst
<1> QED BY <1>1, <1>2

(* Nothing is found at first.                                              *)
LEMMA CompleteInvInit == Init => CompleteInv
<1> SUFFICES ASSUME Init PROVE CompleteInv
  OBVIOUS
<1>1. SearchInv
  BY SearchInvInit
<1>2. IsFiltered(predicate, source)
  BY FilterAssumption DEF Init, source, predicate
<1>3. Range(result) = {} /\ Range(queue) = {} /\ Found = {}
  BY DEF Init, Range, Found, PlacesIn
<1>4. Connected /\ PickReady /\ ClimbReady /\ DescentReady /\ Complete
  BY <1>3 DEF Init, Connected, PickReady, ClimbReady, DescentReady, Complete
<1>5. Covered
  <2>1. \A n \in DOMAIN predicate : ~(n < k)
    BY <1>1 DEF SearchInv, TypeOK, Init
  <2> QED BY <1>3, <2>1 DEF Covered
<1> QED BY <1>1, <1>2, <1>3, <1>4, <1>5 DEF CompleteInv, SearchesAll

(* Nothing is found and nothing waits but goroutines of the source.        *)
LEMMA QueuePlaces ==
  ASSUME TypeOK, ParentsFirst(source), SearchesAll
  PROVE  /\ \A i \in PlacesIn(source, queue) : i \in Found
         /\ queue # <<>> => \E h \in PlacesIn(source, queue) : source[h] = Head(queue)
<1>1. \A i \in PlacesIn(source, queue) : i \in Found
  BY DEF SearchesAll, PlacesIn, Found
<1>2. ASSUME queue # <<>>
      PROVE  \E h \in PlacesIn(source, queue) : source[h] = Head(queue)
  <2>1. Head(queue) \in Range(queue)
    BY <1>2, RangeOfTail DEF TypeOK
  <2>2. Head(queue) \in Range(source)
    BY <2>1 DEF SearchesAll
  <2> QED BY <2>1, <2>2 DEF Range, PlacesIn
<1> QED BY <1>1, <1>2

(* The facts that every step uses.                                         *)
LEMMA SameInput ==
  ASSUME UNCHANGED input
  PROVE  /\ source' = source /\ predicate' = predicate
         /\ Ancestors' = Ancestors /\ Descendants' = Descendants
         /\ \A n : At(n)' = At(n)
BY DEF source, predicate, Ancestors, Descendants, Known, UpClosed, DownClosed, At

(* What is covered stays so while only more is found.                      *)
LEMMA CoveredStays ==
  ASSUME UNCHANGED <<input, k>>, Covered, Found \subseteq Found'
  PROVE  Covered'
<1>1. source' = source /\ predicate' = predicate /\ \A n : At(n)' = At(n)
  BY SameInput
<1>2. PICK C \in SUBSET Found :
         /\ \A i \in C : Below(source, i) \subseteq C
         /\ \A n \in DOMAIN predicate : n < k => At(n) \in C
  BY DEF Covered
<1>3. /\ C \in SUBSET Found' /\ k' = k
      /\ \A i \in C : Below(source', i) \subseteq C
  BY <1>1, <1>2
<1> QED BY <1>1, <1>2, <1>3 DEF Covered

(* One lemma per action.  The match is added, and the climb starts from    *)
(* it.                                                                     *)
LEMMA PickKeeps ==
  ASSUME TypeOK, ParentsFirst(source), SearchesAll, Pick
  PROVE  SearchesAll'
<1> DEFINE i == At(k)
<1>1. /\ source \in Seq(Goroutines) /\ predicate \in Seq(Goroutines)
      /\ result \in Seq(Goroutines) /\ k \in DOMAIN predicate
      /\ Len(source) \in Nat
  BY DEF TypeOK, Pick
<1>2. i \in DOMAIN source /\ source[i] = predicate[k]
  BY <1>1, MatchesPlaces DEF SearchesAll
<1>3. /\ source' = source /\ predicate' = predicate /\ k' = k
      /\ phase = "pick" /\ phase' = "up" /\ \A n : At(n)' = At(n)
  BY SameInput DEF Pick
<1>4. queue' = <<source[i]>> /\ result' = AddTo(result, source[i])
  BY <1>2 DEF Pick
<1> HIDE DEF i
<1>5. Found' = Found \cup {i} /\ source[i] \in Range(result')
      /\ Range(result') \subseteq Range(source)
  <2>1. Range(result) \subseteq Range(source)
    BY DEF SearchesAll
  <2>2. CASE Has(result, source[i])
    <3>1. result' = result
      BY <1>4, <2>2 DEF AddTo
    <3>2. i \in Found
      BY <1>2, <2>1, <2>2, HasItsPlace DEF Found
    <3>3. source[i] \in Range(result) /\ Found' = Found
      BY <1>3, <3>1, <3>2 DEF Found, PlacesIn
    <3> QED BY <2>1, <3>1, <3>2, <3>3
  <2>3. CASE ~Has(result, source[i])
    <3>1. result' = Append(result, source[i])
      BY <1>4, <2>3 DEF AddTo
    <3>2. Found' = Found \cup {i}
      BY <1>1, <1>2, <1>3, <3>1, PlacesOfAppend DEF Found
    <3>3. source[i] \in Goroutines
      BY <1>1, <1>2
    <3>4. Range(result') = Range(result) \cup {source[i]}
      BY <1>1, <3>1, <3>3, RangeOfAppend
    <3> QED BY <1>2, <2>1, <3>2, <3>4 DEF Range
  <2> QED BY <2>2, <2>3
<1>6. Range(queue') = {source[i]}
  BY <1>4 DEF Range
<1>7. PlacesIn(source', queue') = {i}
  BY <1>2, <1>3, <1>6 DEF PlacesIn, ParentsFirst
<1>8. Connected'
  BY <1>3, <1>5, <1>7 DEF Connected, SearchesAll
<1>9. Covered'
  BY <1>5, CoveredStays DEF SearchesAll, Pick
<1>10. ClimbReady'
  <2>1. At(k') = i
    BY <1>3 DEF i
  <2>2. At(k)' = i
    BY <1>3 DEF i, At
  <2>3. \A j \in Found : j >= i => Below(source, j) \subseteq Found
    BY <1>1, <1>3 DEF SearchesAll, PickReady, i
  <2>4. \A j \in Found' : j > i => Below(source', j) \subseteq Found'
    BY <1>1, <1>2, <1>3, <1>5, <2>3 DEF Found, PlacesIn
  <2>5. i <= i
    BY <1>1, <1>2
  <2> QED BY <1>5, <1>7, <2>2, <2>4, <2>5 DEF ClimbReady
<1>11. PickReady' /\ DescentReady' /\ Complete'
  BY <1>3 DEF PickReady, DescentReady, Complete
<1>12. IsFiltered(predicate', source')
  BY <1>3 DEF SearchesAll
<1>13. /\ Range(result') \subseteq Range(source')
       /\ Range(queue') \subseteq Range(result')
  BY <1>3, <1>5, <1>6
<1> QED BY <1>8, <1>9, <1>10, <1>11, <1>12, <1>13 DEF SearchesAll

(* Once the parent of the head was found or added, the head need not wait. *)
LEMMA ClimbKeeps ==
  ASSUME TypeOK, ParentsFirst(source), SearchesAll, Climb
  PROVE  SearchesAll'
<1> DEFINE parent == ByID(source, Head(queue).createdBy)
<1>1. /\ source \in Seq(Goroutines) /\ result \in Seq(Goroutines)
      /\ queue \in Seq(Goroutines) /\ queue # <<>> /\ Len(source) \in Nat
  BY DEF TypeOK, Climb
<1>2. /\ source' = source /\ predicate' = predicate /\ k' = k
      /\ phase = "up" /\ phase' = "up" /\ At(k)' = At(k)
  BY SameInput DEF Climb, At
<1>3. PICK h \in PlacesIn(source, queue) : source[h] = Head(queue)
  BY <1>1, QueuePlaces
<1>4. h \in DOMAIN source /\ h \in Found
  BY <1>3, QueuePlaces DEF PlacesIn
<1>5. /\ PlacesIn(source, Tail(queue)) \subseteq PlacesIn(source, queue)
      /\ \A i \in PlacesIn(source, queue) :
           i = h \/ i \in PlacesIn(source, Tail(queue))
  BY <1>1, <1>3, <1>4, PlacesOfTail DEF ParentsFirst, PlacesIn
<1>6. /\ parent # NoGoroutine =>
           \E p \in DOMAIN source : parent = source[p] /\ h \in Below(source, p)
      /\ \A p \in DOMAIN source : h \in Below(source, p) =>
           parent = source[p] /\ parent # NoGoroutine /\ p < h
  BY <1>1, <1>3, <1>4, ParentsPlace
<1>7. /\ At(k) \in Found
      /\ \A i \in PlacesIn(source, queue) : i <= At(k)
      /\ \A i \in Found : i > At(k) => Below(source, i) \subseteq Found
  BY <1>2 DEF SearchesAll, ClimbReady
<1>8. Range(Tail(queue)) \subseteq Range(queue) /\ Tail(queue) \in Seq(Goroutines)
  BY <1>1, RangeOfTail
<1>9. IsFiltered(predicate', source') /\ PickReady' /\ DescentReady' /\ Complete'
  BY <1>2 DEF SearchesAll, PickReady, DescentReady, Complete
<1>10. CASE parent = NoGoroutine \/ Has(result, parent)
  <2>1. queue' = Tail(queue) /\ result' = result
    BY <1>10 DEF Climb
  <2>2. Found' = Found
    BY <1>2, <2>1 DEF Found
  <2>3. ASSUME NEW p \in DOMAIN source, h \in Below(source, p)
        PROVE  p \in Found
    <3>1. Has(result, source[p])
      BY <1>6, <1>10, <2>3
    <3> QED BY <3>1, HasItsPlace DEF SearchesAll, Found
  <2>4. Connected'
    BY <1>2, <1>5, <2>1, <2>2, <2>3 DEF Connected, SearchesAll
  <2>5. Covered'
    BY <2>2, CoveredStays DEF SearchesAll, Climb
  <2>6. ClimbReady'
    BY <1>2, <1>5, <1>7, <2>1, <2>2 DEF ClimbReady
  <2>7. Range(result') \subseteq Range(source') /\ Range(queue') \subseteq Range(result')
    BY <1>2, <1>8, <2>1 DEF SearchesAll
  <2> QED BY <1>9, <2>4, <2>5, <2>6, <2>7 DEF SearchesAll
<1>11. CASE parent # NoGoroutine /\ ~Has(result, parent)
  <2>1. PICK q \in DOMAIN source : parent = source[q] /\ h \in Below(source, q)
    BY <1>6, <1>11
  <2>2. /\ queue' = Append(Tail(queue), source[q])
        /\ result' = Append(result, source[q])
    BY <1>11, <2>1 DEF Climb, Requeue
  <2>3. q < h /\ source[q] \in Goroutines
    BY <1>1, <1>6, <2>1
  <2> HIDE DEF parent
  <2>4. Found' = Found \cup {q}
    BY <1>1, <1>2, <2>2, PlacesOfAppend DEF Found
  <2>5. PlacesIn(source', queue') = PlacesIn(source, Tail(queue)) \cup {q}
    <3>1. \A gs \in Seq(Goroutines) :
            PlacesIn(source, Append(gs, source[q])) = PlacesIn(source, gs) \cup {q}
      BY <1>1, PlacesOfAppend
    <3> QED BY <1>2, <1>8, <2>2, <3>1, Zenon
  <2>6. \A p \in DOMAIN source : h \in Below(source, p) => p = q
    BY <1>6, <2>1 DEF ParentsFirst
  <2>7. Connected'
    BY <1>2, <1>5, <2>4, <2>5, <2>6 DEF Connected, SearchesAll
  <2>8. Covered'
    BY <2>4, CoveredStays DEF SearchesAll, Climb
  <2>9. ClimbReady'
    <3>1. At(k) \in Nat /\ h \in Nat /\ q \in Nat /\ h <= At(k)
      BY <1>1, <1>3, <1>4, <1>7 DEF Found, PlacesIn
    <3>2. q <= At(k)
      BY <2>3, <3>1
    <3>3. \A i \in PlacesIn(source', queue') : i <= At(k)
      BY <1>5, <1>7, <2>5, <3>2
    <3>4. \A i \in Found' : i > At(k) => Below(source, i) \subseteq Found'
      BY <1>7, <2>4, <3>1, <3>2
    <3> QED BY <1>2, <1>7, <2>4, <3>3, <3>4 DEF ClimbReady
  <2>10. Range(result') = Range(result) \cup {source[q]}
    BY <1>1, <2>2, <2>3, RangeOfAppend
  <2>11. Range(queue') = Range(Tail(queue)) \cup {source[q]}
    <3>1. \A s \in Seq(Goroutines), g \in Goroutines :
            Range(Append(s, g)) = Range(s) \cup {g}
      BY RangeOfAppend
    <3> QED BY <1>8, <2>2, <2>3, <3>1, Zenon
  <2>12. /\ Range(result') \subseteq Range(source')
         /\ Range(queue') \subseteq Range(result')
    BY <1>2, <1>8, <2>10, <2>11 DEF SearchesAll, Range
  <2> QED BY <1>9, <2>7, <2>8, <2>9, <2>12 DEF SearchesAll
<1> QED BY <1>10, <1>11

(* The descent starts from the match, which waits.                         *)
LEMMA StartDescentKeeps ==
  ASSUME TypeOK, ParentsFirst(source), SearchesAll, StartDescent,
         k \in DOMAIN predicate
  PROVE  SearchesAll'
<1>1. /\ source' = source /\ predicate' = predicate /\ k' = k
      /\ phase = "up" /\ phase' = "down" /\ At(k)' = At(k)
      /\ queue = <<>> /\ queue' = <<predicate[k]>> /\ result' = result
      /\ pos' = 1
  BY SameInput DEF StartDescent, At
<1>2. /\ At(k) \in DOMAIN source /\ source[At(k)] = predicate[k]
      /\ source \in Seq(Goroutines) /\ Len(source) \in Nat
  BY MatchesPlaces DEF SearchesAll, TypeOK
<1>3. Found' = Found
  BY <1>1 DEF Found
<1>4. /\ At(k) \in Found
      /\ \A i \in Found : i > At(k) => Below(source, i) \subseteq Found
  BY <1>1 DEF SearchesAll, ClimbReady
<1>5. Range(queue') = {predicate[k]} /\ Head(queue') = predicate[k] /\ queue' # <<>>
  BY <1>1 DEF Range
<1>6. predicate[k] \in Range(result)
  BY <1>2, <1>4 DEF Found, PlacesIn
<1>7. PlacesIn(source, queue) = {}
  BY <1>1 DEF PlacesIn, Range
<1>8. Connected'
  BY <1>1, <1>3, <1>7 DEF Connected, SearchesAll
<1>9. Covered'
  BY <1>3, CoveredStays DEF SearchesAll, StartDescent
<1>10. DescentReady'
  <2>1. \A i \in Found : i >= At(k) => i = At(k) \/ i > At(k)
    BY <1>2 DEF Found, PlacesIn
  <2>2. \A i \in DOMAIN source : \A j \in Below(source, i) : ~(j < 1)
    BY <1>2 DEF Below
  <2>3. \A i \in Found : i \in DOMAIN source
    BY DEF Found, PlacesIn
  <2> QED BY <1>1, <1>2, <1>3, <1>4, <1>5, <2>1, <2>2, <2>3 DEF DescentReady
<1>11. /\ IsFiltered(predicate', source') /\ PickReady' /\ ClimbReady' /\ Complete'
       /\ Range(result') \subseteq Range(source')
       /\ Range(queue') \subseteq Range(result')
  BY <1>1, <1>5, <1>6 DEF SearchesAll, PickReady, ClimbReady, Complete
<1> QED BY <1>8, <1>9, <1>10, <1>11 DEF SearchesAll

(* The child at pos is found when pos has passed it.                       *)
LEMMA DescendKeeps ==
  ASSUME TypeOK, ParentsFirst(source), SearchesAll, Descend
  PROVE  SearchesAll'
<1> DEFINE c == pos
<1>1. /\ source \in Seq(Goroutines) /\ result \in Seq(Goroutines)
      /\ queue \in Seq(Goroutines) /\ queue # <<>> /\ Len(source) \in Nat
      /\ c \in DOMAIN source /\ pos = c
  BY DEF TypeOK, Descend
<1>2. /\ source' = source /\ predicate' = predicate /\ k' = k
      /\ phase = "down" /\ phase' = "down" /\ At(k)' = At(k) /\ pos' = c + 1
  BY SameInput DEF Descend, At
<1>3. PICK h \in PlacesIn(source, queue) : source[h] = Head(queue)
  BY <1>1, QueuePlaces
<1>4. h \in DOMAIN source /\ h \in Found
  BY <1>3, QueuePlaces DEF PlacesIn
<1>5. /\ At(k) \in Found
      /\ \A i \in Found : i >= At(k) =>
           \/ Below(source, i) \subseteq Found
           \/ i \in PlacesIn(source, Tail(queue))
           \/ i = h /\ \A j \in Below(source, i) : j < c => j \in Found
  <2>1. \A i \in Found : source[i] = Head(queue) => i = h
    BY <1>3, <1>4 DEF ParentsFirst, Found, PlacesIn
  <2> QED BY <1>2, <2>1 DEF SearchesAll, DescentReady
<1>6. IsFiltered(predicate', source') /\ PickReady' /\ ClimbReady' /\ Complete'
  BY <1>2 DEF SearchesAll, PickReady, ClimbReady, Complete
<1>7. /\ Range(queue) \subseteq Range(result)
      /\ Range(result) \subseteq Range(source)
  BY DEF SearchesAll
<1>8. CASE source[c].createdBy = Head(queue).id /\ ~Has(result, source[c])
  <2>1. /\ queue' = Append(queue, source[c]) /\ result' = Append(result, source[c])
        /\ source[c] \in Goroutines
    BY <1>1, <1>8 DEF Descend
  <2>2. /\ queue' # <<>> /\ Head(queue') = Head(queue)
        /\ Tail(queue') = Append(Tail(queue), source[c])
        /\ Tail(queue) \in Seq(Goroutines)
    BY <1>1, <2>1
  <2> HIDE DEF c
  <2>3. Found' = Found \cup {c}
    BY <1>1, <1>2, <2>1, PlacesOfAppend DEF Found
  <2>4. PlacesIn(source', Tail(queue')) = PlacesIn(source, Tail(queue)) \cup {c}
    <3>1. \A gs \in Seq(Goroutines) :
            PlacesIn(source, Append(gs, source[c])) = PlacesIn(source, gs) \cup {c}
      BY <1>1, PlacesOfAppend
    <3> QED BY <1>2, <2>2, <3>1, Zenon
  <2>5. \A p \in DOMAIN source : c \in Below(source, p) => p = h
    BY <1>3, <1>4, <1>8 DEF Below, ParentsFirst
  <2>6. Connected'
    BY <1>2, <1>4, <2>3, <2>5 DEF Connected, SearchesAll
  <2>7. Covered'
    BY <2>3, CoveredStays DEF SearchesAll, Descend
  <2>8. DescentReady'
    <3>1. \A j \in DOMAIN source : j < c + 1 => j < c \/ j = c
      BY <1>1
    <3>2. \A i \in Found : \A j \in Below(source, i) : j \in DOMAIN source
      BY DEF Below
    <3>3. ASSUME NEW i \in Found', i >= At(k)
          PROVE  \/ Below(source, i) \subseteq Found'
                 \/ i \in PlacesIn(source', Tail(queue'))
                 \/ /\ source[i] = Head(queue')
                    /\ \A j \in Below(source, i) : j < c + 1 => j \in Found'
      <4>1. CASE i = c
        BY <2>4, <4>1
      <4>2. CASE i \in Found /\ i = h /\ \A j \in Below(source, i) : j < c => j \in Found
        BY <1>3, <2>2, <2>3, <3>1, <3>2, <4>2
      <4>3. CASE i \in Found /\ Below(source, i) \subseteq Found
        BY <2>3, <4>3
      <4>4. CASE i \in Found /\ i \in PlacesIn(source, Tail(queue))
        BY <2>4, <4>4
      <4> QED BY <1>5, <2>3, <3>3, <4>1, <4>2, <4>3, <4>4
    <3>4. At(k) \in Found'
      BY <1>5, <2>3
    <3> QED BY <1>2, <2>2, <3>3, <3>4 DEF DescentReady
  <2>9. /\ Range(result') = Range(result) \cup {source[c]}
        /\ Range(queue') = Range(queue) \cup {source[c]}
    BY <1>1, <2>1, RangeOfAppend
  <2>10. source[c] \in Range(source)
    BY <1>1 DEF Range
  <2>11. /\ Range(result') \subseteq Range(source')
         /\ Range(queue') \subseteq Range(result')
    BY <1>2, <1>7, <2>9, <2>10
  <2> QED BY <1>6, <2>6, <2>7, <2>8, <2>11 DEF SearchesAll
<1>9. CASE ~(source[c].createdBy = Head(queue).id /\ ~Has(result, source[c]))
  <2>1. queue' = queue /\ result' = result
    BY <1>9 DEF Descend
  <2>2. c \in Below(source, h) => c \in Found
    <3>1. ASSUME c \in Below(source, h) PROVE Has(result, source[c])
      BY <1>3, <1>9, <3>1 DEF Below
    <3> QED BY <1>1, <1>7, <3>1, HasItsPlace DEF Found
  <2> HIDE DEF c
  <2>3. Found' = Found
    BY <1>2, <2>1 DEF Found
  <2>4. Connected'
    BY <1>2, <2>1, <2>3 DEF Connected, SearchesAll
  <2>5. Covered'
    BY <2>3, CoveredStays DEF SearchesAll, Descend
  <2>6. DescentReady'
    <3>1. \A j \in DOMAIN source : j < c + 1 => j < c \/ j = c
      BY <1>1
    <3>2. \A i \in Found : \A j \in Below(source, i) : j \in DOMAIN source
      BY DEF Below
    <3>3. \A i \in Found : i >= At(k) =>
            \/ Below(source, i) \subseteq Found
            \/ i \in PlacesIn(source, Tail(queue))
            \/ source[i] = Head(queue) /\ \A j \in Below(source, i) : j < c + 1 => j \in Found
      BY <1>3, <1>5, <2>2, <3>1, <3>2
    <3> QED BY <1>1, <1>2, <1>5, <2>1, <2>3, <3>3 DEF DescentReady
  <2>7. /\ Range(result') \subseteq Range(source')
        /\ Range(queue') \subseteq Range(result')
    BY <1>2, <1>7, <2>1
  <2> QED BY <1>6, <2>4, <2>5, <2>6, <2>7 DEF SearchesAll
<1> QED BY <1>8, <1>9

(* After the last place the head has all its children.                     *)
LEMMA NextParentKeeps ==
  ASSUME TypeOK, ParentsFirst(source), SearchesAll, NextParent
  PROVE  SearchesAll'
<1>1. /\ source \in Seq(Goroutines) /\ queue \in Seq(Goroutines) /\ queue # <<>>
      /\ Len(source) \in Nat /\ pos > Len(source) /\ pos \in Nat
  BY DEF TypeOK, NextParent
<1>2. /\ source' = source /\ predicate' = predicate /\ k' = k
      /\ phase = "down" /\ phase' = "down" /\ At(k)' = At(k)
      /\ pos' = 1 /\ queue' = Tail(queue) /\ result' = result
  BY SameInput DEF NextParent, At
<1>3. Found' = Found
  BY <1>2 DEF Found
<1>4. Connected' /\ PickReady' /\ ClimbReady' /\ Complete' /\ IsFiltered(predicate', source')
  BY <1>2, <1>3
  DEF Connected, PickReady, ClimbReady, Complete, SearchesAll
<1>5. Covered'
  BY <1>3, CoveredStays DEF SearchesAll, NextParent
<1>6. \A i \in DOMAIN source : \A j \in Below(source, i) : j < pos /\ ~(j < 1)
  BY <1>1 DEF Below
<1>7. \A i \in Found : i \in DOMAIN source
  BY DEF Found, PlacesIn
<1>8. /\ At(k) \in Found
      /\ \A i \in Found : i >= At(k) =>
           Below(source, i) \subseteq Found \/ i \in PlacesIn(source, Tail(queue))
  <2>1. At(k) \in Found
    BY <1>2 DEF SearchesAll, DescentReady
  <2>2. ASSUME NEW i \in Found, i >= At(k)
        PROVE  Below(source, i) \subseteq Found \/ i \in PlacesIn(source, Tail(queue))
    <3>1. \/ Below(source, i) \subseteq Found
          \/ i \in PlacesIn(source, Tail(queue))
          \/ \A j \in Below(source, i) : j < pos => j \in Found
      BY <1>2, <2>2 DEF SearchesAll, DescentReady
    <3> QED BY <1>6, <1>7, <3>1
  <2> QED BY <2>1, <2>2
<1>9. DescentReady'
  <2>1. ASSUME NEW i \in PlacesIn(source, Tail(queue))
        PROVE  /\ Tail(queue) # <<>>
               /\ \/ source[i] = Head(Tail(queue))
                  \/ i \in PlacesIn(source, Tail(Tail(queue)))
    <3>1. Tail(queue) # <<>>
      BY <2>1 DEF PlacesIn, Range
    <3>2. Tail(queue) \in Seq(Goroutines)
      BY <1>1
    <3> QED BY <2>1, <3>1, <3>2, PlacesOfTail
  <2>2. \A i \in Found : \A j \in Below(source, i) : ~(j < 1)
    BY <1>6, <1>7
  <2> QED BY <1>2, <1>3, <1>8, <2>1, <2>2 DEF DescentReady
<1>10. /\ Range(result') \subseteq Range(source')
       /\ Range(queue') \subseteq Range(result')
  <2>1. Range(Tail(queue)) \subseteq Range(queue)
    BY <1>1, RangeOfTail
  <2> QED BY <1>2, <2>1 DEF SearchesAll
<1> QED BY <1>4, <1>5, <1>9, <1>10 DEF SearchesAll

(* With nothing waiting, everything from the match on has its children,    *)
(* and is covered.                                                         *)
LEMMA NextPredicateKeeps ==
  ASSUME TypeOK, ParentsFirst(source), SearchesAll, NextPredicate,
         k \in DOMAIN predicate
  PROVE  SearchesAll'
<1>1. /\ source \in Seq(Goroutines) /\ predicate \in Seq(Goroutines)
      /\ Len(source) \in Nat /\ Len(predicate) \in Nat /\ queue = <<>>
  BY DEF TypeOK, NextPredicate
<1>2. /\ source' = source /\ predicate' = predicate /\ k' = k + 1
      /\ phase = "down" /\ phase' = "pick" /\ queue' = queue /\ result' = result
      /\ \A n : At(n)' = At(n)
  BY SameInput DEF NextPredicate
<1>3. Found' = Found
  BY <1>2 DEF Found
<1>4. /\ Connected' /\ ClimbReady' /\ DescentReady' /\ Complete'
      /\ IsFiltered(predicate', source')
      /\ Range(result') \subseteq Range(source')
      /\ Range(queue') \subseteq Range(result')
  BY <1>2, <1>3
  DEF Connected, ClimbReady, DescentReady, Complete, SearchesAll
<1>5. /\ At(k) \in Found
      /\ \A i \in Found : i >= At(k) => Below(source, i) \subseteq Found
  BY <1>1, <1>2 DEF SearchesAll, DescentReady
<1>6. \A i \in Found : i \in DOMAIN source
  BY DEF Found, PlacesIn
<1>7. \A i \in DOMAIN source : \A j \in Below(source, i) : j \in DOMAIN source /\ i < j
  BY DEF Below, ParentsFirst
<1>8. Covered'
  <2>1. PICK C \in SUBSET Found :
           /\ \A i \in C : Below(source, i) \subseteq C
           /\ \A n \in DOMAIN predicate : n < k => At(n) \in C
    BY DEF SearchesAll, Covered
  <2> DEFINE D == C \cup {i \in Found : i >= At(k)}
  <2>2. D \in SUBSET Found
    OBVIOUS
  <2>3. ASSUME NEW i \in D PROVE Below(source, i) \subseteq D
    <3>1. CASE i \in C
      BY <2>1, <3>1
    <3>2. CASE i >= At(k) /\ i \in Found
      <4>1. At(k) \in Nat /\ i \in Nat
        BY <1>1, <1>5, <1>6, <3>2
      <4>2. ASSUME NEW j \in Below(source, i) PROVE j \in Found /\ j >= At(k)
        <5>1. j \in Found /\ j \in Nat /\ i < j
          BY <1>1, <1>5, <1>6, <1>7, <3>2
        <5> QED BY <3>2, <4>1, <5>1
      <4> QED BY <4>2
    <3> QED BY <2>3, <3>1, <3>2
  <2>4. ASSUME NEW n \in DOMAIN predicate, n < k + 1 PROVE At(n) \in D
    <3>1. n < k \/ n = k
      BY <1>1, <2>4
    <3>2. At(k) >= At(k)
      BY <1>1, <1>5, <1>6
    <3> QED BY <1>5, <2>1, <3>1, <3>2
  <2> HIDE DEF D
  <2> QED BY <1>2, <1>3, <2>2, <2>3, <2>4 DEF Covered
<1>9. PickReady'
  <2>1. ASSUME NEW i \in Found, k + 1 <= Len(predicate), i >= At(k + 1)
        PROVE  Below(source, i) \subseteq Found
    <3>1. k + 1 \in DOMAIN predicate /\ k < k + 1
      BY <1>1, <2>1
    <3>2. At(k) < At(k + 1) /\ At(k + 1) \in DOMAIN source
      BY <3>1, MatchesPlaces DEF SearchesAll
    <3>3. i >= At(k)
      BY <1>1, <1>5, <1>6, <2>1, <3>2
    <3> QED BY <1>5, <3>3
  <2>2. At(k)' = At(k + 1)
    BY <1>2 DEF At
  <2> QED BY <1>2, <1>3, <2>1, <2>2 DEF PickReady
<1> QED BY <1>4, <1>8, <1>9 DEF SearchesAll

(* What was found in the end is closed in both directions.                 *)
LEMMA FoundIsClosed ==
  ASSUME TypeOK, ParentsFirst(source), SearchesAll,
         phase = "pick", k > Len(predicate)
  PROVE  Ancestors \cup Descendants \subseteq Range(result)
<1>1. /\ source \in Seq(Goroutines) /\ predicate \in Seq(Goroutines)
      /\ Range(result) \subseteq Range(source)
      /\ \A n \in DOMAIN predicate :
           n < k /\ At(n) \in DOMAIN source /\ source[At(n)] = predicate[n]
  BY MatchesPlaces DEF SearchesAll, TypeOK
<1>2. PICK C \in SUBSET Found :
         /\ \A i \in C : Below(source, i) \subseteq C
         /\ \A n \in DOMAIN predicate : n < k => At(n) \in C
  BY DEF SearchesAll, Covered
<1> DEFINE D == {source[i] : i \in C}
<1>3. C \subseteq DOMAIN source /\ \A i \in C : source[i] \in Range(result)
  BY DEF Found, PlacesIn
<1>4. D \subseteq Range(result) /\ Range(result) \subseteq Known
  BY <1>1, <1>3 DEF Known
<1>5. Range(predicate) \subseteq D
  BY <1>1, <1>2 DEF Range
<1>6. DownClosed(D)
  <2>1. ASSUME NEW g \in D, NEW c \in Range(source), c.createdBy = g.id
        PROVE  c \in D
    <3>1. PICK i \in C : g = source[i]
      OBVIOUS
    <3>2. PICK j \in DOMAIN source : c = source[j]
      BY DEF Range
    <3>3. j \in Below(source, i)
      BY <2>1, <3>1, <3>2 DEF Below
    <3> QED BY <1>2, <3>2, <3>3
  <2> HIDE DEF D
  <2> QED BY <1>5, <2>1 DEF DownClosed
<1>7. UpClosed(Range(result))
  <2>1. ASSUME NEW g \in Range(result), ByID(source, g.createdBy) # NoGoroutine
        PROVE  ByID(source, g.createdBy) \in Range(result)
    <3>1. PICK i \in DOMAIN source : g = source[i]
      BY <1>1 DEF Range
    <3>2. i \in Found
      BY <3>1 DEF Found, PlacesIn
    <3>3. PICK p \in DOMAIN source :
             ByID(source, g.createdBy) = source[p] /\ i \in Below(source, p)
      BY <1>1, <2>1, <3>1, ParentsPlace
    <3>4. p \in Found
      BY <3>2, <3>3 DEF SearchesAll, Connected
    <3> QED BY <3>3, <3>4 DEF Found, PlacesIn
  <2> QED BY <1>4, <1>5, <2>1 DEF UpClosed
<1> HIDE DEF D
<1>8. Descendants \subseteq D
  BY <1>4, <1>6 DEF Descendants
<1>9. Ancestors \subseteq Range(result)
  BY <1>4, <1>7 DEF Ancestors
<1> QED BY <1>4, <1>8, <1>9

(* Sorting keeps what was found.                                           *)
LEMMA FinishKeeps ==
  ASSUME TypeOK, ParentsFirst(source), SearchesAll, Finish
  PROVE  SearchesAll'
<1>1. /\ source' = source /\ predicate' = predicate /\ k' = k /\ queue' = queue
      /\ Ancestors' = Ancestors /\ Descendants' = Descendants
      /\ phase = "pick" /\ k > Len(predicate) /\ phase' = "done"
      /\ \A n : At(n)' = At(n)
  BY SameInput DEF Finish
<1>2. Range(result') = Range(result)
  <2>1. result \in Seq(Goroutines) /\ result' \in Sortings(result)
    BY DEF Finish, TypeOK
  <2>2. /\ DOMAIN result' = DOMAIN result
        /\ \E p \in [DOMAIN result -> DOMAIN result] :
             /\ \A i, j \in DOMAIN result : p[i] = p[j] => i = j
             /\ \A j \in DOMAIN result : \E i \in DOMAIN result : p[i] = j
             /\ \A i \in DOMAIN result : result'[i] = result[p[i]]
    BY <2>1, SortingsPermute
  <2>3. PICK p \in [DOMAIN result -> DOMAIN result] :
             /\ \A j \in DOMAIN result : \E i \in DOMAIN result : p[i] = j
             /\ \A i \in DOMAIN result : result'[i] = result[p[i]]
    BY <2>2
  <2>4. DOMAIN result' = DOMAIN result
    BY <2>2
  <2>5. ASSUME NEW j \in DOMAIN result
        PROVE  \E i \in DOMAIN result' : result'[i] = result[j]
    BY <2>3, <2>4
  <2>6. \A i \in DOMAIN result' : \E j \in DOMAIN result : result'[i] = result[j]
    BY <2>3, <2>4
  <2> QED BY <2>5, <2>6 DEF Range
<1>3. Found' = Found
  BY <1>1, <1>2 DEF Found, PlacesIn
<1>4. Covered'
  BY <1>3, CoveredStays DEF SearchesAll, Finish
<1>5. Complete'
  BY <1>1, <1>2, FoundIsClosed DEF Complete
<1>6. /\ Connected' /\ PickReady' /\ ClimbReady' /\ DescentReady'
      /\ IsFiltered(predicate', source')
      /\ Range(result') \subseteq Range(source')
      /\ Range(queue') \subseteq Range(result')
  BY <1>1, <1>2, <1>3
  DEF Connected, PickReady, ClimbReady, DescentReady, SearchesAll
<1> QED BY <1>4, <1>5, <1>6 DEF SearchesAll

(* Every step keeps the invariant.                                         *)
LEMMA CompleteInvStep ==
  ASSUME CompleteInv, [Next]_vars
  PROVE  CompleteInv'
<1>1. SearchInv /\ SearchInv' /\ TypeOK
  BY SearchInvStep DEF CompleteInv, SearchInv
<1>2. source' = source
  BY SameInput DEF Next, vars, Pick, Climb, StartDescent, Descend, NextParent,
                   NextPredicate, Finish
<1>3. SUFFICES ASSUME ParentsFirst(source) PROVE SearchesAll'
  BY <1>1, <1>2 DEF CompleteInv
<1>4. SearchesAll
  BY <1>3 DEF CompleteInv
<1>5. phase \in {"up", "down"} => k \in DOMAIN predicate
  BY <1>1 DEF SearchInv, TypeOK
<1>6. CASE Pick
  BY <1>1, <1>3, <1>4, <1>6, PickKeeps
<1>7. CASE Climb
  BY <1>1, <1>3, <1>4, <1>7, ClimbKeeps
<1>8. CASE StartDescent
  <2>1. k \in DOMAIN predicate
    BY <1>5, <1>8 DEF StartDescent
  <2> QED BY <1>1, <1>3, <1>4, <1>8, <2>1, StartDescentKeeps
<1>9. CASE Descend
  BY <1>1, <1>3, <1>4, <1>9, DescendKeeps
<1>10. CASE NextParent
  BY <1>1, <1>3, <1>4, <1>10, NextParentKeeps
<1>11. CASE NextPredicate
  <2>1. k \in DOMAIN predicate
    BY <1>5, <1>11 DEF NextPredicate
  <2> QED BY <1>1, <1>3, <1>4, <1>11, <2>1, NextPredicateKeeps
<1>12. CASE Finish
  BY <1>1, <1>3, <1>4, <1>12, FinishKeeps
<1>13. CASE UNCHANGED vars
  <2>1. UNCHANGED <<input, phase, k, queue, pos, result>>
    BY <1>13 DEF vars
  <2>2. /\ source' = source /\ predicate' = predicate /\ \A n : At(n)' = At(n)
        /\ Ancestors' = Ancestors /\ Descendants' = Descendants
    BY <2>1, SameInput
  <2>3. Found' = Found /\ At(k)' = At(k)
    BY <2>1, <2>2 DEF Found, At
  <2>4. Covered'
    BY <1>4, <2>1, <2>3, CoveredStays DEF SearchesAll
  <2> QED
    BY <1>4, <2>1, <2>2, <2>3, <2>4
    DEF SearchesAll, Connected, PickReady, ClimbReady, DescentReady, Complete
<1> QED BY <1>6, <1>7, <1>8, <1>9, <1>10, <1>11, <1>12, <1>13 DEF Next

(* On a dump that lists every goroutine after the one that created it,     *)
(* graph returns all ancestors and descendants of the matches.             *)
THEOREM GraphComplete == Spec => []Complete
<1>1. CompleteInv => Complete
  BY DEF CompleteInv, SearchesAll, Complete
<1> QED BY <1>1, CompleteInvInit, CompleteInvStep, PTL DEF Spec

-----------------------------------------------------------------------------
(* The search, step by step, is the function InGraphOf.  The result of the *)
(* first n matches; and of the search for the ancestors of the k-th.       *)
Matched(n) == InGraphOf(source, SubSeq(predicate, 1, n))
Match == predicate[k]
WithMatch == Add(Matched(k - 1), Match)
Above == Explore(source, Match, WithMatch, TRUE)

(* What was found since the result was known is in the source.             *)
FoundInSource(known) ==
  /\ Len(known) <= Len(result)
  /\ \A i \in (Len(known) + 1)..Len(result) : result[i] \in Range(source)

(* A search takes one goroutine off the queue in a round, and puts in what *)
(* it found.                                                               *)
Counted(n, s, known) == n + Len(s.queue) = 1 + Len(s.result) - Len(known)

(* Upwards, every step is a round.                                         *)
Climbed ==
  \E n \in Nat : LET s == Search(source, Match, WithMatch, TRUE)[n]
                 IN  s = [result |-> result, queue |-> queue] /\ Counted(n, s, WithMatch)

(* Downwards, a round goes through the source: from s, the children among  *)
(* the goroutines before the i-th are in the result rs and the queue q.    *)
ChildrenBefore(src, i, s) ==
  Only(SubSeq(src, 1, i - 1),
       {c \in ToSet(src) : c.createdBy = Head(s.queue).id})

InRound(src, s, i, rs, q) ==
  /\ s.queue = <<>> => i = 1
  /\ Len(s.result) <= Len(rs)
  /\ rs = AddAll(s.result, ChildrenBefore(src, i, s))
  /\ q = s.queue \o SubSeq(rs, Len(s.result) + 1, Len(rs))

Descended ==
  \E n \in Nat : LET s == Search(source, Match, Above, FALSE)[n]
                 IN  InRound(source, s, pos, result, queue) /\ Counted(n, s, Above)

ComputesInv ==
  /\ SearchInv
  /\ phase = "pick" => result = Matched(k - 1)
  /\ phase = "up" => FoundInSource(WithMatch) /\ Climbed
  /\ phase = "down" => FoundInSource(Above) /\ Descended
  /\ ComputesInGraphOf

(* No goroutine of the source is found twice, so a search finds no more    *)
(* than there are.                                                         *)
LEMMA FewFound ==
  ASSUME source \in Seq(Goroutines), result \in Seq(Goroutines), NoDuplicates,
         NEW known \in Seq(Goroutines), FoundInSource(known)
  PROVE  Len(result) - Len(known) <= Len(source)
<1> DEFINE a == Len(known) + 1
           b == Len(result)
           S == a..b
           T == 1..Len(source)
           f == [i \in S |-> CHOOSE p \in T : source[p] = result[i]]
<1>1. /\ Len(source) \in Nat /\ DOMAIN source = T
      /\ a \in Nat /\ b \in Nat /\ a <= b + 1 /\ \A i \in S : i \in 1..b
      /\ DOMAIN result = 1..b
  BY DEF FoundInSource
<1>2. \A i \in S : \E p \in T : source[p] = result[i]
  BY <1>1 DEF FoundInSource, Range
<1>3. \A i \in S : f[i] \in T /\ source[f[i]] = result[i]
  BY <1>2
<1>a. f = [i \in S |-> f[i]]
  OBVIOUS
<1> HIDE DEF f, T
<1>4. \A i, j \in S : f[i] = f[j] => i = j
  BY <1>1, <1>3 DEF NoDuplicates, Same
<1> HIDE DEF S
<1>5. f \in [S -> T] /\ DOMAIN f = S
  BY <1>3, <1>a
<1>6. f \in Injection(S, T)
  BY <1>4, <1>5 DEF Injection, IsInjective
<1>7. IsFiniteSet(T) /\ Cardinality(T) = Len(source)
  <2> DEFINE n == Len(source)
  <2>1. 1 \in Int /\ n \in Int
    BY <1>1
  <2> HIDE DEF n
  <2>2. IsFiniteSet(1..n) /\ Cardinality(1..n) = IF 1 > n THEN 0 ELSE n - 1 + 1
    BY <2>1, FS_Interval, Zenon
  <2>3. (IF 1 > n THEN 0 ELSE n - 1 + 1) = n
    BY <1>1 DEF n
  <2> QED BY <2>2, <2>3 DEF T, n
<1>8. Cardinality(S) = b - a + 1
  <2>1. a \in Int /\ b \in Int
    BY <1>1
  <2> HIDE DEF a, b
  <2>2. Cardinality(a..b) = IF a > b THEN 0 ELSE b - a + 1
    BY <2>1, FS_Interval, Zenon
  <2>3. (IF a > b THEN 0 ELSE b - a + 1) = b - a + 1
    BY <1>1, <2>1
  <2> QED BY <2>2, <2>3 DEF S
<1>9. Cardinality(S) <= Cardinality(T)
  BY <1>6, <1>7, FS_Injection
<1> QED BY <1>1, <1>7, <1>8, <1>9

(* A search whose queue is empty stays what it is.                         *)
LEMMA SearchEnds ==
  ASSUME NEW r, NEW src, NEW g, NEW known, NEW up, IsSearch(r, src, g, known, up),
         NEW n \in Nat, r[n].queue = <<>>, NEW m \in Nat, n <= m
  PROVE  r[m] = r[n]
<1> DEFINE S == {i \in Nat : r[n + i] = r[n]}
<1>1. 0 \in S
  OBVIOUS
<1>2. ASSUME NEW i \in Nat, i \in S PROVE i + 1 \in S
  <2>1. n + i \in Nat /\ n + (i + 1) = (n + i) + 1
    OBVIOUS
  <2>2. r[(n + i) + 1] = Round(src, up, r[n + i])
    BY <2>1 DEF IsSearch
  <2>3. Round(src, up, r[n]) = r[n]
    BY DEF Round
  <2> QED BY <1>2, <2>1, <2>2, <2>3
<1> HIDE DEF S
<1>3. Nat \subseteq S
  BY <1>1, <1>2, SetInduction
<1>4. m - n \in Nat /\ n + (m - n) = m
  OBVIOUS
<1> QED BY <1>3, <1>4 DEF S

(* When its queue is empty, a search of the source has found what Explore  *)
(* returns.                                                                *)
LEMMA SearchFinds ==
  ASSUME TypeOK, NoDuplicates,
         NEW g \in Goroutines, NEW known \in Seq(Goroutines), NEW up,
         FoundInSource(known), NEW n \in Nat,
         LET s == Search(source, g, known, up)[n]
         IN  s.queue = <<>> /\ s.result = result /\ Counted(n, s, known)
  PROVE  result = Explore(source, g, known, up)
<1> DEFINE r == Search(source, g, known, up)
           N == Len(source) + 1
<1>1. /\ source \in Seq(Goroutines) /\ result \in Seq(Goroutines)
      /\ Len(result) \in Nat /\ Len(known) \in Nat /\ N \in Nat
  BY DEF TypeOK
<1>2. IsSearch(r, source, g, known, up) /\ Explore(source, g, known, up) = r[N].result
  BY <1>1, ExploreOf
<1>3. r[n].queue = <<>> /\ r[n].result = result /\ n + Len(r[n].queue) = 1 + Len(result) - Len(known)
  BY DEF Counted
<1> HIDE DEF r
<1>4. n = 1 + Len(result) - Len(known)
  <2>1. Len(r[n].queue) = 0
    BY <1>3
  <2> QED BY <1>3, <2>1
<1>5. n <= N
  BY <1>1, <1>4, FewFound
<1> HIDE DEF N
<1>6. r[N] = r[n]
  BY <1>1, <1>2, <1>3, <1>5, SearchEnds
<1> QED BY <1>2, <1>3, <1>6

(* What a step that leaves the input and the match alone cannot change.    *)
LEMMA SameMatch ==
  ASSUME UNCHANGED input
  PROVE  /\ source' = source /\ predicate' = predicate
         /\ \A n : Matched(n)' = Matched(n)
         /\ UNCHANGED k => Match' = Match /\ WithMatch' = WithMatch /\ Above' = Above
<1>1. source' = source /\ predicate' = predicate
  BY SameInput
<1>2. \A n : Matched(n)' = Matched(n)
  BY <1>1 DEF Matched
<1>3. ASSUME UNCHANGED k PROVE Match' = Match /\ WithMatch' = WithMatch /\ Above' = Above
  <2>1. Match' = Match
    BY <1>1, <1>3 DEF Match
  <2>2. WithMatch' = WithMatch
    BY <1>1, <1>3, <2>1 DEF WithMatch, Matched
  <2> QED BY <1>1, <2>1, <2>2 DEF Above
<1> QED BY <1>1, <1>2, <1>3

(* The match, and what is known before each of its searches.               *)
LEMMA MatchTyped ==
  ASSUME TypeOK, k <= Len(predicate)
  PROVE  /\ Match \in Goroutines
         /\ Matched(k - 1) \in Seq(Goroutines)
         /\ WithMatch \in Seq(Goroutines) /\ Above \in Seq(Goroutines)
         /\ Matched(k) = Explore(source, Match, Above, FALSE)
<1>1. /\ source \in Seq(Goroutines) /\ predicate \in Seq(Goroutines)
      /\ Len(predicate) \in Nat /\ k \in 1..Len(predicate)
  BY DEF TypeOK
<1>2. Match \in Goroutines
  BY <1>1 DEF Match
<1> DEFINE before == SubSeq(predicate, 1, k - 1)
<1>3. before \in Seq(Goroutines) /\ SubSeq(predicate, 1, k) = Append(before, Match)
  BY <1>1 DEF Match
<1> HIDE DEF before
<1>4. /\ InGraphOf(source, before) \in Seq(Goroutines)
      /\ InGraphOf(source, Append(before, Match)) = Visit(source, InGraphOf(source, before), Match)
  BY <1>1, <1>2, <1>3, GraphOf
<1>5. Matched(k - 1) \in Seq(Goroutines) /\ Matched(k) = Visit(source, Matched(k - 1), Match)
  BY <1>3, <1>4 DEF Matched, before
<1>6. WithMatch \in Seq(Goroutines)
  BY <1>2, <1>5 DEF WithMatch, Add
<1>7. Above \in Seq(Goroutines)
  BY <1>1, <1>2, <1>6, ExploreOf DEF Above
<1>8. Visit(source, Matched(k - 1), Match) = Explore(source, Match, Above, FALSE)
  BY DEF Visit, Above, WithMatch
<1> QED BY <1>2, <1>5, <1>6, <1>7, <1>8

(* The search starts with the match in its queue.                          *)
LEMMA SearchStarts ==
  ASSUME TypeOK, NEW g \in Goroutines, NEW known \in Seq(Goroutines), NEW up
  PROVE  LET r == Search(source, g, known, up)
         IN  /\ r[0] = [result |-> known, queue |-> <<g>>]
             /\ Counted(0, r[0], known)
             /\ \A n \in Nat : r[n + 1] = Round(source, up, r[n])
             /\ \A n \in Nat : r[n] \in Searches(Goroutines)
<1> DEFINE r == Search(source, g, known, up)
<1>1. source \in Seq(Goroutines)
  BY DEF TypeOK
<1>2. IsSearch(r, source, g, known, up) /\ \A n \in Nat : r[n] \in Searches(Goroutines)
  BY <1>1, ExploreOf
<1> HIDE DEF r
<1>3. r[0] = [result |-> known, queue |-> <<g>>]
  BY <1>2 DEF IsSearch
<1>4. Counted(0, r[0], known)
  <2>1. Len(known) \in Nat /\ Len(<<g>>) = 1
    OBVIOUS
  <2>2. r[0].queue = <<g>> /\ r[0].result = known
    BY <1>3
  <2> QED BY <2>1, <2>2 DEF Counted
<1>5. \A n \in Nat : r[n + 1] = Round(source, up, r[n])
  BY <1>2 DEF IsSearch
<1> QED BY <1>2, <1>3, <1>4, <1>5 DEF r

(* One lemma per action.  The match is added, and the climb starts.        *)
LEMMA PickComputes ==
  ASSUME ComputesInv, SearchInv', Pick
  PROVE  ComputesInv'
<1>1. TypeOK /\ k <= Len(predicate) /\ phase = "pick" /\ result = Matched(k - 1)
  BY DEF ComputesInv, SearchInv, Pick
<1>2. UNCHANGED <<input, k>> /\ phase' = "up" /\ queue' = <<Match>>
  BY DEF Pick, Match
<1>3. result' = WithMatch
  BY <1>1 DEF Pick, AddTo, WithMatch, Add, Match
<1>4. source' = source /\ Match' = Match /\ WithMatch' = WithMatch
  BY <1>2, SameMatch
<1>5. Match \in Goroutines /\ WithMatch \in Seq(Goroutines)
  BY <1>1, MatchTyped
<1>6. FoundInSource(WithMatch)'
  <2>1. Len(WithMatch) \in Nat
    BY <1>5
  <2>2. \A i \in (Len(WithMatch) + 1)..Len(WithMatch) : FALSE
    BY <2>1
  <2> QED BY <1>3, <1>4, <2>1, <2>2 DEF FoundInSource
<1>7. Climbed'
  <2> DEFINE s == Search(source, Match, WithMatch, TRUE)[0]
  <2>1. s = [result |-> WithMatch, queue |-> <<Match>>] /\ Counted(0, s, WithMatch)
    BY <1>1, <1>5, SearchStarts
  <2>2. s = [result |-> result', queue |-> queue']
    BY <1>2, <1>3, <2>1
  <2> HIDE DEF s
  <2>3. \E n \in Nat : LET t == Search(source, Match, WithMatch, TRUE)[n]
                 IN  t = [result |-> result', queue |-> queue'] /\ Counted(n, t, WithMatch)
    BY <2>1, <2>2 DEF s
  <2> QED BY <1>4, <2>3 DEF Climbed, Counted
<1> QED BY <1>2, <1>6, <1>7 DEF ComputesInv, ComputesInGraphOf

(* A round upwards: the parent, unless nothing is known of it or it was    *)
(* found before, is found and will be expanded.                            *)
Upwards(src, rs, q, p) ==
  /\ p = NoGoroutine \/ Has(rs, p)
       => Round(src, TRUE, [result |-> rs, queue |-> q])
            = [result |-> rs, queue |-> Tail(q)]
  /\ ~(p = NoGoroutine \/ Has(rs, p))
       => Round(src, TRUE, [result |-> rs, queue |-> q])
            = [result |-> Append(rs, p), queue |-> Append(Tail(q), p)]

(* A round upwards is that.                                                *)
LEMMA ParentRound ==
  ASSUME NEW W, NEW src \in Seq(W), NEW rs \in Seq(W), NEW q \in Seq(W), q # <<>>
  PROVE  Upwards(src, rs, q, ByID(src, Head(q).createdBy))
<1> DEFINE p == ByID(src, Head(q).createdBy)
           near == Near(src, Head(q), TRUE)
           r == AddAll(rs, near)
           new == SubSeq(r, Len(rs) + 1, Len(r))
<1>1. Round(src, TRUE, [result |-> rs, queue |-> q])
        = [result |-> r, queue |-> Tail(q) \o new]
  BY DEF Round
<1>2. near = IF p = NoGoroutine THEN <<>> ELSE <<p>>
  BY DEF Near, ParentOf
<1> HIDE DEF near
<1>3. AddAll(rs, <<>>) = rs
  BY AddAllOf
<1>4. p # NoGoroutine => p \in W
  BY ByIDInDump, RangeInSet
<1> HIDE DEF p
<1>5. Tail(q) \in Seq(W) /\ Len(rs) \in Nat
  OBVIOUS
<1> DEFINE rest == Tail(q)
<1> HIDE DEF rest
<1>6. rest \in Seq(W)
  BY <1>5 DEF rest
<1>7. rest \o <<>> = rest /\ SubSeq(rs, Len(rs) + 1, Len(rs)) = <<>>
  BY <1>5, <1>6
<1>8. CASE p = NoGoroutine \/ Has(rs, p)
  <2>1. r = rs
    <3>1. CASE p = NoGoroutine
      BY <1>2, <1>3, <3>1
    <3>2. CASE p # NoGoroutine
      <4>1. AddAll(rs, <<p>>) = Add(rs, p)
        BY <1>4, <3>2, AddOne
      <4> QED BY <1>2, <1>8, <3>2, <4>1 DEF Add
    <3> QED BY <3>1, <3>2
  <2> HIDE DEF r
  <2>2. Tail(q) \o new = Tail(q)
    BY <1>7, <2>1 DEF rest
  <2> QED BY <1>1, <1>8, <2>1, <2>2 DEF Upwards, p
<1>9. CASE ~(p = NoGoroutine \/ Has(rs, p))
  <2>1. p \in W
    BY <1>4, <1>9
  <2>2. AddAll(rs, <<p>>) = Add(rs, p)
    BY <2>1, AddOne
  <2>3. r = Append(rs, p)
    BY <1>2, <1>9, <2>2 DEF Add
  <2> HIDE DEF r
  <2>4. new = <<p>>
    <3>1. /\ SubSeq(Append(rs, p), Len(rs) + 1, Len(rs) + 1) = <<p>>
          /\ Len(Append(rs, p)) = Len(rs) + 1
      BY <2>1, LastOf
    <3> QED BY <2>3, <3>1
  <2> HIDE DEF new
  <2>5. Tail(q) \o new = Append(Tail(q), p)
    <3>1. rest \o <<p>> = Append(rest, p)
      BY <1>6, <2>1
    <3> QED BY <2>4, <3>1 DEF rest
  <2> QED BY <1>1, <1>9, <2>3, <2>5 DEF Upwards, p
<1> QED BY <1>8, <1>9

(* One iteration of graphAncestors is a round.                             *)
LEMMA ClimbIsRound ==
  ASSUME TypeOK, Climb
  PROVE  /\ Round(source, TRUE, [result |-> result, queue |-> queue])
              = [result |-> result', queue |-> queue']
         /\ Len(queue') + Len(result) + 1 = Len(queue) + Len(result')
         /\ \/ result' = result
            \/ \E g \in Range(source) : result' = Append(result, g)
<1> DEFINE p == ByID(source, Head(queue).createdBy)
           out == p = NoGoroutine \/ Has(result, p)
<1>1. /\ source \in Seq(Goroutines) /\ result \in Seq(Goroutines)
      /\ queue \in Seq(Goroutines) /\ queue # <<>>
  BY DEF TypeOK, Climb
<1>2. /\ Tail(queue) \in Seq(Goroutines) /\ Len(Tail(queue)) = Len(queue) - 1
      /\ Len(queue) \in Nat /\ Len(result) \in Nat
  BY <1>1
<1>3. p = NoGoroutine \/ p \in Range(source)
  BY <1>1, ByIDInDump
<1>4. Range(source) \subseteq Goroutines
  BY <1>1, RangeInSet
<1>5. IF out THEN result' = result /\ queue' = Tail(queue)
      ELSE result' = Append(result, p) /\ queue' = Append(Tail(queue), p)
  BY Zenon DEF Climb, Requeue
<1>a. p = ByID(source, Head(queue).createdBy)
  OBVIOUS
<1>b. out <=> p = NoGoroutine \/ Has(result, p)
  OBVIOUS
<1> HIDE DEF p, out
<1>6. /\ out => Round(source, TRUE, [result |-> result, queue |-> queue])
                  = [result |-> result, queue |-> Tail(queue)]
      /\ ~out => Round(source, TRUE, [result |-> result, queue |-> queue])
                   = [result |-> Append(result, p), queue |-> Append(Tail(queue), p)]
  <2>1. Upwards(source, result, queue, p)
    BY <1>1, <1>a, ParentRound
  <2> QED BY <1>b, <2>1 DEF Upwards
<1>7. ~out => p \in Range(source)
  BY <1>3, <1>b
<1>8. CASE out
  <2>1. Len(queue') + Len(result) + 1 = Len(queue) + Len(result')
    BY <1>2, <1>5, <1>8
  <2> QED BY <1>5, <1>6, <1>8, <2>1
<1>9. CASE ~out
  <2>1. p \in Range(source) /\ p \in Goroutines
    BY <1>4, <1>7, <1>9
  <2>2. Len(queue') = Len(queue) /\ Len(result') = Len(result) + 1
    BY <1>1, <1>2, <1>5, <1>9, <2>1
  <2>3. Len(queue') + Len(result) + 1 = Len(queue) + Len(result')
    BY <1>2, <2>2
  <2> QED BY <1>5, <1>6, <1>9, <2>1, <2>3
<1> QED BY <1>8, <1>9

(* What is found in a step was in the source.                              *)
LEMMA FoundNext ==
  ASSUME TypeOK, NEW known \in Seq(Goroutines), FoundInSource(known), UNCHANGED input,
         \/ result' = result
         \/ \E g \in Range(source) : result' = Append(result, g)
  PROVE  /\ Len(known) <= Len(result')
         /\ \A i \in (Len(known) + 1)..Len(result') : result'[i] \in Range(source)
         /\ source' = source
<1>1. source' = source
  BY SameInput
<1>2. CASE result' = result
  BY <1>1, <1>2 DEF FoundInSource
<1>3. ASSUME NEW g \in Range(source), result' = Append(result, g)
      PROVE  /\ Len(known) <= Len(result')
             /\ \A i \in (Len(known) + 1)..Len(result') : result'[i] \in Range(source)
  <2>1. result \in Seq(Goroutines) /\ g \in Goroutines /\ Len(known) \in Nat
    BY RangeInSet DEF TypeOK
  <2>2. /\ Len(result) \in Nat /\ Len(result') = Len(result) + 1
        /\ result'[Len(result) + 1] = g
        /\ \A i \in 1..Len(result) : result'[i] = result[i]
    BY <1>3, <2>1
  <2>3. Len(known) <= Len(result)
    BY DEF FoundInSource
  <2>4. ASSUME NEW i \in (Len(known) + 1)..Len(result') PROVE result'[i] \in Range(source)
    <3>1. CASE i = Len(result) + 1
      BY <2>2, <3>1
    <3>2. CASE i # Len(result) + 1
      <4>1. i \in (Len(known) + 1)..Len(result) /\ i \in 1..Len(result)
        BY <2>1, <2>2, <3>2
      <4> QED BY <2>2, <4>1 DEF FoundInSource
    <3> QED BY <3>1, <3>2
  <2> QED BY <2>1, <2>2, <2>3, <2>4
<1> QED BY <1>1, <1>2, <1>3

(* A climb is one round more.                                              *)
LEMMA ClimbComputes ==
  ASSUME ComputesInv, SearchInv', Climb
  PROVE  ComputesInv'
<1>1. TypeOK /\ k <= Len(predicate) /\ FoundInSource(WithMatch) /\ Climbed
  BY DEF ComputesInv, SearchInv, Climb
<1>2. UNCHANGED <<input, k>> /\ phase' = "up"
  BY DEF Climb
<1>3. source' = source /\ Match' = Match /\ WithMatch' = WithMatch
  BY <1>2, SameMatch
<1>4. Match \in Goroutines /\ WithMatch \in Seq(Goroutines)
  BY <1>1, MatchTyped
<1>5. FoundInSource(WithMatch)'
  <2>1. /\ Len(WithMatch) <= Len(result')
        /\ \A i \in (Len(WithMatch) + 1)..Len(result') : result'[i] \in Range(source)
    BY <1>1, <1>2, <1>4, ClimbIsRound, FoundNext
  <2> QED BY <1>3, <2>1 DEF FoundInSource
<1>6. Climbed'
  <2> DEFINE r == Search(source, Match, WithMatch, TRUE)
             s == [result |-> result, queue |-> queue]
             t == [result |-> result', queue |-> queue']
  <2>1. PICK n \in Nat : r[n] = s /\ Counted(n, s, WithMatch)
    BY <1>1 DEF Climbed
  <2>2. r[n + 1] = Round(source, TRUE, r[n])
    BY <1>1, <1>4, SearchStarts
  <2>3. r[n + 1] = t
    BY <1>1, <2>1, <2>2, ClimbIsRound
  <2>4. Counted(n + 1, t, WithMatch)
    <3>1. n + Len(queue) = 1 + Len(result) - Len(WithMatch)
      BY <2>1 DEF Counted
    <3>2. Len(queue') + Len(result) + 1 = Len(queue) + Len(result')
      BY <1>1, ClimbIsRound
    <3>3. /\ Len(queue) \in Nat /\ Len(result) \in Nat /\ Len(WithMatch) \in Nat
          /\ Len(queue') \in Nat /\ Len(result') \in Nat
      BY <1>1, <1>4 DEF TypeOK, SearchInv
    <3>4. (n + 1) + Len(queue') = 1 + Len(result') - Len(WithMatch)
      BY <3>1, <3>2, <3>3
    <3> QED BY <3>4 DEF Counted
  <2> HIDE DEF r, t
  <2>5. \E m \in Nat : LET u == Search(source, Match, WithMatch, TRUE)[m]
                 IN  u = [result |-> result', queue |-> queue'] /\ Counted(m, u, WithMatch)
    <3>1. n + 1 \in Nat
      OBVIOUS
    <3> QED BY <2>3, <2>4, <3>1 DEF r, t
  <2> QED BY <1>3, <2>5 DEF Climbed, Counted
<1> QED BY <1>2, <1>5, <1>6 DEF ComputesInv, ComputesInGraphOf

(* A round downwards begins with its state as it is.                       *)
LEMMA RoundStarts ==
  ASSUME NEW W, NEW src \in Seq(W), NEW s \in Searches(W)
  PROVE  InRound(src, s, 1, s.result, s.queue)
<1>1. s.result \in Seq(W) /\ s.queue \in Seq(W) /\ Len(s.result) \in Nat
  BY DEF Searches
<1>2. SubSeq(src, 1, 1 - 1) = <<>>
  OBVIOUS
<1>3. ChildrenBefore(src, 1, s) = <<>>
  BY <1>2, OnlyOf DEF ChildrenBefore
<1>4. AddAll(s.result, <<>>) = s.result
  BY <1>1, AddAllOf
<1>5. SubSeq(s.result, Len(s.result) + 1, Len(s.result)) = <<>>
  BY <1>1
<1>6. s.queue = s.queue \o <<>>
  BY <1>1
<1>7. s.queue = s.queue \o SubSeq(s.result, Len(s.result) + 1, Len(s.result))
  BY <1>5, <1>6
<1>8. s.result = AddAll(s.result, ChildrenBefore(src, 1, s))
  BY <1>3, <1>4
<1>9. Len(s.result) <= Len(s.result)
  BY <1>1
<1> QED BY <1>7, <1>8, <1>9, Zenon DEF InRound

(* It is about the goroutine at the front of the queue, from start to end; *)
(* and there is none when the queue was empty.                             *)
LEMMA RoundAbout ==
  ASSUME NEW W, NEW src \in Seq(W), NEW s \in Searches(W), NEW i, NEW rs \in Seq(W), NEW q,
         InRound(src, s, i, rs, q)
  PROVE  /\ s.queue = <<>> => q = <<>> /\ rs = s.result /\ i = 1
         /\ s.queue # <<>> => q # <<>> /\ Head(q) = Head(s.queue)
         /\ Len(q) = Len(s.queue) + (Len(rs) - Len(s.result))
<1> DEFINE new == SubSeq(rs, Len(s.result) + 1, Len(rs))
<1>1. /\ s.result \in Seq(W) /\ s.queue \in Seq(W)
      /\ Len(s.result) \in Nat /\ Len(rs) \in Nat /\ Len(s.result) <= Len(rs)
  BY DEF Searches, InRound
<1>2. new \in Seq(W) /\ Len(new) = Len(rs) - Len(s.result)
  <2> DEFINE m == Len(s.result) + 1
  <2>1. m \in Nat \ {0} /\ m <= Len(rs) + 1 /\ Len(rs) + 1 - m = Len(rs) - Len(s.result)
    BY <1>1
  <2> HIDE DEF m
  <2>2. SubSeq(rs, m, Len(rs)) \in Seq(W) /\ Len(SubSeq(rs, m, Len(rs))) = Len(rs) + 1 - m
    BY <2>1, EndOf
  <2> QED BY <2>1, <2>2 DEF m
<1>3. q = s.queue \o new
  BY DEF InRound
<1>4. ASSUME s.queue = <<>> PROVE rs = s.result /\ i = 1
  <2>1. i = 1
    BY <1>4 DEF InRound
  <2>2. SubSeq(src, 1, 1 - 1) = <<>>
    OBVIOUS
  <2>3. ChildrenBefore(src, i, s) = <<>>
    BY <2>1, <2>2, OnlyOf DEF ChildrenBefore
  <2>4. AddAll(s.result, <<>>) = s.result
    BY <1>1, AddAllOf
  <2> QED BY <2>1, <2>3, <2>4 DEF InRound
<1> HIDE DEF new
<1>5. ASSUME s.queue = <<>> PROVE q = <<>>
  <2>1. Len(new) = 0
    BY <1>1, <1>2, <1>4, <1>5
  <2>2. new = <<>>
    BY <1>2, <2>1
  <2> QED BY <1>3, <1>5, <2>2
<1>6. ASSUME s.queue # <<>> PROVE q # <<>> /\ Head(q) = Head(s.queue)
  BY <1>1, <1>2, <1>3, <1>6
<1>7. Len(q) = Len(s.queue) + Len(new)
  <2> DEFINE old == s.queue
  <2>1. old \in Seq(W) /\ q = old \o new
    BY <1>1, <1>3
  <2> HIDE DEF old
  <2>2. new \in Seq(W)
    BY <1>2
  <2>3. Len(old \o new) = Len(old) + Len(new)
    BY <2>1, <2>2
  <2> QED BY <2>1, <2>3 DEF old
<1> QED BY <1>2, <1>4, <1>5, <1>6, <1>7

(* One goroutine of the source further.                                    *)
LEMMA RoundGoesOn ==
  ASSUME NEW W, NEW src \in Seq(W), NEW s \in Searches(W), s.queue # <<>>,
         NEW i \in 1..Len(src), NEW rs \in Seq(W), NEW q, InRound(src, s, i, rs, q)
  PROVE  IF src[i].createdBy = Head(s.queue).id /\ ~Has(rs, src[i])
         THEN InRound(src, s, i + 1, Append(rs, src[i]), Append(q, src[i]))
         ELSE InRound(src, s, i + 1, rs, q)
<1> DEFINE before == SubSeq(src, 1, i - 1)
           S == {c \in ToSet(src) : c.createdBy = Head(s.queue).id}
           g == src[i]
<1>1. /\ s.result \in Seq(W) /\ s.queue \in Seq(W)
      /\ Len(s.result) \in Nat /\ Len(rs) \in Nat /\ Len(s.result) <= Len(rs)
  BY DEF Searches, InRound
<1>2. /\ before \in Seq(W) /\ g \in W /\ (i + 1) - 1 = i
      /\ SubSeq(src, 1, i) = Append(before, g)
  OBVIOUS
<1>3. g \in S <=> g.createdBy = Head(s.queue).id
  BY DEF ToSet
<1>4. /\ ChildrenBefore(src, i, s) = Only(before, S)
      /\ ChildrenBefore(src, i + 1, s) = Only(Append(before, g), S)
  BY <1>2 DEF ChildrenBefore
<1> HIDE DEF before, S, g
<1>5. /\ Only(before, S) \in Seq(W)
      /\ Only(Append(before, g), S) = IF g \in S THEN Append(Only(before, S), g) ELSE Only(before, S)
  <2>1. \A gs \in Seq(W) :
              /\ Only(gs, S) \in Seq(W)
              /\ \A h \in W :
                   Only(Append(gs, h), S) =
                     IF h \in S THEN Append(Only(gs, S), h) ELSE Only(gs, S)
    BY OnlyOf
  <2> QED BY <1>2, <2>1
<1>6. /\ rs = AddAll(s.result, Only(before, S))
      /\ q = s.queue \o SubSeq(rs, Len(s.result) + 1, Len(rs))
  BY <1>4 DEF InRound
<1>7. AddAll(s.result, Append(Only(before, S), g)) = Add(rs, g)
  BY <1>1, <1>2, <1>5, <1>6, AddAllOf
<1>8. CASE g \in S /\ ~Has(rs, g)
  <2>1. Append(rs, g) = AddAll(s.result, ChildrenBefore(src, i + 1, s))
    BY <1>4, <1>5, <1>7, <1>8 DEF Add
  <2>2. Append(q, g) = s.queue \o SubSeq(Append(rs, g), Len(s.result) + 1, Len(Append(rs, g)))
    <3> DEFINE new == SubSeq(rs, Len(s.result) + 1, Len(rs))
               m == Len(s.result) + 1
               old == s.queue
    <3>1. SubSeq(Append(rs, g), m, Len(rs) + 1) = Append(new, g)
      <4>1. m \in Nat \ {0} /\ m <= Len(rs) + 1
        BY <1>1
      <4> HIDE DEF m
      <4>2. \A h \in W : SubSeq(Append(rs, h), m, Len(rs) + 1) = Append(SubSeq(rs, m, Len(rs)), h)
        BY <4>1, EndOf
      <4> QED BY <1>2, <4>2 DEF m
    <3>2. Len(Append(rs, g)) = Len(rs) + 1
      BY <1>2
    <3>3. new \in Seq(W) /\ old \in Seq(W) /\ q = old \o new
      <4>1. m \in Nat \ {0} /\ m <= Len(rs) + 1
        BY <1>1
      <4> HIDE DEF m
      <4>2. SubSeq(rs, m, Len(rs)) \in Seq(W)
        BY <4>1, EndOf
      <4> QED BY <1>1, <1>6, <4>2 DEF m
    <3> HIDE DEF new, old
    <3>4. Append(old \o new, g) = old \o Append(new, g)
      <4>1. IsList(old) /\ IsList(new)
        BY <3>3, SeqIsList
      <4>2. Extends(old, new, g)
        BY <4>1, AppendToConcat
      <4> QED BY <4>2 DEF Extends
    <3> QED BY <3>1, <3>2, <3>3, <3>4 DEF old
  <2>3. Len(s.result) <= Len(Append(rs, g))
    BY <1>1, <1>2
  <2>4. InRound(src, s, i + 1, Append(rs, g), Append(q, g))
    BY <2>1, <2>2, <2>3 DEF InRound
  <2> QED BY <1>3, <1>8, <2>4 DEF g
<1>9. CASE ~(g \in S /\ ~Has(rs, g))
  <2>1. rs = AddAll(s.result, ChildrenBefore(src, i + 1, s))
    BY <1>4, <1>5, <1>6, <1>7, <1>9 DEF Add
  <2>2. InRound(src, s, i + 1, rs, q)
    BY <1>1, <1>6, <2>1 DEF InRound
  <2> QED BY <1>3, <1>9, <2>2 DEF g
<1> QED BY <1>8, <1>9

(* At the end of the source the round is over.                             *)
LEMMA RoundEnds ==
  ASSUME NEW W, NEW src \in Seq(W), NEW s \in Searches(W), s.queue # <<>>,
         NEW rs \in Seq(W), NEW q, InRound(src, s, Len(src) + 1, rs, q)
  PROVE  /\ Round(src, FALSE, s) = [result |-> rs, queue |-> Tail(q)]
         /\ Tail(q) \in Seq(W)
<1> DEFINE new == SubSeq(rs, Len(s.result) + 1, Len(rs))
           old == s.queue
<1>1. /\ s.result \in Seq(W) /\ old \in Seq(W)
      /\ Len(s.result) \in Nat /\ Len(rs) \in Nat
  BY DEF Searches
<1>2. (Len(src) + 1) - 1 = Len(src) /\ SubSeq(src, 1, Len(src)) = src
  OBVIOUS
<1>3. Near(src, Head(s.queue), FALSE) = ChildrenBefore(src, Len(src) + 1, s)
  BY <1>2 DEF Near, ChildrenOf, ChildrenBefore
<1>4. rs = AddAll(s.result, Near(src, Head(s.queue), FALSE)) /\ q = old \o new
  BY <1>3 DEF InRound
<1>5. Round(src, FALSE, s) = [result |-> rs, queue |-> Tail(old) \o new]
  BY <1>4 DEF Round
<1>6. new \in Seq(W) /\ old # <<>>
  BY <1>1
<1> HIDE DEF new, old
<1>7. Tail(q) = Tail(old) \o new /\ Tail(q) \in Seq(W)
  BY <1>1, <1>4, <1>6
<1> QED BY <1>5, <1>7

(* The climb is over: what it found is Above, and the descent starts.      *)
LEMMA StartDescentComputes ==
  ASSUME ComputesInv, SearchInv', StartDescent
  PROVE  ComputesInv'
<1>1. /\ TypeOK /\ NoDuplicates /\ k <= Len(predicate)
      /\ FoundInSource(WithMatch) /\ Climbed /\ queue = <<>>
  BY DEF ComputesInv, SearchInv, StartDescent
<1>2. /\ UNCHANGED <<input, k>> /\ phase' = "down" /\ result' = result
      /\ queue' = <<Match>> /\ pos' = 1
  BY DEF StartDescent, Match
<1>3. source' = source /\ Match' = Match /\ Above' = Above
  BY <1>2, SameMatch
<1>4. /\ Match \in Goroutines
      /\ WithMatch \in Seq(Goroutines) /\ Above \in Seq(Goroutines)
  BY <1>1, MatchTyped
<1>5. result = Above
  <2> DEFINE r == Search(source, Match, WithMatch, TRUE)
  <2>1. PICK n \in Nat : /\ r[n] = [result |-> result, queue |-> queue]
                         /\ Counted(n, r[n], WithMatch)
    BY <1>1 DEF Climbed
  <2> HIDE DEF r
  <2>a. r[n].queue = <<>> /\ r[n].result = result
    BY <1>1, <2>1
  <2>2. LET s == Search(source, Match, WithMatch, TRUE)[n]
        IN  s.queue = <<>> /\ s.result = result /\ Counted(n, s, WithMatch)
    BY <2>1, <2>a DEF r
  <2> QED BY <1>1, <1>4, <2>2, SearchFinds DEF Above
<1>6. FoundInSource(Above)'
  <2>1. Len(Above) \in Nat
    BY <1>4
  <2>2. \A i \in (Len(Above) + 1)..Len(Above) : FALSE
    BY <2>1
  <2> QED BY <1>2, <1>3, <1>5, <2>1, <2>2 DEF FoundInSource
<1>7. Descended'
  <2> DEFINE s == Search(source, Match, Above, FALSE)[0]
  <2>1. /\ s = [result |-> Above, queue |-> <<Match>>]
        /\ Counted(0, s, Above) /\ s \in Searches(Goroutines)
    BY <1>1, <1>4, SearchStarts
  <2> HIDE DEF s
  <2>2. s.result = result' /\ s.queue = queue'
    BY <1>2, <1>5, <2>1
  <2>3. source \in Seq(Goroutines)
    BY <1>1 DEF TypeOK
  <2>4. InRound(source, s, 1, s.result, s.queue)
    BY <2>1, <2>3, RoundStarts
  <2>5. InRound(source, s, pos', result', queue') /\ Counted(0, s, Above)
    BY <1>2, <2>1, <2>2, <2>4
  <2>6. \E n \in Nat : LET t == Search(source, Match, Above, FALSE)[n]
                       IN  InRound(source, t, pos', result', queue') /\ Counted(n, t, Above)
    BY <2>5 DEF s
  <2> QED BY <1>3, <2>6 DEF Descended
<1> QED BY <1>2, <1>6, <1>7 DEF ComputesInv, ComputesInGraphOf

(* What the descent's invariant says, of the round it is in.               *)
LEMMA DescentTyped ==
  ASSUME ComputesInv, phase = "down"
  PROVE  /\ TypeOK /\ NoDuplicates /\ k <= Len(predicate) /\ FoundInSource(Above)
         /\ source \in Seq(Goroutines) /\ result \in Seq(Goroutines)
         /\ Match \in Goroutines /\ Above \in Seq(Goroutines)
         /\ \E n \in Nat : LET s == Search(source, Match, Above, FALSE)[n]
                           IN  /\ s \in Searches(Goroutines)
                               /\ Search(source, Match, Above, FALSE)[n + 1] = Round(source, FALSE, s)
                               /\ InRound(source, s, pos, result, queue) /\ Counted(n, s, Above)
<1>1. /\ TypeOK /\ NoDuplicates /\ k <= Len(predicate)
      /\ FoundInSource(Above) /\ Descended
      /\ source \in Seq(Goroutines) /\ result \in Seq(Goroutines)
  BY DEF ComputesInv, SearchInv, TypeOK
<1>2. Match \in Goroutines /\ Above \in Seq(Goroutines)
  BY <1>1, MatchTyped
<1> DEFINE r == Search(source, Match, Above, FALSE)
<1>3. PICK n \in Nat : InRound(source, r[n], pos, result, queue) /\ Counted(n, r[n], Above)
  BY <1>1 DEF Descended
<1>4. r[n + 1] = Round(source, FALSE, r[n]) /\ r[n] \in Searches(Goroutines)
  BY <1>1, <1>2, SearchStarts
<1> QED BY <1>1, <1>2, <1>3, <1>4

(* One goroutine of the source further.                                    *)
LEMMA DescendComputes ==
  ASSUME ComputesInv, SearchInv', Descend
  PROVE  ComputesInv'
<1>0. phase = "down" /\ queue # <<>> /\ pos <= Len(source)
  BY DEF Descend
<1>1. /\ TypeOK /\ k <= Len(predicate) /\ FoundInSource(Above)
      /\ source \in Seq(Goroutines) /\ result \in Seq(Goroutines)
      /\ Match \in Goroutines /\ Above \in Seq(Goroutines)
      /\ pos \in 1..Len(source)
  BY <1>0, DescentTyped DEF TypeOK
<1>2. UNCHANGED <<input, k>> /\ phase' = "down" /\ pos' = pos + 1
  BY DEF Descend
<1>3. source' = source /\ Match' = Match /\ Above' = Above
  BY <1>2, SameMatch
<1> DEFINE c == source[pos]
<1>4. IF c.createdBy = Head(queue).id /\ ~Has(result, c)
      THEN result' = Append(result, c) /\ queue' = Append(queue, c)
      ELSE result' = result /\ queue' = queue
  BY Zenon DEF Descend
<1>5. c \in Range(source)
  BY <1>1 DEF Range
<1>6. FoundInSource(Above)'
  <2>1. \/ result' = result
        \/ \E g \in Range(source) : result' = Append(result, g)
    BY <1>4, <1>5
  <2>2. /\ Len(Above) <= Len(result')
        /\ \A i \in (Len(Above) + 1)..Len(result') : result'[i] \in Range(source)
    BY <1>1, <1>2, <2>1, FoundNext
  <2> QED BY <1>3, <2>2 DEF FoundInSource
<1>7. Descended'
  <2> DEFINE r == Search(source, Match, Above, FALSE)
  <2>1. PICK n \in Nat : /\ r[n] \in Searches(Goroutines)
                         /\ InRound(source, r[n], pos, result, queue)
                         /\ Counted(n, r[n], Above)
    BY <1>0, DescentTyped
  <2> DEFINE s == r[n]
  <2> HIDE DEF r, s
  <2>2. s.queue # <<>> /\ Head(queue) = Head(s.queue)
    BY <1>0, <1>1, <2>1, RoundAbout DEF s
  <2>3. IF c.createdBy = Head(s.queue).id /\ ~Has(result, c)
        THEN InRound(source, s, pos + 1, Append(result, c), Append(queue, c))
        ELSE InRound(source, s, pos + 1, result, queue)
    BY <1>1, <2>1, <2>2, RoundGoesOn DEF s
  <2>4. InRound(source, s, pos', result', queue')
    BY <1>2, <1>4, <2>2, <2>3, Zenon
  <2>5. \E m \in Nat : LET t == Search(source, Match, Above, FALSE)[m]
                       IN  InRound(source, t, pos', result', queue') /\ Counted(m, t, Above)
    BY <2>1, <2>4 DEF r, s
  <2> QED BY <1>3, <2>5 DEF Descended
<1> QED BY <1>2, <1>6, <1>7 DEF ComputesInv, ComputesInGraphOf

(* At the end of the source: the next round.                               *)
LEMMA NextParentComputes ==
  ASSUME ComputesInv, SearchInv', NextParent
  PROVE  ComputesInv'
<1>0. phase = "down" /\ queue # <<>> /\ pos > Len(source)
  BY DEF NextParent
<1>1. /\ TypeOK /\ k <= Len(predicate) /\ FoundInSource(Above)
      /\ source \in Seq(Goroutines) /\ result \in Seq(Goroutines)
      /\ Match \in Goroutines /\ Above \in Seq(Goroutines)
  BY <1>0, DescentTyped
<1>a. pos = Len(source) + 1
  BY <1>0, <1>1 DEF TypeOK
<1>2. /\ UNCHANGED <<input, k>> /\ phase' = "down" /\ pos' = 1
      /\ result' = result /\ queue' = Tail(queue)
  BY DEF NextParent
<1>3. source' = source /\ Match' = Match /\ Above' = Above
  BY <1>2, SameMatch
<1>4. FoundInSource(Above)'
  BY <1>1, <1>2, <1>3 DEF FoundInSource
<1>5. Descended'
  <2> DEFINE r == Search(source, Match, Above, FALSE)
  <2>1. PICK n \in Nat : /\ r[n] \in Searches(Goroutines)
                         /\ r[n + 1] = Round(source, FALSE, r[n])
                         /\ InRound(source, r[n], pos, result, queue)
                         /\ Counted(n, r[n], Above)
    BY <1>0, DescentTyped
  <2> DEFINE s == r[n]
             t == [result |-> result, queue |-> Tail(queue)]
  <2> HIDE DEF r, s, t
  <2>a. s \in Searches(Goroutines) /\ InRound(source, s, pos, result, queue)
    BY <2>1 DEF s
  <2>b. Len(queue) = Len(s.queue) + (Len(result) - Len(s.result))
    BY <1>1, <2>a, RoundAbout
  <2>2. s.queue # <<>>
    BY <1>0, <1>1, <2>a, RoundAbout
  <2>3. Round(source, FALSE, s) = t /\ Tail(queue) \in Seq(Goroutines)
    BY <1>1, <1>a, <2>a, <2>2, RoundEnds DEF t
  <2>4. t \in Searches(Goroutines) /\ t.result = result /\ t.queue = Tail(queue)
    BY <1>1, <2>3 DEF Searches, t
  <2>5. r[n + 1] = t
    BY <2>1, <2>3 DEF s
  <2>6. InRound(source, t, 1, t.result, t.queue)
    BY <1>1, <2>4, RoundStarts
  <2>7. Counted(n + 1, t, Above)
    <3>1. n + Len(s.queue) = 1 + Len(s.result) - Len(Above)
      BY <2>1 DEF Counted, s
    <3>2. Len(Tail(queue)) = Len(queue) - 1
      BY <1>0, <1>1 DEF TypeOK
    <3>3. /\ Len(queue) \in Nat /\ Len(result) \in Nat /\ Len(Above) \in Nat
          /\ Len(s.queue) \in Nat /\ Len(s.result) \in Nat
      BY <1>1, <2>1 DEF TypeOK, Searches, s
    <3>4. (n + 1) + Len(Tail(queue)) = 1 + Len(result) - Len(Above)
      <4> DEFINE a == Len(s.queue)
                 b == Len(s.result)
                 c == Len(Above)
                 d == Len(queue)
                 e == Len(result)
                 f == Len(Tail(queue))
      <4>1. /\ a \in Nat /\ b \in Nat /\ c \in Nat /\ d \in Nat /\ e \in Nat
            /\ n + a = 1 + b - c /\ d = a + (e - b) /\ f = d - 1
        BY <2>b, <3>1, <3>2, <3>3, Zenon
      <4> HIDE DEF a, b, c, d, e, f
      <4>2. (n + 1) + f = 1 + e - c
        BY <4>1
      <4> QED BY <4>2 DEF c, e, f
    <3> QED BY <2>4, <3>4 DEF Counted
  <2>8. InRound(source, t, pos', result', queue')
    BY <1>2, <2>4, <2>6
  <2>9. n + 1 \in Nat
    OBVIOUS
  <2>10. \E m \in Nat : LET u == Search(source, Match, Above, FALSE)[m]
                        IN  InRound(source, u, pos', result', queue') /\ Counted(m, u, Above)
    BY <2>5, <2>7, <2>8, <2>9 DEF r
  <2> QED BY <1>3, <2>10 DEF Descended
<1> QED BY <1>2, <1>4, <1>5 DEF ComputesInv, ComputesInGraphOf

(* The descent is over: what was found is what the first k matches lead    *)
(* to.                                                                     *)
LEMMA NextPredicateComputes ==
  ASSUME ComputesInv, SearchInv', NextPredicate
  PROVE  ComputesInv'
<1>0. phase = "down" /\ queue = <<>>
  BY DEF NextPredicate
<1>1. /\ TypeOK /\ NoDuplicates /\ k <= Len(predicate) /\ FoundInSource(Above)
      /\ source \in Seq(Goroutines) /\ result \in Seq(Goroutines)
      /\ Match \in Goroutines /\ Above \in Seq(Goroutines)
  BY <1>0, DescentTyped
<1>2. UNCHANGED input /\ phase' = "pick" /\ k' = k + 1 /\ result' = result
  BY DEF NextPredicate
<1>3. result = Matched(k)
  <2> DEFINE r == Search(source, Match, Above, FALSE)
  <2>1. PICK n \in Nat : /\ r[n] \in Searches(Goroutines)
                         /\ InRound(source, r[n], pos, result, queue)
                         /\ Counted(n, r[n], Above)
    BY <1>0, DescentTyped
  <2> HIDE DEF r
  <2>2. r[n].queue = <<>> /\ r[n].result = result
    BY <1>0, <1>1, <2>1, RoundAbout
  <2>3. LET s == Search(source, Match, Above, FALSE)[n]
        IN  s.queue = <<>> /\ s.result = result /\ Counted(n, s, Above)
    BY <2>1, <2>2 DEF r
  <2>4. result = Explore(source, Match, Above, FALSE)
    BY <1>1, <2>1, <2>3, SearchFinds
  <2> QED BY <1>1, <2>4, MatchTyped
<1>4. result' = Matched(k - 1)'
  <2>1. k' - 1 = k
    BY <1>1, <1>2 DEF TypeOK
  <2>2. source' = source /\ predicate' = predicate
    BY <1>2, SameMatch
  <2> QED BY <1>2, <1>3, <2>1, <2>2 DEF Matched
<1> QED BY <1>2, <1>4 DEF ComputesInv, ComputesInGraphOf

(* All matches are done.                                                   *)
LEMMA FinishComputes ==
  ASSUME ComputesInv, SearchInv', Finish
  PROVE  ComputesInv'
<1>1. TypeOK /\ phase = "pick" /\ k > Len(predicate) /\ result = Matched(k - 1)
  BY DEF ComputesInv, SearchInv, Finish
<1>2. UNCHANGED input /\ phase' = "done" /\ result' \in Sortings(result)
  BY DEF Finish
<1>3. k - 1 = Len(predicate) /\ SubSeq(predicate, 1, Len(predicate)) = predicate
  BY <1>1 DEF TypeOK
<1>4. result = InGraphOf(source, predicate)
  BY <1>1, <1>3 DEF Matched
<1>5. source' = source /\ predicate' = predicate
  BY <1>2, SameMatch
<1>6. ComputesInGraphOf'
  BY <1>2, <1>4, <1>5 DEF ComputesInGraphOf
<1> QED BY <1>2, <1>6 DEF ComputesInv

(* No match, nothing found.                                                *)
LEMMA ComputesInvInit == Init => ComputesInv
<1> SUFFICES ASSUME Init PROVE ComputesInv
  OBVIOUS
<1>1. SearchInv /\ source \in Seq(Goroutines)
  BY SearchInvInit DEF SearchInv, TypeOK
<1>2. k - 1 = 0 /\ SubSeq(predicate, 1, 0) = <<>>
  BY DEF Init
<1>3. InGraphOf(source, <<>>) = <<>>
  BY <1>1, GraphOf
<1>4. result = Matched(k - 1) /\ phase = "pick"
  BY <1>2, <1>3 DEF Matched, Init
<1> QED BY <1>1, <1>4 DEF ComputesInv, ComputesInGraphOf

(* Every step.                                                             *)
LEMMA ComputesInvStep ==
  ASSUME ComputesInv, [Next]_vars
  PROVE  ComputesInv'
<1>1. SearchInv'
  BY SearchInvStep DEF ComputesInv
<1>2. CASE UNCHANGED vars
  <2>1. UNCHANGED <<input, phase, k, queue, pos, result>>
    BY <1>2 DEF vars
  <2>2. /\ source' = source /\ predicate' = predicate
        /\ \A n : Matched(n)' = Matched(n)
        /\ Match' = Match /\ WithMatch' = WithMatch /\ Above' = Above
    BY <2>1, SameMatch
  <2>3. phase' = "pick" => result' = Matched(k - 1)'
    BY <2>1, <2>2 DEF ComputesInv, Matched
  <2>4. phase' = "up" => FoundInSource(WithMatch)' /\ Climbed'
    BY <2>1, <2>2 DEF ComputesInv, FoundInSource, Climbed
  <2>5. phase' = "down" => FoundInSource(Above)' /\ Descended'
    BY <2>1, <2>2 DEF ComputesInv, FoundInSource, Descended
  <2>6. ComputesInGraphOf'
    BY <2>1, <2>2 DEF ComputesInv, ComputesInGraphOf
  <2> QED BY <1>1, <2>3, <2>4, <2>5, <2>6 DEF ComputesInv
<1> QED
  BY <1>1, <1>2, PickComputes, ClimbComputes, StartDescentComputes, DescendComputes,
     NextParentComputes, NextPredicateComputes, FinishComputes DEF Next

(* The search, one iteration of its loops at a time, computes the function *)
(* InGraphOf that the machine applies in one step, for every dump.         *)
THEOREM GraphComputes == Spec => []ComputesInGraphOf
<1>1. ComputesInv => ComputesInGraphOf
  BY DEF ComputesInv
<1> QED BY <1>1, ComputesInvInit, ComputesInvStep, PTL DEF Spec

=============================================================================
