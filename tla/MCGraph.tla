------------------------------ MODULE MCGraph ------------------------------
(***************************************************************************)
(* Instances of Graph.  Forest dumps: four goroutines, each created by an  *)
(* earlier ID or by none, listed in every order.  Tangled dumps: three     *)
(* goroutines with any "created by" links (a goroutine its own ancestor,   *)
(* parents that are not in the dump) and with repetitions of a goroutine,  *)
(* as union leaves them.  The predicate dump is what a filter can keep: a  *)
(* subsequence of the source.                                              *)
(***************************************************************************)
EXTENDS Graph

NewGoroutine(id, parent) ==
  [id |-> id, hash |-> "trace", createdBy |-> parent]

MCGoroutines == {NewGoroutine(id, parent) : id \in 1..4, parent \in 0..4}

Forests == {f \in [1..4 -> 0..3] : \A id \in 1..4 : f[id] < id}

Shuffled ==
  {[i \in 1..4 |-> NewGoroutine(p[i], f[p[i]])] :
      f \in Forests, p \in Permutations(1..4)}

Tangled ==
  {[i \in DOMAIN s |-> NewGoroutine(s[i], f[s[i]])] :
      f \in [1..3 -> {1, 2, 4}], s \in {<<1, 2, 3>>, <<3, 1, 1>>, <<2, 2, 1>>}}

Filtered(gs) ==
  {SelectSeq(gs, LAMBDA g : g.id \in ids) : ids \in SUBSET (1..4)}

InputsFrom(sources) ==
  UNION {{[source |-> s, predicate |-> p] : p \in Filtered(s)} : s \in sources}

ForestInputs == InputsFrom(Shuffled)
AllInputs == InputsFrom(Shuffled \cup Tangled)

=============================================================================
