--------------------------- MODULE SequenceLemmas ---------------------------
(***************************************************************************)
(* Induction over numbers and sequences, what the folds of the community   *)
(* modules return, and what they make of the algebra of dumps.             *)
(*                                                                         *)
(* The principles of induction of the library are about an operator, which *)
(* no prover here can instantiate.  Those below are about a set: to show   *)
(* that all sequences over W are so and so, take the set of those that     *)
(* are.  In the same way Folded is the fold of a function, and a fold of   *)
(* an operator is shown to be one, for each operator, by SetFoldingExists  *)
(* and SetFoldingIsFolded.                                                 *)
(***************************************************************************)
EXTENDS GoroutineDump, SequenceTheorems, WellFoundedInduction, TLAPS

(* A set of natural numbers that is not empty has a least element.         *)
LEMMA LeastOf ==
  ASSUME NEW T, T \subseteq Nat, T # {}
  PROVE  \E m \in T : \A n \in T : m <= n
<1> DEFINE R == {ss \in Nat \X Nat : ss[1] < ss[2]}
<1>1. IsWellFoundedOn(R, Nat)
  BY NatLessThanWellFounded DEF OpToRel
<1>2. PICK m \in T : \A y \in T : ~(<<y, m>> \in R)
  <2> HIDE DEF R
  <2> QED BY <1>1, WFMin
<1>3. \A y \in T : m <= y
  <2> TAKE y \in T
  <2>1. y \in Nat /\ m \in Nat /\ <<y, m>> \notin R
    BY <1>2
  <2> QED BY <2>1
<1> QED BY <1>3

(* Induction over the natural numbers.                                     *)
LEMMA SetInduction ==
  ASSUME NEW S, 0 \in S, \A n \in Nat : n \in S => n + 1 \in S
  PROVE  Nat \subseteq S
<1> DEFINE T == Nat \ S
<1> SUFFICES ASSUME T # {} PROVE FALSE
  OBVIOUS
<1>1. PICK m \in T : \A n \in T : m <= n
  BY LeastOf
<1>2. m # 0 /\ m - 1 \in Nat
  OBVIOUS
<1>3. m - 1 \in S
  BY <1>1, <1>2
<1> QED BY <1>2, <1>3

(* Induction over sequences, by appending.                                 *)
LEMMA SeqInduction ==
  ASSUME NEW W, NEW P, <<>> \in P,
         \A s \in Seq(W) : \A e \in W : s \in P => Append(s, e) \in P
  PROVE  Seq(W) \subseteq P
<1> DEFINE S == {n \in Nat : \A s \in Seq(W) : Len(s) = n => s \in P}
<1>1. 0 \in S
  OBVIOUS
<1>2. ASSUME NEW n \in Nat, n \in S PROVE n + 1 \in S
  <2> SUFFICES ASSUME NEW s \in Seq(W), Len(s) = n + 1 PROVE s \in P
    OBVIOUS
  <2> DEFINE front == SubSeq(s, 1, n)
  <2>1. front \in Seq(W) /\ Len(front) = n
    OBVIOUS
  <2>2. s = Append(front, s[n + 1]) /\ s[n + 1] \in W
    OBVIOUS
  <2>3. front \in P
    BY <1>2, <2>1
  <2> HIDE DEF front
  <2> QED BY <2>1, <2>2, <2>3
<1> HIDE DEF S
<1>3. Nat \subseteq S
  BY <1>1, <1>2, SetInduction
<1> QED BY <1>3 DEF S

(* A sequence, over whatever set.                                          *)
IsList(s) == \E T : s \in Seq(T)

(* A sequence over some set is a list.                                     *)
LEMMA SeqIsList ==
  ASSUME NEW T, NEW s \in Seq(T)
  PROVE  IsList(s)
BY DEF IsList

(* What is a list stays one.                                               *)
LEMMA ListsMade ==
  /\ IsList(<<>>)
  /\ \A e : IsList(<<e>>)
  /\ \A s, t : IsList(s) /\ IsList(t) => IsList(s \o t)
  /\ \A s, e : IsList(s) => IsList(Append(s, e))
<1>1. IsList(<<>>)
  <2>1. <<>> \in Seq({})
    OBVIOUS
  <2> QED BY <2>1, SeqIsList
<1>2. ASSUME NEW e PROVE IsList(<<e>>)
  <2>1. <<e>> \in Seq({e})
    OBVIOUS
  <2> QED BY <2>1, SeqIsList
<1>3. ASSUME NEW s, NEW t, IsList(s), IsList(t) PROVE IsList(s \o t)
  <2>1. PICK S : s \in Seq(S)
    BY <1>3 DEF IsList
  <2>2. PICK T : t \in Seq(T)
    BY <1>3 DEF IsList
  <2>3. s \in Seq(S \cup T) /\ t \in Seq(S \cup T)
    BY <2>1, <2>2
  <2>4. s \o t \in Seq(S \cup T)
    BY <2>3
  <2> QED BY <2>4, SeqIsList
<1>4. ASSUME NEW s, NEW e, IsList(s) PROVE IsList(Append(s, e))
  <2>1. PICK S : s \in Seq(S)
    BY <1>4 DEF IsList
  <2>2. Append(s, e) \in Seq(S \cup {e})
    BY <2>1
  <2> QED BY <2>2, SeqIsList
<1> QED BY <1>1, <1>2, <1>3, <1>4

(* Equations of concatenation, as predicates that a step can be given      *)
(* before they are written out: an SMT solver is slow to find the          *)
(* instance of an equation, and fast to find that of a predicate.          *)
Associates(s, t, u) == (s \o t) \o u = s \o (t \o u)
(* (s (t u)) v and (s t) (u v) are one sequence; so are s t with e at its  *)
(* end and s followed by t with e at its end.                              *)
Regroups(s, t, u, v) == s \o ((t \o u) \o v) = ((s \o t) \o u) \o v
Extends(s, t, e) == Append(s \o t, e) = s \o Append(t, e)

(* Concatenation is associative, and appending is concatenating.           *)
LEMMA ConcatLists ==
  ASSUME NEW s, NEW t, NEW u, IsList(s), IsList(t), IsList(u)
  PROVE  Associates(s, t, u)
<1>1. PICK S : s \in Seq(S)
  BY DEF IsList
<1>2. PICK T : t \in Seq(T)
  BY DEF IsList
<1>3. PICK U : u \in Seq(U)
  BY DEF IsList
<1> DEFINE V == S \cup T \cup U
<1>4. s \in Seq(V) /\ t \in Seq(V) /\ u \in Seq(V)
  BY <1>1, <1>2, <1>3
<1> HIDE DEF V
<1> QED BY <1>4, ConcatAssociative DEF Associates

(* The parentheses of a concatenation do not matter.                       *)
LEMMA ConcatFour ==
  ASSUME NEW s, NEW t, NEW u, NEW v,
         IsList(s), IsList(t), IsList(u), IsList(v)
  PROVE  Regroups(s, t, u, v)
<1>1. IsList(t \o u)
  BY ListsMade
<1>2. Associates(s, t, u) /\ Associates(s, t \o u, v)
  BY <1>1, ConcatLists, Zenon
<1> QED BY <1>2 DEF Regroups, Associates

(* Appending to a concatenation appends to its last part.                  *)
LEMMA AppendToConcat ==
  ASSUME NEW s, NEW t, NEW e, IsList(s), IsList(t)
  PROVE  Extends(s, t, e)
<1>1. PICK S : s \in Seq(S)
  BY DEF IsList
<1>2. PICK T : t \in Seq(T)
  BY DEF IsList
<1> QED BY <1>1, <1>2 DEF Extends

(* Appending is concatenation with one element.                            *)
LEMMA ConcatOne ==
  ASSUME NEW s, NEW e, IsList(s)
  PROVE  s \o <<e>> = Append(s, e)
BY DEF IsList

(* The empty sequence adds nothing.                                        *)
LEMMA ConcatEmpty ==
  ASSUME NEW s, IsList(s)
  PROVE  s \o <<>> = s /\ <<>> \o s = s
BY DEF IsList

(* What becomes of a sequence over S when elements of T are added to it.   *)
LEMMA AppendedTo ==
  ASSUME NEW S, NEW s \in Seq(S), NEW T, S \subseteq T, NEW v \in T
  PROVE  /\ Append(s, v) \in Seq(T)
         /\ Len(Append(s, v)) = Len(s) + 1
         /\ \A i \in 1..Len(s) : Append(s, v)[i] = s[i]
         /\ Append(s, v)[Len(s) + 1] = v
OBVIOUS

(* The same for three elements at a time.                                  *)
LEMMA JoinedTo ==
  ASSUME NEW S, NEW s \in Seq(S), NEW T, S \subseteq T,
         NEW v1 \in T, NEW v2 \in T, NEW v3 \in T
  PROVE  /\ s \o <<v1, v2, v3>> \in Seq(T)
         /\ Len(s \o <<v1, v2, v3>>) = Len(s) + 3
         /\ \A i \in 1..Len(s) : (s \o <<v1, v2, v3>>)[i] = s[i]
<1>1. s \in Seq(T) /\ <<v1, v2, v3>> \in Seq(T) /\ Len(<<v1, v2, v3>>) = 3
  OBVIOUS
<1> DEFINE t == <<v1, v2, v3>>
<1> HIDE DEF t
<1>2. s \in Seq(T) /\ t \in Seq(T) /\ Len(t) = 3
  BY <1>1 DEF t
<1>3. /\ s \o t \in Seq(T) /\ Len(s \o t) = Len(s) + Len(t)
      /\ \A i \in 1..Len(s) + Len(t) :
           (s \o t)[i] = IF i <= Len(s) THEN s[i] ELSE t[i - Len(s)]
  BY <1>2, ConcatProperties
<1> QED BY <1>2, <1>3 DEF t

(* The same when one takes the place of another.                           *)
LEMMA ReplacedIn ==
  ASSUME NEW S, NEW s \in Seq(S), NEW T, S \subseteq T,
         NEW n \in 1..Len(s), NEW v \in T
  PROVE  /\ [s EXCEPT ![n] = v] \in Seq(T)
         /\ Len([s EXCEPT ![n] = v]) = Len(s)
         /\ \A i \in 1..Len(s) : [s EXCEPT ![n] = v][i] = IF i = n THEN v ELSE s[i]
OBVIOUS

(* What a sequence has at a place.                                         *)
LEMMA ElementOf ==
  ASSUME NEW S, NEW s \in Seq(S), NEW i \in 1..Len(s)
  PROVE  s[i] \in S
OBVIOUS

(* A sequence cut off after n elements.                                    *)
LEMMA PrefixOf ==
  ASSUME NEW S, NEW s \in Seq(S), NEW n \in Int, n <= Len(s)
  PROVE  SubSeq(s, 1, n) \in Seq(S) /\ (n >= 0 => Len(SubSeq(s, 1, n)) = n)
OBVIOUS

(* What was appended last.                                                 *)
LEMMA LastOf ==
  ASSUME NEW W, NEW s \in Seq(W), NEW e \in W
  PROVE  /\ Len(Append(s, e)) = Len(s) + 1
         /\ SubSeq(Append(s, e), Len(s) + 1, Len(s) + 1) = <<e>>
<1> DEFINE t == Append(s, e)
           m == Len(s) + 1
<1>1. t \in Seq(W) /\ Len(t) = m /\ t[m] = e /\ m \in Nat /\ 1 <= m
  OBVIOUS
<1> HIDE DEF t, m
<1>2. SubSeq(t, m, m) = [i \in 1..(m - m + 1) |-> t[m + i - 1]]
  BY <1>1, SubSeqProperties
<1>3. m - m + 1 = 1 /\ \A i \in 1..1 : m + i - 1 = m
  BY <1>1
<1>4. SubSeq(t, m, m) = [i \in 1..1 |-> e]
  BY <1>1, <1>2, <1>3
<1>5. [i \in 1..1 |-> e] = <<e>>
  OBVIOUS
<1> QED BY <1>1, <1>4, <1>5 DEF t, m

(* The end of a sequence, from its m-th element on; and what it becomes    *)
(* when an element is appended.                                            *)
LEMMA EndOf ==
  ASSUME NEW W, NEW s \in Seq(W), NEW m \in Nat \ {0}, m <= Len(s) + 1
  PROVE  /\ SubSeq(s, m, Len(s)) \in Seq(W)
         /\ Len(SubSeq(s, m, Len(s))) = Len(s) + 1 - m
         /\ \A g \in W : SubSeq(Append(s, g), m, Len(s) + 1) = Append(SubSeq(s, m, Len(s)), g)
<1> DEFINE n == Len(s)
           t == SubSeq(s, m, n)
<1>1. n \in Nat /\ \A i \in m..n : s[i] \in W
  OBVIOUS
<1> HIDE DEF n
<1>2. /\ t \in Seq(W)
      /\ Len(t) = (IF m <= n THEN n - m + 1 ELSE 0)
      /\ \A i \in 1..n - m + 1 : t[i] = s[m + i - 1]
  BY <1>1, SubSeqProperties
<1>3. (IF m <= n THEN n - m + 1 ELSE 0) = n + 1 - m
  BY <1>1 DEF n
<1>4. Len(t) = n + 1 - m
  BY <1>2, <1>3
<1>5. ASSUME NEW g \in W PROVE SubSeq(Append(s, g), m, n + 1) = Append(t, g)
  <2> DEFINE u == Append(s, g)
             v == SubSeq(u, m, n + 1)
             w == Append(t, g)
  <2>1. /\ u \in Seq(W) /\ Len(u) = n + 1 /\ u[n + 1] = g
        /\ \A i \in 1..n : u[i] = s[i]
    BY DEF n
  <2>2. n + 1 \in Int /\ m \in Int /\ m <= n + 1 /\ \A i \in m..(n + 1) : u[i] \in W
    BY <1>1, <2>1 DEF n
  <2> HIDE DEF u
  <2>3. v \in Seq(W) /\ Len(v) = (IF m <= n + 1 THEN (n + 1) - m + 1 ELSE 0)
        /\ \A i \in 1..(n + 1) - m + 1 : v[i] = u[m + i - 1]
    BY <2>2, SubSeqProperties
  <2> HIDE DEF t, v
  <2>4. w \in Seq(W) /\ Len(w) = Len(t) + 1 /\ w[Len(t) + 1] = g
        /\ \A i \in 1..Len(t) : w[i] = t[i]
    BY <1>2
  <2> HIDE DEF w
  <2>5. Len(v) = n + 2 - m /\ Len(w) = n + 2 - m
    BY <1>1, <1>4, <2>2, <2>3, <2>4
  <2>6. ASSUME NEW i \in 1..Len(v) PROVE v[i] = w[i]
    <3>1. CASE i = n + 2 - m
      <4>1. m + i - 1 = n + 1 /\ i \in 1..(n + 1) - m + 1 /\ i = Len(t) + 1
        BY <1>1, <1>4, <2>5, <3>1
      <4> QED BY <2>1, <2>3, <2>4, <4>1
    <3>2. CASE i # n + 2 - m
      <4>1. m + i - 1 \in 1..n /\ i \in 1..(n + 1) - m + 1 /\ i \in 1..Len(t) /\ i \in 1..n - m + 1
        BY <1>1, <1>4, <2>5, <3>2
      <4> QED BY <1>2, <2>1, <2>3, <2>4, <4>1
    <3> QED BY <3>1, <3>2
  <2> QED BY <2>3, <2>4, <2>5, <2>6, SeqEqual DEF u, v, w, t
<1> QED BY <1>2, <1>4, <1>5 DEF n

-----------------------------------------------------------------------------
(* The values h that a fold of s takes on its way: G, a function of pairs, *)
(* is applied to the value so far and to the next element.                 *)
IsFolding(h, G, base, s) ==
  /\ h = [k \in 0..Len(s) |-> h[k]]
  /\ h[0] = base
  /\ \A k \in Nat : k < Len(s) => h[k + 1] = G[<<h[k], s[k + 1]>>]

(* The values of a fold, and the last of them.                             *)
Folding(G, base, s) == CHOOSE h : IsFolding(h, G, base, s)
Folded(G, base, s) == Folding(G, base, s)[Len(s)]

(* Foldings agree as far as the sequences do.                              *)
LEMMA FoldingUnique ==
  ASSUME NEW G, NEW base, NEW W, NEW s \in Seq(W), NEW t \in Seq(W), Len(s) <= Len(t),
         \A k \in 1..Len(s) : s[k] = t[k],
         NEW g, NEW h, IsFolding(g, G, base, s), IsFolding(h, G, base, t)
  PROVE  \A k \in 0..Len(s) : g[k] = h[k]
<1> DEFINE S == {k \in Nat : k <= Len(s) => g[k] = h[k]}
<1>1. 0 \in S
  BY DEF IsFolding
<1>2. ASSUME NEW n \in Nat, n \in S PROVE n + 1 \in S
  <2> SUFFICES ASSUME n + 1 <= Len(s) PROVE g[n + 1] = h[n + 1]
    OBVIOUS
  <2>1. n < Len(s) /\ n < Len(t)
    OBVIOUS
  <2>2. g[n] = h[n] /\ s[n + 1] = t[n + 1]
    BY <1>2, <2>1
  <2>3. g[n + 1] = G[<<g[n], s[n + 1]>>] /\ h[n + 1] = G[<<h[n], t[n + 1]>>]
    BY <2>1 DEF IsFolding
  <2> QED BY <2>2, <2>3
<1> HIDE DEF S
<1>3. Nat \subseteq S
  BY <1>1, <1>2, SetInduction
<1> QED BY <1>3 DEF S

(* Every sequence has a folding, by induction over it.                     *)
LEMMA FoldingExists ==
  ASSUME NEW V, NEW W, NEW base \in V, NEW G \in [V \X W -> V], NEW s \in Seq(W)
  PROVE  \E h : IsFolding(h, G, base, s) /\ h \in [0..Len(s) -> V]
<1> DEFINE P == {s0 \in Seq(W) :
                   \E h : IsFolding(h, G, base, s0) /\ h \in [0..Len(s0) -> V]}
<1>1. <<>> \in P
  <2> DEFINE h == [k \in 0..0 |-> base]
  <2>1. IsFolding(h, G, base, <<>>) /\ h \in [0..0 -> V]
    BY DEF IsFolding
  <2> QED BY <2>1
<1>2. ASSUME NEW s0 \in Seq(W), NEW e \in W, s0 \in P PROVE Append(s0, e) \in P
  <2>1. PICK h : IsFolding(h, G, base, s0) /\ h \in [0..Len(s0) -> V]
    BY <1>2
  <2> DEFINE t == Append(s0, e)
             g == [k \in 0..(Len(s0) + 1) |->
                     IF k = Len(s0) + 1 THEN G[<<h[Len(s0)], e>>] ELSE h[k]]
  <2>2. /\ t \in Seq(W) /\ Len(t) = Len(s0) + 1 /\ t[Len(s0) + 1] = e
        /\ \A k \in 1..Len(s0) : t[k] = s0[k]
        /\ Len(s0) \in Nat
    OBVIOUS
  <2> HIDE DEF t
  <2>3. G[<<h[Len(s0)], e>>] \in V
    BY <2>1, <2>2
  <2>4. /\ g \in [0..Len(t) -> V]
        /\ g[Len(t)] = G[<<h[Len(s0)], e>>]
        /\ \A k \in 0..Len(s0) : g[k] = h[k]
    BY <2>1, <2>2, <2>3
  <2> HIDE DEF g
  <2>5. ASSUME NEW k \in Nat, k < Len(t) PROVE g[k + 1] = G[<<g[k], t[k + 1]>>]
    <3>1. CASE k = Len(s0)
      <4>1. k + 1 = Len(t) /\ t[k + 1] = e /\ k \in 0..Len(s0)
        BY <2>2, <3>1
      <4> QED BY <2>4, <3>1, <4>1
    <3>2. CASE k # Len(s0)
      <4>1. k < Len(s0) /\ k \in 0..Len(s0) /\ k + 1 \in 0..Len(s0)
            /\ k + 1 \in 1..Len(s0)
        BY <2>2, <2>5, <3>2
      <4>2. h[k + 1] = G[<<h[k], s0[k + 1]>>]
        BY <2>1, <4>1 DEF IsFolding
      <4> QED BY <2>2, <2>4, <4>1, <4>2
    <3> QED BY <3>1, <3>2
  <2>6. g[0] = base
    BY <2>1, <2>2, <2>4 DEF IsFolding
  <2>7. IsFolding(g, G, base, t)
    BY <2>4, <2>5, <2>6 DEF IsFolding
  <2> QED BY <2>2, <2>4, <2>7 DEF t
<1> HIDE DEF P
<1>3. Seq(W) \subseteq P
  BY <1>1, <1>2, SeqInduction
<1> QED BY <1>3 DEF P

(* G makes values in V of values in V and elements in W.                   *)
Steps(G, base, V, W) == base \in V /\ G \in [V \X W -> V]

(* What a fold is of the empty sequence, and of one that is longer by an   *)
(* element.                                                                *)
LEMMA FoldedProperties ==
  ASSUME NEW G, NEW base, NEW V, NEW W, Steps(G, base, V, W)
  PROVE  /\ Folded(G, base, <<>>) = base
         /\ \A s \in Seq(W) : 
              /\ Folded(G, base, s) \in V
              /\ \A e \in W :
                   Folded(G, base, Append(s, e)) = G[<<Folded(G, base, s), e>>]
<1> base \in V /\ G \in [V \X W -> V]
  BY DEF Steps
<1>0. <<>> \in Seq(W)
  OBVIOUS
<1>1. ASSUME NEW s \in Seq(W)
      PROVE  /\ IsFolding(Folding(G, base, s), G, base, s)
             /\ Folding(G, base, s) \in [0..Len(s) -> V]
  <2> DEFINE g == Folding(G, base, s)
  <2>1. PICK h : IsFolding(h, G, base, s) /\ h \in [0..Len(s) -> V]
    BY FoldingExists
  <2>2. IsFolding(g, G, base, s)
    BY <2>1 DEF Folding
  <2> HIDE DEF g
  <2>3. \A k \in 0..Len(s) : g[k] = h[k]
    BY <2>1, <2>2, FoldingUnique
  <2>4. g = [k \in 0..Len(s) |-> g[k]]
    BY <2>2 DEF IsFolding
  <2>5. g \in [0..Len(s) -> V]
    BY <2>1, <2>3, <2>4
  <2> QED BY <2>2, <2>5 DEF g
<1>2. \A s : Folded(G, base, s) = Folding(G, base, s)[Len(s)]
  BY DEF Folded
<1>3. Folded(G, base, <<>>) = base
  <2>1. IsFolding(Folding(G, base, <<>>), G, base, <<>>)
    BY <1>0, <1>1
  <2>2. Folding(G, base, <<>>)[0] = base
    BY <2>1 DEF IsFolding
  <2> QED BY <1>2, <2>2
<1>4. ASSUME NEW s \in Seq(W) PROVE Folded(G, base, s) \in V
  BY <1>1, <1>2
<1>5. ASSUME NEW s \in Seq(W), NEW e \in W
      PROVE Folded(G, base, Append(s, e)) = G[<<Folded(G, base, s), e>>]
  <2> DEFINE t == Append(s, e)
             g == Folding(G, base, s)
             h == Folding(G, base, t)
  <2>1. /\ t \in Seq(W) /\ Len(t) = Len(s) + 1 /\ t[Len(s) + 1] = e
        /\ \A k \in 1..Len(s) : t[k] = s[k]
        /\ Len(s) \in Nat
    OBVIOUS
  <2>a. Folded(G, base, t) = h[Len(t)] /\ Folded(G, base, s) = g[Len(s)]
    BY <1>2
  <2> HIDE DEF t
  <2>b. IsFolding(g, G, base, s) /\ IsFolding(h, G, base, t)
    BY <1>1, <2>1
  <2> HIDE DEF g, h
  <2>2. g[Len(s)] = h[Len(s)]
    <3>1. Len(s) <= Len(t) /\ Len(s) \in 0..Len(s)
      BY <2>1
    <3> QED BY <2>1, <2>b, <3>1, FoldingUnique
  <2>3. h[Len(t)] = G[<<h[Len(s)], e>>]
    <3>1. Len(s) < Len(t)
      BY <2>1
    <3> QED BY <2>1, <2>b, <3>1 DEF IsFolding
  <2>4. Folded(G, base, t) = G[<<Folded(G, base, s), e>>]
    BY <2>1, <2>a, <2>2, <2>3
  <2> QED BY <2>4 DEF t
<1> QED BY <1>3, <1>4, <1>5
-----------------------------------------------------------------------------
(* FoldLeft is defined by recursion over the sets of places of the         *)
(* sequence.                                                               *)
IsSetFolding(f, G, base, s) ==
  f = [T \in SUBSET DOMAIN s |->
         IF T = {} THEN base ELSE G[<<f[T \ {Max(T)}], s[Max(T)]>>]]

(* A set of places of a sequence that is not empty has a last one.         *)
LEMMA LargestOf ==
  ASSUME NEW n \in Nat, NEW T \in SUBSET (1..n), T # {}
  PROVE  Max(T) \in T /\ \A k \in T : k <= Max(T)
<1> DEFINE U == {m \in Nat : \A k \in T : k <= m}
<1>1. n \in U
  OBVIOUS
<1>2. PICK m \in U : \A u \in U : m <= u
  <2>1. U \subseteq Nat /\ U # {}
    BY <1>1
  <2> HIDE DEF U
  <2> QED BY <2>1, LeastOf
<1>3. m \in T
  <2> SUFFICES ASSUME m \notin T PROVE FALSE
    OBVIOUS
  <2>0. \A j \in T : j \in Nat /\ j >= 1
    OBVIOUS
  <2>1. PICK k \in T : k \in Nat /\ k >= 1
    BY <2>0
  <2>2. \A j \in T : j \in Nat /\ j <= m /\ j # m
    BY <1>2, <2>0
  <2>3. m - 1 \in Nat /\ \A j \in T : j <= m - 1
    BY <1>2, <2>1, <2>2
  <2>4. m - 1 \in U
    BY <2>3
  <2> QED BY <1>2, <2>4
<1>4. \A k \in T : m >= k
  BY <1>2
<1> QED BY <1>2, <1>3, <1>4 DEF Max

(* The last of some places of a sequence is a place, with an element.      *)
LEMMA LastPlace ==
  ASSUME NEW W, NEW s \in Seq(W), NEW T \in SUBSET DOMAIN s, T # {}
  PROVE  Max(T) \in DOMAIN s /\ s[Max(T)] \in W
<1>1. Len(s) \in Nat /\ DOMAIN s = 1..Len(s)
  OBVIOUS
<1>2. Max(T) \in T
  BY <1>1, LargestOf
<1> QED BY <1>1, <1>2

(* Every sequence has a folding over its sets of places, by induction over *)
(* it.                                                                     *)
LEMMA SetFoldingExists ==
  ASSUME NEW G, NEW base, NEW V, NEW W, Steps(G, base, V, W), NEW s \in Seq(W)
  PROVE  \E f \in [SUBSET DOMAIN s -> V] : IsSetFolding(f, G, base, s)
<1> base \in V /\ G \in [V \X W -> V]
  BY DEF Steps
<1> DEFINE P == {s0 \in Seq(W) :
                   \E f \in [SUBSET DOMAIN s0 -> V] : IsSetFolding(f, G, base, s0)}
<1>1. <<>> \in P
  <2> DEFINE f == [T \in SUBSET DOMAIN <<>> |-> base]
  <2>1. f \in [SUBSET DOMAIN <<>> -> V] /\ <<>> \in Seq(W)
    OBVIOUS
  <2>2. \A T \in SUBSET DOMAIN <<>> : T = {}
    OBVIOUS
  <2>3. IsSetFolding(f, G, base, <<>>)
    BY <2>2 DEF IsSetFolding
  <2> HIDE DEF f
  <2> QED BY <2>1, <2>3
<1>2. ASSUME NEW s0 \in Seq(W), NEW e \in W, s0 \in P PROVE Append(s0, e) \in P
  <2>1. PICK f \in [SUBSET DOMAIN s0 -> V] : IsSetFolding(f, G, base, s0)
    BY <1>2
  <2> DEFINE t == Append(s0, e)
             n == Len(s0)
             g == [T \in SUBSET (1..(n + 1)) |->
                     IF n + 1 \in T THEN G[<<f[T \ {n + 1}], e>>] ELSE f[T]]
  <2>2. /\ t \in Seq(W) /\ DOMAIN t = 1..(n + 1) /\ t[n + 1] = e
        /\ \A k \in 1..n : t[k] = s0[k]
        /\ n \in Nat /\ DOMAIN s0 = 1..n
    OBVIOUS
  <2> HIDE DEF t, n
  <2>3. \A T \in SUBSET (1..(n + 1)) :
          IF n + 1 \in T THEN T \ {n + 1} \in SUBSET (1..n) ELSE T \in SUBSET (1..n)
    BY <2>2
  <2>4. g \in [SUBSET (1..(n + 1)) -> V]
    BY <2>1, <2>2, <2>3
  <2>5. ASSUME NEW T \in SUBSET (1..(n + 1))
        PROVE  g[T] = IF T = {} THEN base ELSE G[<<g[T \ {Max(T)}], t[Max(T)]>>]
    <3>0. /\ g[T] = IF n + 1 \in T THEN G[<<f[T \ {n + 1}], e>>] ELSE f[T]
          /\ \A U \in SUBSET (1..n) : g[U] = f[U]
      BY <2>2
    <3> HIDE DEF g
    <3>1. CASE n + 1 \in T
      <4>1. Max(T) = n + 1
        <5>1. n + 1 \in Nat
          BY <2>2
        <5>2. Max(T) \in T /\ \A k \in T : k <= Max(T)
          BY <3>1, <5>1, LargestOf
        <5>3. Max(T) \in 1..(n + 1) /\ n + 1 <= Max(T)
          BY <3>1, <5>2
        <5> QED BY <2>2, <5>3
      <4>2. g[T \ {n + 1}] = f[T \ {n + 1}]
        BY <2>3, <3>0, <3>1
      <4> QED BY <2>2, <3>0, <3>1, <4>1, <4>2
    <3>2. CASE n + 1 \notin T
      <4>1. T \in SUBSET (1..n)
        BY <2>3, <3>2
      <4>2. f[T] = IF T = {} THEN base ELSE G[<<f[T \ {Max(T)}], s0[Max(T)]>>]
        BY <2>1, <2>2, <4>1 DEF IsSetFolding
      <4>3. ASSUME T # {} PROVE Max(T) \in 1..n
        BY <2>2, <4>1, <4>3, LargestOf
      <4>4. T \ {Max(T)} \in SUBSET (1..n)
        BY <4>1
      <4>5. T # {} => t[Max(T)] = s0[Max(T)]
        BY <2>2, <4>3
      <4> QED BY <3>0, <3>2, <4>1, <4>2, <4>4, <4>5
    <3> QED BY <3>1, <3>2
  <2>6. g = [T \in SUBSET (1..(n + 1)) |-> g[T]]
    OBVIOUS
  <2> HIDE DEF g
  <2>7. IsSetFolding(g, G, base, t)
    BY <2>2, <2>5, <2>6 DEF IsSetFolding
  <2> QED BY <2>2, <2>4, <2>7 DEF t
<1> HIDE DEF P
<1>3. Seq(W) \subseteq P
  BY <1>1, <1>2, SeqInduction
<1> QED BY <1>3 DEF P

(* f starts with base, and applies G as long as it stays in V.             *)
FoldsWithin(f, V, W, G, base, s) ==
  /\ Steps(G, base, V, W) /\ s \in Seq(W)
  /\ f[{}] = base
  /\ \A T \in SUBSET DOMAIN s :
       T # {} /\ f[T \ {Max(T)}] \in V => f[T] = G[<<f[T \ {Max(T)}], s[Max(T)]>>]

(* At the set of all places, such a function has the fold of the sequence. *)
LEMMA SetFoldingIsFolded ==
  ASSUME NEW f, NEW V, NEW W, NEW G, NEW base, NEW s,
         FoldsWithin(f, V, W, G, base, s)
  PROVE  f[DOMAIN s] = Folded(G, base, s)
<1> base \in V /\ G \in [V \X W -> V] /\ s \in Seq(W)
  BY DEF FoldsWithin, Steps
<1>0. Len(s) \in Nat /\ DOMAIN s = 1..Len(s)
  OBVIOUS
<1>1. PICK h : IsFolding(h, G, base, s) /\ h \in [0..Len(s) -> V]
  BY FoldingExists
<1> DEFINE S == {k \in Nat : k <= Len(s) => f[1..k] = h[k]}
<1>2. 0 \in S
  <2>1. 1..0 = {}
    OBVIOUS
  <2> QED BY <1>1, <2>1 DEF IsFolding, FoldsWithin
<1>3. ASSUME NEW k \in Nat, k \in S PROVE k + 1 \in S
  <2> SUFFICES ASSUME k + 1 <= Len(s) PROVE f[1..(k + 1)] = h[k + 1]
    OBVIOUS
  <2>1. Max(1..(k + 1)) = k + 1
    <3>1. k + 1 \in Nat /\ k + 1 \in 1..(k + 1)
      OBVIOUS
    <3>a. 1..(k + 1) # {} /\ 1..(k + 1) \in SUBSET (1..(k + 1))
      BY <3>1
    <3>2. Max(1..(k + 1)) \in 1..(k + 1) /\ \A j \in 1..(k + 1) : j <= Max(1..(k + 1))
      BY <3>1, <3>a, LargestOf
    <3>3. k + 1 <= Max(1..(k + 1)) /\ Max(1..(k + 1)) \in 1..(k + 1)
      BY <3>1, <3>2
    <3> QED BY <3>3
  <2>2. (1..(k + 1)) \ {k + 1} = 1..k
    OBVIOUS
  <2>3. f[1..k] = h[k] /\ h[k] \in V
    BY <1>0, <1>1, <1>3
  <2>4. 1..(k + 1) \in SUBSET DOMAIN s /\ 1..(k + 1) # {}
    <3>1. k + 1 \in 1..(k + 1) /\ \A j \in 1..(k + 1) : j \in 1..Len(s)
      BY <1>0
    <3> QED BY <1>0, <3>1
  <2>5. f[1..(k + 1)] = G[<<f[1..k], s[k + 1]>>]
    BY <2>1, <2>2, <2>3, <2>4 DEF FoldsWithin
  <2>6. h[k + 1] = G[<<h[k], s[k + 1]>>]
    <3>1. k < Len(s)
      BY <1>0
    <3> QED BY <1>1, <3>1 DEF IsFolding
  <2> QED BY <2>3, <2>5, <2>6
<1> HIDE DEF S
<1>4. Nat \subseteq S
  BY <1>2, <1>3, SetInduction
<1>5. f[1..Len(s)] = h[Len(s)]
  BY <1>0, <1>4 DEF S
<1>6. h[Len(s)] = Folded(G, base, s)
  <2>1. IsFolding(Folding(G, base, s), G, base, s)
    BY <1>1 DEF Folding
  <2>2. Len(s) <= Len(s) /\ Len(s) \in 0..Len(s)
    BY <1>0
  <2> HIDE <1>5
  <2>3. Folding(G, base, s)[Len(s)] = h[Len(s)]
    BY <1>1, <2>1, <2>2, FoldingUnique
  <2> QED BY <2>3 DEF Folded
<1> QED BY <1>0, <1>5, <1>6

(* Its value there is of the kind that G makes.                            *)
LEMMA FoldStays ==
  ASSUME NEW f, NEW V, NEW W, NEW G, NEW base, NEW s,
         FoldsWithin(f, V, W, G, base, s)
  PROVE  f[DOMAIN s] \in V
<1>1. Steps(G, base, V, W) /\ s \in Seq(W)
  BY DEF FoldsWithin
<1> QED BY <1>1, SetFoldingIsFolded, FoldedProperties

-----------------------------------------------------------------------------
(* FlattenSeq, which is defined by recursion over the places.              *)
LEMMA FlattenIsFolded ==
  ASSUME NEW T, NEW ss \in Seq(Seq(T))
  PROVE  FlattenSeq(ss) =
           Folded([p \in Seq(T) \X Seq(T) |-> p[1] \o p[2]], <<>>, ss)
<1> DEFINE V == Seq(T)
           G == [p \in V \X V |-> p[1] \o p[2]]
           n == Len(ss)
           IsFlatten(f) ==
             f = [i \in 1..n |-> IF i = 1 THEN ss[i] ELSE f[i - 1] \o ss[i]]
           flatten == CHOOSE f : IsFlatten(f)
<1>1. G \in [V \X V -> V] /\ <<>> \in V /\ ss \in Seq(V) /\ n \in Nat
  OBVIOUS
<1>2. \A v, w \in V : G[<<v, w>>] = v \o w
  OBVIOUS
<1>3. \A w \in V : <<>> \o w = w
  OBVIOUS
<1>4. \A i \in 1..n : ss[i] \in V
  OBVIOUS
<1>5. CASE ss = <<>>
  <2>1. FlattenSeq(ss) = <<>>
    BY <1>5 DEF FlattenSeq
  <2>2. Steps(G, <<>>, V, V)
    BY <1>1 DEF Steps
  <2> HIDE DEF G, V
  <2>3. Folded(G, <<>>, <<>>) = <<>>
    BY <2>2, FoldedProperties
  <2> QED BY <1>5, <2>1, <2>3 DEF G, V
<1>6. CASE ss # <<>>
  <2>1. FlattenSeq(ss) = flatten[n]
    BY <1>6 DEF FlattenSeq
  <2>2. n \in Nat \ {0}
    BY <1>6
  <2> DEFINE h == Folding(G, <<>>, ss)
  <2> HIDE DEF G, V, n
  <2>3. PICK g : IsFolding(g, G, <<>>, ss) /\ g \in [0..n -> V]
    BY <1>1, FoldingExists DEF n
  <2>4. IsFolding(h, G, <<>>, ss)
    BY <2>3 DEF Folding
  <2> HIDE DEF h
  <2>5. \A k \in Nat : k < n => h[k + 1] = G[<<h[k], ss[k + 1]>>]
    BY <2>4 DEF IsFolding, n
  <2>6. \A k \in 0..n : h[k] \in V
    <3>1. \A k \in 0..n : h[k] = g[k]
      BY <1>1, <2>3, <2>4, FoldingUnique DEF n
    <3> QED BY <2>3, <3>1
  <2>7. h[0] = <<>>
    BY <2>4 DEF IsFolding
  <2>8. \A k \in 1..n : h[k] = IF k = 1 THEN ss[k] ELSE h[k - 1] \o ss[k]
    <3> TAKE k \in 1..n
    <3>1. k - 1 \in Nat /\ k - 1 < n /\ (k - 1) + 1 = k /\ k - 1 \in 0..n
      BY <1>1
    <3>2. h[k] = G[<<h[k - 1], ss[k]>>]
      BY <2>5, <3>1
    <3>3. h[k] = h[k - 1] \o ss[k]
      BY <1>2, <1>4, <2>6, <3>1, <3>2
    <3>4. CASE k = 1
      <4>1. h[k - 1] = <<>>
        BY <2>7, <3>4
      <4> QED BY <1>3, <1>4, <3>3, <3>4, <4>1
    <3> QED BY <3>3, <3>4
  <2>9. IsFlatten(flatten)
    <3> DEFINE f == [k \in 1..n |-> h[k]]
    <3>1. \A k \in 1..n : k # 1 => k - 1 \in 1..n
      BY <1>1
    <3>2. IsFlatten(f)
      BY <2>8, <3>1
    <3> HIDE DEF f
    <3> QED BY <3>2
  <2> HIDE DEF flatten
  <2> DEFINE S == {k \in Nat : k < n => flatten[k + 1] = h[k + 1]}
  <2>10. 0 \in S
    <3>1. 1 \in 1..n
      BY <2>2
    <3> QED BY <2>8, <2>9, <3>1
  <2>11. ASSUME NEW k \in Nat, k \in S PROVE k + 1 \in S
    <3> SUFFICES ASSUME k + 1 < n PROVE flatten[(k + 1) + 1] = h[(k + 1) + 1]
      OBVIOUS
    <3>1. /\ (k + 1) + 1 \in 1..n /\ (k + 1) + 1 # 1
          /\ ((k + 1) + 1) - 1 = k + 1 /\ k < n
      BY <2>2
    <3>2. flatten[k + 1] = h[k + 1]
      BY <2>11, <3>1
    <3>3. h[(k + 1) + 1] = h[k + 1] \o ss[(k + 1) + 1]
      BY <2>8, <3>1
    <3>4. flatten[(k + 1) + 1] = flatten[k + 1] \o ss[(k + 1) + 1]
      BY <2>9, <3>1
    <3> QED BY <3>2, <3>3, <3>4
  <2>12. Nat \subseteq S
    <3> HIDE DEF S
    <3> QED BY <2>10, <2>11, SetInduction
  <2>13. flatten[n] = h[n]
    <3>1. n - 1 \in S /\ n - 1 < n /\ (n - 1) + 1 = n
      BY <2>2, <2>12
    <3> QED BY <3>1
  <2>14. h[n] = Folded(G, <<>>, ss)
    BY DEF h, n, Folded
  <2> QED BY <2>1, <2>13, <2>14 DEF G, V
<1> QED BY <1>5, <1>6

(* FlattenSeq, one sequence at a time.                                     *)
LEMMA FlattenProperties ==
  ASSUME NEW T
  PROVE  /\ FlattenSeq(<<>>) = <<>>
         /\ \A ss \in Seq(Seq(T)) :
              /\ FlattenSeq(ss) \in Seq(T)
              /\ \A s \in Seq(T) : FlattenSeq(Append(ss, s)) = FlattenSeq(ss) \o s
<1> DEFINE V == Seq(T)
           G == [p \in V \X V |-> p[1] \o p[2]]
<1>1. G \in [V \X V -> V] /\ <<>> \in V /\ <<>> \in Seq(V)
  OBVIOUS
<1>2. \A v, w \in V : G[<<v, w>>] = v \o w
  OBVIOUS
<1>3. \A ss \in Seq(V) : FlattenSeq(ss) = Folded(G, <<>>, ss)
  BY FlattenIsFolded
<1>4. \A ss \in Seq(V), s \in V : Append(ss, s) \in Seq(V)
  OBVIOUS
<1>5. Steps(G, <<>>, V, V)
  BY <1>1 DEF Steps
<1> HIDE DEF G, V
<1>6. /\ Folded(G, <<>>, <<>>) = <<>>
      /\ \A ss \in Seq(V) :
           /\ Folded(G, <<>>, ss) \in V
           /\ \A s \in V : Folded(G, <<>>, Append(ss, s)) = G[<<Folded(G, <<>>, ss), s>>]
  BY <1>5, FoldedProperties
<1>7. /\ FlattenSeq(<<>>) = <<>>
      /\ \A ss \in Seq(V) : FlattenSeq(ss) \in V
  BY <1>1, <1>3, <1>6
<1>8. \A ss \in Seq(V), s \in V : FlattenSeq(Append(ss, s)) = FlattenSeq(ss) \o s
  BY <1>2, <1>3, <1>4, <1>6
<1> QED BY <1>7, <1>8 DEF V

(* The first of the sequences comes first.                                 *)
LEMMA FlattenFirst ==
  ASSUME NEW T, NEW s \in Seq(T), NEW ss \in Seq(Seq(T))
  PROVE  FlattenSeq(<<s>> \o ss) = s \o FlattenSeq(ss)
<1> DEFINE P == {rest \in Seq(Seq(T)) :
                   FlattenSeq(<<s>> \o rest) = s \o FlattenSeq(rest)}
<1>1. <<>> \in P
  <2>1. <<s>> \o <<>> = Append(<<>>, s) /\ <<>> \in Seq(Seq(T))
    OBVIOUS
  <2>2. FlattenSeq(Append(<<>>, s)) = <<>> \o s
    BY <2>1, FlattenProperties
  <2>3. <<>> \o s = s \o <<>>
    OBVIOUS
  <2> QED BY <2>1, <2>2, <2>3, FlattenProperties
<1>2. ASSUME NEW rest \in Seq(Seq(T)), NEW t \in Seq(T), rest \in P
      PROVE  Append(rest, t) \in P
  <2>1. /\ <<s>> \o Append(rest, t) = Append(<<s>> \o rest, t)
        /\ <<s>> \o rest \in Seq(Seq(T)) /\ Append(rest, t) \in Seq(Seq(T))
    OBVIOUS
  <2>2. /\ FlattenSeq(Append(<<s>> \o rest, t)) = FlattenSeq(<<s>> \o rest) \o t
        /\ FlattenSeq(Append(rest, t)) = FlattenSeq(rest) \o t
        /\ FlattenSeq(rest) \in Seq(T)
    BY <2>1, FlattenProperties
  <2>3. FlattenSeq(<<s>> \o rest) = s \o FlattenSeq(rest)
    BY <1>2
  <2>4. (s \o FlattenSeq(rest)) \o t = s \o (FlattenSeq(rest) \o t)
    <3> DEFINE f == FlattenSeq(rest)
    <3>1. f \in Seq(T)
      BY <2>2
    <3> HIDE DEF f
    <3> QED BY <3>1, ConcatAssociative DEF f
  <2> QED BY <2>1, <2>2, <2>3, <2>4
<1> HIDE DEF P
<1>3. Seq(Seq(T)) \subseteq P
  BY <1>1, <1>2, SeqInduction
<1> QED BY <1>3 DEF P

-----------------------------------------------------------------------------
(* The algebra of dumps (module GoroutineDump).  Its operators are folds:  *)
(* what each is of no goroutine, and of one goroutine more; and that what  *)
(* they return is made of the goroutines they are given.                   *)
LEMMA OnlyOf ==
  ASSUME NEW W, NEW S
  PROVE  /\ Only(<<>>, S) = <<>>
         /\ \A gs \in Seq(W) :
              /\ Only(gs, S) \in Seq(W)
              /\ \A g \in W :
                   Only(Append(gs, g), S) =
                     IF g \in S THEN Append(Only(gs, S), g) ELSE Only(gs, S)
<1> DEFINE V == Seq(W)
           step(v, g) == IF g \in S THEN Append(v, g) ELSE v
           G == [p \in V \X W |-> step(p[1], p[2])]
<1>1. \A v \in V, g \in W : G[<<v, g>>] = step(v, g)
  OBVIOUS
<1>2. Steps(G, <<>>, V, W)
  BY DEF Steps
<1> HIDE DEF G
<1>3. ASSUME NEW gs \in Seq(W) PROVE Only(gs, S) = Folded(G, <<>>, gs)
  <2> DEFINE IsIter(f) ==
               f = [U \in SUBSET DOMAIN gs |->
                      IF U = {} THEN <<>> ELSE step(f[U \ {Max(U)}], gs[Max(U)])]
             iter == CHOOSE f : IsIter(f)
  <2>1. Only(gs, S) = iter[DOMAIN gs]
    BY DEF Only, FoldLeft, MapThenFoldSet
  <2>2. \A U \in SUBSET DOMAIN gs : U # {} => gs[Max(U)] \in W
    BY LastPlace
  <2> HIDE DEF V, step
  <2>3. IsIter(iter)
    <3>1. PICK f \in [SUBSET DOMAIN gs -> V] : IsSetFolding(f, G, <<>>, gs)
      BY <1>2, SetFoldingExists
    <3>2. IsIter(f)
      BY <1>1, <2>2, <3>1 DEF IsSetFolding
    <3> QED BY <3>2
  <2> HIDE DEF iter
  <2>4. FoldsWithin(iter, V, W, G, <<>>, gs)
    BY <1>1, <1>2, <2>2, <2>3 DEF FoldsWithin
  <2> QED BY <2>1, <2>4, SetFoldingIsFolded
<1> HIDE DEF step, V
<1>4. /\ Folded(G, <<>>, <<>>) = <<>>
      /\ \A gs \in Seq(W) :
           /\ Folded(G, <<>>, gs) \in V
           /\ \A g \in W : Folded(G, <<>>, Append(gs, g)) = G[<<Folded(G, <<>>, gs), g>>]
  BY <1>2, FoldedProperties
<1>5. /\ <<>> \in Seq(W)
      /\ \A gs \in Seq(W), g \in W : Append(gs, g) \in Seq(W)
  OBVIOUS
<1>6. Only(<<>>, S) = <<>> /\ \A gs \in Seq(W) : Only(gs, S) \in V
  BY <1>3, <1>4, <1>5
<1>7. ASSUME NEW gs \in Seq(W), NEW g \in W
      PROVE  Only(Append(gs, g), S) = step(Only(gs, S), g)
  BY <1>1, <1>3, <1>4, <1>5
<1> QED BY <1>6, <1>7 DEF step, V

(* Adding goroutines to a result.                                          *)
LEMMA AddAllOf ==
  ASSUME NEW W, NEW known \in Seq(W)
  PROVE  /\ AddAll(known, <<>>) = known
         /\ \A gs \in Seq(W) :
              /\ AddAll(known, gs) \in Seq(W)
              /\ \A g \in W : AddAll(known, Append(gs, g)) = Add(AddAll(known, gs), g)
<1> DEFINE V == Seq(W)
           G == [p \in V \X W |-> Add(p[1], p[2])]
<1>1. \A v \in V, g \in W : G[<<v, g>>] = Add(v, g)
  OBVIOUS
<1>2. Steps(G, known, V, W)
  BY DEF Steps, Add
<1> HIDE DEF G
<1>3. ASSUME NEW gs \in Seq(W) PROVE AddAll(known, gs) = Folded(G, known, gs)
  <2> DEFINE IsIter(f) ==
               f = [U \in SUBSET DOMAIN gs |->
                      IF U = {} THEN known ELSE Add(f[U \ {Max(U)}], gs[Max(U)])]
             iter == CHOOSE f : IsIter(f)
  <2>1. AddAll(known, gs) = iter[DOMAIN gs]
    BY DEF AddAll, FoldLeft, MapThenFoldSet
  <2>2. \A U \in SUBSET DOMAIN gs : U # {} => gs[Max(U)] \in W
    BY LastPlace
  <2> HIDE DEF V
  <2>3. IsIter(iter)
    <3>1. PICK f \in [SUBSET DOMAIN gs -> V] : IsSetFolding(f, G, known, gs)
      BY <1>2, SetFoldingExists
    <3>2. IsIter(f)
      BY <1>1, <2>2, <3>1 DEF IsSetFolding
    <3> QED BY <3>2
  <2> HIDE DEF iter
  <2>4. FoldsWithin(iter, V, W, G, known, gs)
    BY <1>1, <1>2, <2>2, <2>3 DEF FoldsWithin
  <2> QED BY <2>1, <2>4, SetFoldingIsFolded
<1> HIDE DEF V
<1>4. /\ Folded(G, known, <<>>) = known
      /\ \A gs \in Seq(W) :
           /\ Folded(G, known, gs) \in V
           /\ \A g \in W : Folded(G, known, Append(gs, g)) = G[<<Folded(G, known, gs), g>>]
  BY <1>2, FoldedProperties
<1>5. /\ <<>> \in Seq(W)
      /\ \A gs \in Seq(W), g \in W : Append(gs, g) \in Seq(W)
  OBVIOUS
<1>6. AddAll(known, <<>>) = known /\ \A gs \in Seq(W) : AddAll(known, gs) \in V
  BY <1>3, <1>4, <1>5
<1>7. ASSUME NEW gs \in Seq(W), NEW g \in W
      PROVE  AddAll(known, Append(gs, g)) = Add(AddAll(known, gs), g)
  BY <1>1, <1>3, <1>4, <1>5
<1> QED BY <1>6, <1>7 DEF V

(* Adding one goroutine.                                                   *)
LEMMA AddOne ==
  ASSUME NEW W, NEW known \in Seq(W), NEW g \in W
  PROVE  AddAll(known, <<g>>) = Add(known, g)
<1>1. <<>> \in Seq(W) /\ Append(<<>>, g) = <<g>>
  OBVIOUS
<1>2. AddAll(known, <<>>) = known
  BY AddAllOf
<1>a. \A gs \in Seq(W) : \A h \in W : AddAll(known, Append(gs, h)) = Add(AddAll(known, gs), h)
  BY AddAllOf
<1>3. AddAll(known, Append(<<>>, g)) = Add(AddAll(known, <<>>), g)
  BY <1>1, <1>a, Zenon
<1> QED BY <1>1, <1>2, <1>3, Zenon

(* Nothing is nearer than the dump itself: parents and children are in it. *)
LEMMA NearIn ==
  ASSUME NEW W, NEW source \in Seq(W), NEW g, NEW up
  PROVE  Near(source, g, up) \in Seq(W)
<1>1. ChildrenOf(source, g) \in Seq(W)
  BY OnlyOf, Zenon DEF ChildrenOf
<1>2. ParentOf(source, g) \in Seq(W)
  <2> DEFINE found == {i \in DOMAIN source : source[i].id = g.createdBy}
  <2>1. CASE found = {}
    <3>1. ByID(source, g.createdBy) = NoGoroutine
      BY <2>1 DEF ByID
    <3> QED BY <3>1 DEF ParentOf
  <2>2. CASE found # {}
    <3>1. ByID(source, g.createdBy) = source[Min(found)]
      BY <2>2 DEF ByID
    <3>2. found \subseteq DOMAIN source /\ DOMAIN source \subseteq Nat
      OBVIOUS
    <3> HIDE DEF found
    <3>3. \E m \in found : \A i \in found : m <= i
      BY <2>2, <3>2, LeastOf
    <3>4. Min(found) \in found
      BY <3>3 DEF Min
    <3>5. source[Min(found)] \in W
      BY <3>2, <3>4
    <3> QED BY <3>1, <3>5 DEF ParentOf
  <2> QED BY <2>1, <2>2
<1> QED BY <1>1, <1>2 DEF Near

(* The results and queues of a search.                                     *)
Searches(W) == [result : Seq(W), queue : Seq(W)]

(* A round of one leads to another.                                        *)
LEMMA RoundIn ==
  ASSUME NEW W, NEW source \in Seq(W), NEW up, NEW s \in Searches(W)
  PROVE  Round(source, up, s) \in Searches(W)
<1>0. s.result \in Seq(W) /\ s.queue \in Seq(W)
  BY DEF Searches
<1>1. CASE s.queue = <<>>
  BY <1>1 DEF Round
<1>2. CASE s.queue # <<>>
  <2> DEFINE r == AddAll(s.result, Near(source, Head(s.queue), up))
             new == SubSeq(r, Len(s.result) + 1, Len(r))
  <2>1. Near(source, Head(s.queue), up) \in Seq(W)
    BY NearIn, Zenon
  <2>2. r \in Seq(W)
    BY <1>0, <2>1, AddAllOf
  <2> HIDE DEF r
  <2>3. new \in Seq(W)
    BY <1>0, <2>2
  <2> HIDE DEF new
  <2>4. Tail(s.queue) \o new \in Seq(W)
    BY <1>0, <1>2, <2>3
  <2>5. Round(source, up, s) = [result |-> r, queue |-> Tail(s.queue) \o new]
    BY <1>2 DEF Round, r, new
  <2> QED BY <2>2, <2>4, <2>5 DEF Searches
<1> QED BY <1>1, <1>2

(* The search from g, round by round: r[n] is its state after n of them.   *)
IsSearch(r, source, g, known, up) ==
  /\ r[0] = [result |-> known, queue |-> <<g>>]
  /\ \A n \in Nat : r[n + 1] = Round(source, up, r[n])

Search(source, g, known, up) == CHOOSE r : IsSearch(r, source, g, known, up)

(* Explore is what the search has found after a round for every goroutine  *)
(* of the dump, and one for g.                                             *)
LEMMA ExploreOf ==
  ASSUME NEW W, NEW source \in Seq(W), NEW g \in W, NEW known \in Seq(W), NEW up
  PROVE  LET r == Search(source, g, known, up)
         IN  /\ IsSearch(r, source, g, known, up)
             /\ \A n \in Nat : r[n] \in Searches(W)
             /\ Explore(source, g, known, up) = r[Len(source) + 1].result
             /\ Explore(source, g, known, up) \in Seq(W)
<1> DEFINE V == Searches(W)
           base == [result |-> known, queue |-> <<g>>]
           N == Len(source) + 1
           upTo(n) == [i \in 1..n |-> i]
           G == [p \in V \X Nat |-> Round(source, up, p[1])]
           h == [n \in Nat |-> Folded(G, base, upTo(n))]
<1>1. \A v \in V, i \in Nat : G[<<v, i>>] = Round(source, up, v)
  OBVIOUS
<1>2. base \in V /\ N \in Nat
  BY DEF Searches
<1>3. Steps(G, base, V, Nat)
  BY <1>2, RoundIn DEF Steps
<1>4. /\ upTo(0) = <<>>
      /\ \A n \in Nat : upTo(n) \in Seq(Nat) /\ upTo(n + 1) = Append(upTo(n), n + 1)
  OBVIOUS
<1>5. Explore(source, g, known, up) = Folded(G, base, upTo(N)).result
  <2> DEFINE ns == upTo(N)
             IsIter(f) ==
               f = [U \in SUBSET DOMAIN ns |->
                      IF U = {} THEN base ELSE Round(source, up, f[U \ {Max(U)}])]
             iter == CHOOSE f : IsIter(f)
  <2>1. Explore(source, g, known, up) = iter[DOMAIN ns].result
    BY DEF Explore, FoldLeft, MapThenFoldSet
  <2>2. ns \in Seq(Nat)
    BY <1>2, <1>4
  <2> HIDE DEF G, V, ns, base
  <2>3. \A U \in SUBSET DOMAIN ns : U # {} => ns[Max(U)] \in Nat
    BY <2>2, LastPlace
  <2>4. IsIter(iter)
    <3>1. PICK f \in [SUBSET DOMAIN ns -> V] : IsSetFolding(f, G, base, ns)
      BY <1>3, <2>2, SetFoldingExists
    <3>2. IsIter(f)
      BY <1>1, <2>3, <3>1 DEF IsSetFolding
    <3> QED BY <3>2
  <2> HIDE DEF iter
  <2>5. FoldsWithin(iter, V, Nat, G, base, ns)
    BY <1>1, <1>3, <2>2, <2>3, <2>4 DEF FoldsWithin
  <2>6. iter[DOMAIN ns] = Folded(G, base, ns)
    BY <2>5, SetFoldingIsFolded
  <2> QED BY <2>1, <2>6 DEF ns
<1> HIDE DEF G, V, upTo, base
<1>6. /\ Folded(G, base, <<>>) = base
      /\ \A s \in Seq(Nat) :
           /\ Folded(G, base, s) \in V
           /\ \A e \in Nat : Folded(G, base, Append(s, e)) = G[<<Folded(G, base, s), e>>]
  BY <1>3, FoldedProperties
<1>7. h[0] = base
  BY <1>4, <1>6
<1>8. \A n \in Nat : h[n] \in V
  BY <1>4, <1>6
<1>9. ASSUME NEW n \in Nat PROVE h[n + 1] = Round(source, up, h[n])
  <2>0. n + 1 \in Nat
    OBVIOUS
  <2>1. n + 1 \in Nat /\ upTo(n) \in Seq(Nat) /\ upTo(n + 1) = Append(upTo(n), n + 1)
    BY <1>4, <2>0, Zenon
  <2>2. h[n + 1] = Folded(G, base, upTo(n + 1)) /\ h[n] = Folded(G, base, upTo(n))
    BY <2>1
  <2> HIDE DEF h
  <2>3. h[n + 1] = Folded(G, base, Append(upTo(n), n + 1))
    BY <2>1, <2>2
  <2>4. Folded(G, base, Append(upTo(n), n + 1)) = G[<<h[n], n + 1>>]
    BY <1>6, <2>1, <2>2
  <2> QED BY <1>1, <1>8, <2>1, <2>3, <2>4
<1>10. h[N] = Folded(G, base, upTo(N))
  BY <1>2
<1> HIDE DEF h
<1>11. IsSearch(h, source, g, known, up)
  BY <1>7, <1>9 DEF IsSearch, base
<1> DEFINE r == Search(source, g, known, up)
<1>12. IsSearch(r, source, g, known, up)
  BY <1>11 DEF Search
<1> HIDE DEF r
<1>13. \A n \in Nat : r[n] = h[n]
  <2> DEFINE S == {n \in Nat : r[n] = h[n]}
  <2>1. 0 \in S
    BY <1>11, <1>12 DEF IsSearch
  <2>2. \A n \in Nat : n \in S => n + 1 \in S
    BY <1>11, <1>12 DEF IsSearch
  <2> HIDE DEF S
  <2>3. Nat \subseteq S
    BY <2>1, <2>2, SetInduction
  <2> QED BY <2>3 DEF S
<1>14. \A n \in Nat : r[n] \in V
  BY <1>8, <1>13
<1>15. Explore(source, g, known, up) = r[N].result
  BY <1>2, <1>5, <1>10, <1>13
<1>16. r[N].result \in Seq(W)
  BY <1>2, <1>14 DEF V, Searches
<1> QED BY <1>12, <1>14, <1>15, <1>16 DEF r, V

(* The graph of a dump, one match at a time.                               *)
LEMMA GraphOf ==
  ASSUME NEW W, NEW source \in Seq(W)
  PROVE  /\ InGraphOf(source, <<>>) = <<>>
         /\ \A gs \in Seq(W) :
              /\ InGraphOf(source, gs) \in Seq(W)
              /\ \A g \in W :
                   InGraphOf(source, Append(gs, g)) = Visit(source, InGraphOf(source, gs), g)
<1> DEFINE V == Seq(W)
           G == [p \in V \X W |-> Visit(source, p[1], p[2])]
<1>1. \A v \in V, g \in W : G[<<v, g>>] = Visit(source, v, g)
  OBVIOUS
<1>2. ASSUME NEW v \in V, NEW g \in W PROVE Visit(source, v, g) \in V
  <2>1. Add(v, g) \in Seq(W)
    BY DEF Add
  <2>2. Explore(source, g, Add(v, g), TRUE) \in Seq(W)
    BY <2>1, ExploreOf
  <2> QED BY <2>2, ExploreOf DEF Visit
<1>3. Steps(G, <<>>, V, W)
  BY <1>2 DEF Steps
<1> HIDE DEF G
<1>4. ASSUME NEW gs \in Seq(W) PROVE InGraphOf(source, gs) = Folded(G, <<>>, gs)
  <2> DEFINE IsIter(f) ==
               f = [U \in SUBSET DOMAIN gs |->
                      IF U = {} THEN <<>> ELSE Visit(source, f[U \ {Max(U)}], gs[Max(U)])]
             iter == CHOOSE f : IsIter(f)
  <2>1. InGraphOf(source, gs) = iter[DOMAIN gs]
    BY DEF InGraphOf, FoldLeft, MapThenFoldSet
  <2>2. \A U \in SUBSET DOMAIN gs : U # {} => gs[Max(U)] \in W
    BY LastPlace
  <2> HIDE DEF V
  <2>3. IsIter(iter)
    <3>1. PICK f \in [SUBSET DOMAIN gs -> V] : IsSetFolding(f, G, <<>>, gs)
      BY <1>3, SetFoldingExists
    <3>2. IsIter(f)
      BY <1>1, <2>2, <3>1 DEF IsSetFolding
    <3> QED BY <3>2
  <2> HIDE DEF iter
  <2>4. FoldsWithin(iter, V, W, G, <<>>, gs)
    BY <1>1, <1>3, <2>2, <2>3 DEF FoldsWithin
  <2> QED BY <2>1, <2>4, SetFoldingIsFolded
<1> HIDE DEF V
<1>5. /\ Folded(G, <<>>, <<>>) = <<>>
      /\ \A gs \in Seq(W) :
           /\ Folded(G, <<>>, gs) \in V
           /\ \A g \in W : Folded(G, <<>>, Append(gs, g)) = G[<<Folded(G, <<>>, gs), g>>]
  BY <1>3, FoldedProperties
<1>6. /\ <<>> \in Seq(W)
      /\ \A gs \in Seq(W), g \in W : Append(gs, g) \in Seq(W)
  OBVIOUS
<1>7. InGraphOf(source, <<>>) = <<>> /\ \A gs \in Seq(W) : InGraphOf(source, gs) \in V
  BY <1>4, <1>5, <1>6
<1>8. ASSUME NEW gs \in Seq(W), NEW g \in W
      PROVE  InGraphOf(source, Append(gs, g)) = Visit(source, InGraphOf(source, gs), g)
  BY <1>1, <1>4, <1>5, <1>6
<1> QED BY <1>7, <1>8 DEF V

=============================================================================
