-------------------------- MODULE RoundTripProofs ---------------------------
(***************************************************************************)
(* Proofs about saving, for every dump: the file has what Save was to      *)
(* write (SavedUnlessDropped), what loadFrom returns is frozen and hashed  *)
(* (ReturnedIsFrozen), a dump that was saved loads as what it was          *)
(* (RoundTrip), a header gives its goroutine the labels it has             *)
(* (LabelsAsWritten), and what a crash leaves of a file loads as what was  *)
(* written of the dump (CutShort).                                         *)
(***************************************************************************)
EXTENDS ArchiveProofs, SequenceLemmas

-----------------------------------------------------------------------------
(* The folds of DumpText, each with what it is of nothing and of a         *)
(* sequence that is longer by one.                                         *)
LEMMA CleanOf ==
  ASSUME NEW W
  PROVE  /\ Clean(<<>>) = <<>>
         /\ \A line \in Seq(W) :
              /\ Clean(line) \in Seq(W)
              /\ \A t \in W :
                   Clean(Append(line, t)) =
                     IF t.kind = "control" THEN Clean(line) ELSE Append(Clean(line), t)
<1> DEFINE V == Seq(W)
           step(v, t) == IF t.kind = "control" THEN v ELSE Append(v, t)
           G == [p \in V \X W |-> step(p[1], p[2])]
<1>1. \A v \in V, t \in W : G[<<v, t>>] = step(v, t)
  OBVIOUS
<1>2. Steps(G, <<>>, V, W)
  BY DEF Steps
<1> HIDE DEF G
<1>3. ASSUME NEW line \in Seq(W) PROVE Clean(line) = Folded(G, <<>>, line)
  <2> DEFINE IsIter(f) ==
               f = [U \in SUBSET DOMAIN line |->
                      IF U = {} THEN <<>>
                      ELSE step(f[U \ {Max(U)}], line[Max(U)])]
             iter == CHOOSE f : IsIter(f)
  <2>1. Clean(line) = iter[DOMAIN line]
    BY DEF Clean, FoldLeft, MapThenFoldSet
  <2>2. \A U \in SUBSET DOMAIN line : U # {} => line[Max(U)] \in W
    BY LastPlace
  <2> HIDE DEF V, step
  <2>3. IsIter(iter)
    <3>1. PICK f \in [SUBSET DOMAIN line -> V] : IsSetFolding(f, G, <<>>, line)
      BY <1>2, SetFoldingExists
    <3>2. IsIter(f)
      BY <1>1, <2>2, <3>1 DEF IsSetFolding
    <3> QED BY <3>2
  <2> HIDE DEF iter
  <2>4. FoldsWithin(iter, V, W, G, <<>>, line)
    BY <1>1, <1>2, <2>2, <2>3 DEF FoldsWithin
  <2> QED BY <2>1, <2>4, SetFoldingIsFolded
<1> HIDE DEF step, V
<1>4. /\ Folded(G, <<>>, <<>>) = <<>>
      /\ \A line \in Seq(W) :
           /\ Folded(G, <<>>, line) \in V
           /\ \A t \in W :
                Folded(G, <<>>, Append(line, t)) = G[<<Folded(G, <<>>, line), t>>]
  BY <1>2, FoldedProperties
<1>5. /\ <<>> \in Seq(W)
      /\ \A line \in Seq(W), t \in W : Append(line, t) \in Seq(W)
  OBVIOUS
<1>6. Clean(<<>>) = <<>> /\ \A line \in Seq(W) : Clean(line) \in V
  BY <1>3, <1>4, <1>5
<1>7. ASSUME NEW line \in Seq(W), NEW t \in W
      PROVE  Clean(Append(line, t)) = step(Clean(line), t)
  BY <1>1, <1>3, <1>4, <1>5
<1> QED BY <1>6, <1>7 DEF step, V

(* The locations of a trace, one line at a time.                           *)
LEMMA PlacesOf ==
  ASSUME NEW W, NEW X, \A line \in W : IsLocation(line) => line[1].spec \in X
  PROVE  /\ Places(<<>>) = <<>>
         /\ \A trace \in Seq(W) :
              /\ Places(trace) \in Seq(X)
              /\ \A line \in W :
                   Places(Append(trace, line)) =
                     IF IsLocation(line) THEN Append(Places(trace), line[1].spec)
                     ELSE Places(trace)
<1> DEFINE V == Seq(X)
           step(v, l) == IF IsLocation(l) THEN Append(v, l[1].spec) ELSE v
           G == [p \in V \X W |-> step(p[1], p[2])]
<1>1. \A v \in V, l \in W : G[<<v, l>>] = step(v, l)
  OBVIOUS
<1>2. Steps(G, <<>>, V, W)
  BY DEF Steps
<1> HIDE DEF G
<1>3. ASSUME NEW trace \in Seq(W) PROVE Places(trace) = Folded(G, <<>>, trace)
  <2> DEFINE IsIter(f) ==
               f = [U \in SUBSET DOMAIN trace |->
                      IF U = {} THEN <<>>
                      ELSE step(f[U \ {Max(U)}], trace[Max(U)])]
             iter == CHOOSE f : IsIter(f)
  <2>1. Places(trace) = iter[DOMAIN trace]
    BY DEF Places, FoldLeft, MapThenFoldSet
  <2>2. \A U \in SUBSET DOMAIN trace : U # {} => trace[Max(U)] \in W
    BY LastPlace
  <2> HIDE DEF V, step
  <2>3. IsIter(iter)
    <3>1. PICK f \in [SUBSET DOMAIN trace -> V] : IsSetFolding(f, G, <<>>, trace)
      BY <1>2, SetFoldingExists
    <3>2. IsIter(f)
      BY <1>1, <2>2, <3>1 DEF IsSetFolding
    <3> QED BY <3>2
  <2> HIDE DEF iter
  <2>4. FoldsWithin(iter, V, W, G, <<>>, trace)
    BY <1>1, <1>2, <2>2, <2>3 DEF FoldsWithin
  <2> QED BY <2>1, <2>4, SetFoldingIsFolded
<1> HIDE DEF step, V
<1>4. /\ Folded(G, <<>>, <<>>) = <<>>
      /\ \A trace \in Seq(W) :
           /\ Folded(G, <<>>, trace) \in V
           /\ \A l \in W :
                Folded(G, <<>>, Append(trace, l)) = G[<<Folded(G, <<>>, trace), l>>]
  BY <1>2, FoldedProperties
<1>5. /\ <<>> \in Seq(W)
      /\ \A trace \in Seq(W), l \in W : Append(trace, l) \in Seq(W)
  OBVIOUS
<1>6. Places(<<>>) = <<>> /\ \A trace \in Seq(W) : Places(trace) \in V
  BY <1>3, <1>4, <1>5
<1>7. ASSUME NEW trace \in Seq(W), NEW l \in W
      PROVE  Places(Append(trace, l)) = step(Places(trace), l)
  BY <1>1, <1>3, <1>4, <1>5
<1> QED BY <1>6, <1>7 DEF step, V

(* What bufio.Scanner has read of a text, one token at a time: no line     *)
(* holds a newline.                                                        *)
LEMMA ReadOf ==
  ASSUME NEW W
  PROVE  LET read == [lines : Seq(Seq(W \ {NewLine})), line : Seq(W \ {NewLine})]
         IN  /\ Read(<<>>) = [lines |-> <<>>, line |-> <<>>]
             /\ \A text \in Seq(W) :
                  /\ Read(text) \in read
                  /\ \A t \in W :
                       Read(Append(text, t)) =
                         IF t = NewLine
                         THEN [lines |-> Append(Read(text).lines, Read(text).line),
                               line |-> <<>>]
                         ELSE [lines |-> Read(text).lines,
                               line |-> Append(Read(text).line, t)]
<1> DEFINE V == [lines : Seq(Seq(W \ {NewLine})), line : Seq(W \ {NewLine})]
           step(r, t) == IF t = NewLine
                         THEN [lines |-> Append(r.lines, r.line), line |-> <<>>]
                         ELSE [lines |-> r.lines, line |-> Append(r.line, t)]
           G == [p \in V \X W |-> step(p[1], p[2])]
<1>1. \A r \in V, t \in W : G[<<r, t>>] = step(r, t)
  OBVIOUS
<1>2. Steps(G, [lines |-> <<>>, line |-> <<>>], V, W)
  BY DEF Steps
<1> HIDE DEF G
<1>3. ASSUME NEW text \in Seq(W)
      PROVE  Read(text) = Folded(G, [lines |-> <<>>, line |-> <<>>], text)
  <2> DEFINE IsIter(f) ==
               f = [U \in SUBSET DOMAIN text |->
                      IF U = {} THEN [lines |-> <<>>, line |-> <<>>]
                      ELSE step(f[U \ {Max(U)}], text[Max(U)])]
             iter == CHOOSE f : IsIter(f)
  <2>1. Read(text) = iter[DOMAIN text]
    BY DEF Read, FoldLeft, MapThenFoldSet
  <2>2. \A U \in SUBSET DOMAIN text : U # {} => text[Max(U)] \in W
    BY LastPlace
  <2> HIDE DEF V, step
  <2>3. IsIter(iter)
    <3>1. PICK f \in [SUBSET DOMAIN text -> V] :
            IsSetFolding(f, G, [lines |-> <<>>, line |-> <<>>], text)
      BY <1>2, SetFoldingExists
    <3>2. IsIter(f)
      BY <1>1, <2>2, <3>1 DEF IsSetFolding
    <3> QED BY <3>2
  <2> HIDE DEF iter
  <2>4. FoldsWithin(iter, V, W, G, [lines |-> <<>>, line |-> <<>>], text)
    BY <1>1, <1>2, <2>2, <2>3 DEF FoldsWithin
  <2> QED BY <2>1, <2>4, SetFoldingIsFolded
<1> HIDE DEF step, V
<1>4. /\ Folded(G, [lines |-> <<>>, line |-> <<>>], <<>>)
           = [lines |-> <<>>, line |-> <<>>]
      /\ \A text \in Seq(W) :
           /\ Folded(G, [lines |-> <<>>, line |-> <<>>], text) \in V
           /\ \A t \in W :
                Folded(G, [lines |-> <<>>, line |-> <<>>], Append(text, t))
                  = G[<<Folded(G, [lines |-> <<>>, line |-> <<>>], text), t>>]
  BY <1>2, FoldedProperties
<1>5. /\ <<>> \in Seq(W)
      /\ \A text \in Seq(W), t \in W : Append(text, t) \in Seq(W)
  OBVIOUS
<1>6. /\ Read(<<>>) = [lines |-> <<>>, line |-> <<>>]
      /\ \A text \in Seq(W) : Read(text) \in V
  BY <1>3, <1>4, <1>5
<1>7. ASSUME NEW text \in Seq(W), NEW t \in W
      PROVE  Read(Append(text, t)) = step(Read(text), t)
  BY <1>1, <1>3, <1>4, <1>5
<1> QED BY <1>6, <1>7 DEF step, V

(* A newline ends the line that is open.                                   *)
LEMMA ReadNewLine ==
  ASSUME NEW W, NewLine \in W, NEW text \in Seq(W)
  PROVE  Read(Append(text, NewLine)) =
           [lines |-> Append(Read(text).lines, Read(text).line), line |-> <<>>]
BY ReadOf

(* Any other token is added to the line that is open.                      *)
LEMMA ReadToken ==
  ASSUME NEW W, NEW text \in Seq(W), NEW t \in W, t # NewLine
  PROVE  Read(Append(text, t)) =
           [lines |-> Read(text).lines, line |-> Append(Read(text).line, t)]
BY ReadOf

(* The text of a trace, one line at a time.                                *)
LEMMA TraceTextOf ==
  ASSUME NEW W, NewLine \in W
  PROVE  /\ TraceText(<<>>) = <<>>
         /\ \A trace \in Seq(Seq(W)) :
              /\ TraceText(trace) \in Seq(W)
              /\ \A line \in Seq(W) :
                   TraceText(Append(trace, line)) =
                     TraceText(trace) \o line \o <<NewLine>>
<1> DEFINE V == Seq(W)
           step(v, l) == v \o l \o <<NewLine>>
           G == [p \in V \X Seq(W) |-> step(p[1], p[2])]
<1>1. \A v \in V, l \in Seq(W) : G[<<v, l>>] = step(v, l)
  OBVIOUS
<1>2. Steps(G, <<>>, V, Seq(W))
  BY DEF Steps
<1> HIDE DEF G
<1>3. ASSUME NEW trace \in Seq(Seq(W)) PROVE TraceText(trace) = Folded(G, <<>>, trace)
  <2> DEFINE IsIter(f) ==
               f = [U \in SUBSET DOMAIN trace |->
                      IF U = {} THEN <<>>
                      ELSE step(f[U \ {Max(U)}], trace[Max(U)])]
             iter == CHOOSE f : IsIter(f)
  <2>1. TraceText(trace) = iter[DOMAIN trace]
    BY DEF TraceText, FoldLeft, MapThenFoldSet
  <2>2. \A U \in SUBSET DOMAIN trace : U # {} => trace[Max(U)] \in Seq(W)
    BY LastPlace
  <2> HIDE DEF V, step
  <2>3. IsIter(iter)
    <3>1. PICK f \in [SUBSET DOMAIN trace -> V] : IsSetFolding(f, G, <<>>, trace)
      BY <1>2, SetFoldingExists
    <3>2. IsIter(f)
      BY <1>1, <2>2, <3>1 DEF IsSetFolding
    <3> QED BY <3>2
  <2> HIDE DEF iter
  <2>4. FoldsWithin(iter, V, Seq(W), G, <<>>, trace)
    BY <1>1, <1>2, <2>2, <2>3 DEF FoldsWithin
  <2> QED BY <2>1, <2>4, SetFoldingIsFolded
<1> HIDE DEF step, V
<1>4. /\ Folded(G, <<>>, <<>>) = <<>>
      /\ \A trace \in Seq(Seq(W)) :
           /\ Folded(G, <<>>, trace) \in V
           /\ \A l \in Seq(W) :
                Folded(G, <<>>, Append(trace, l)) = G[<<Folded(G, <<>>, trace), l>>]
  BY <1>2, FoldedProperties
<1>5. /\ <<>> \in Seq(Seq(W))
      /\ \A trace \in Seq(Seq(W)), l \in Seq(W) : Append(trace, l) \in Seq(Seq(W))
  OBVIOUS
<1>6. TraceText(<<>>) = <<>> /\ \A trace \in Seq(Seq(W)) : TraceText(trace) \in V
  BY <1>3, <1>4, <1>5
<1>7. ASSUME NEW trace \in Seq(Seq(W)), NEW l \in Seq(W)
      PROVE  TraceText(Append(trace, l)) = step(TraceText(trace), l)
  BY <1>1, <1>3, <1>4, <1>5
<1> QED BY <1>6, <1>7 DEF step, V

(* The writes of Print, one goroutine at a time.                           *)
LEMMA PrintsOf ==
  ASSUME NEW W, NEW T,
         \A g \in W : g.header \in T /\ BodyText(g.trace) \in T
  PROVE  /\ Prints(<<>>) = <<>>
         /\ \A gs \in Seq(W) :
              /\ Prints(gs) \in Seq(T)
              /\ \A g \in W :
                   Prints(Append(gs, g)) =
                     Prints(gs) \o <<g.header, BodyText(g.trace)>>
<1> DEFINE V == Seq(T)
           step(v, g) == v \o <<g.header, BodyText(g.trace)>>
           G == [p \in V \X W |-> step(p[1], p[2])]
<1>1. \A v \in V, g \in W : G[<<v, g>>] = step(v, g)
  OBVIOUS
<1>2. Steps(G, <<>>, V, W)
  BY DEF Steps
<1> HIDE DEF G
<1>3. ASSUME NEW gs \in Seq(W) PROVE Prints(gs) = Folded(G, <<>>, gs)
  <2> DEFINE IsIter(f) ==
               f = [U \in SUBSET DOMAIN gs |->
                      IF U = {} THEN <<>>
                      ELSE step(f[U \ {Max(U)}], gs[Max(U)])]
             iter == CHOOSE f : IsIter(f)
  <2>1. Prints(gs) = iter[DOMAIN gs]
    BY DEF Prints, FoldLeft, MapThenFoldSet
  <2>2. \A U \in SUBSET DOMAIN gs : U # {} => gs[Max(U)] \in W
    BY LastPlace
  <2> HIDE DEF V, step
  <2>3. IsIter(iter)
    <3>1. PICK f \in [SUBSET DOMAIN gs -> V] : IsSetFolding(f, G, <<>>, gs)
      BY <1>2, SetFoldingExists
    <3>2. IsIter(f)
      BY <1>1, <2>2, <3>1 DEF IsSetFolding
    <3> QED BY <3>2
  <2> HIDE DEF iter
  <2>4. FoldsWithin(iter, V, W, G, <<>>, gs)
    BY <1>1, <1>2, <2>2, <2>3 DEF FoldsWithin
  <2> QED BY <2>1, <2>4, SetFoldingIsFolded
<1> HIDE DEF step, V
<1>4. /\ Folded(G, <<>>, <<>>) = <<>>
      /\ \A gs \in Seq(W) :
           /\ Folded(G, <<>>, gs) \in V
           /\ \A g \in W :
                Folded(G, <<>>, Append(gs, g)) = G[<<Folded(G, <<>>, gs), g>>]
  BY <1>2, FoldedProperties
<1>5. /\ <<>> \in Seq(W)
      /\ \A gs \in Seq(W), g \in W : Append(gs, g) \in Seq(W)
  OBVIOUS
<1>6. Prints(<<>>) = <<>> /\ \A gs \in Seq(W) : Prints(gs) \in V
  BY <1>3, <1>4, <1>5
<1>7. ASSUME NEW gs \in Seq(W), NEW g \in W
      PROVE  Prints(Append(gs, g)) = step(Prints(gs), g)
  BY <1>1, <1>3, <1>4, <1>5
<1> QED BY <1>6, <1>7 DEF step, V

-----------------------------------------------------------------------------
(* Stripping a line leaves no control characters, and nothing to strip.    *)
Shown(W) == {t \in W : t.kind # "control"}

(* Stripping leaves no control characters.                                 *)
LEMMA CleanIsShown ==
  ASSUME NEW W, NEW line \in Seq(W)
  PROVE  Clean(line) \in Seq(Shown(W))
<1> DEFINE P == {l \in Seq(W) : Clean(l) \in Seq(Shown(W))}
<1>1. <<>> \in P
  <2>1. <<>> \in Seq(W) /\ <<>> \in Seq(Shown(W))
    OBVIOUS
  <2>2. Clean(<<>>) \in Seq(Shown(W))
    <3>1. Clean(<<>>) = <<>>
      BY CleanOf
    <3> QED BY <2>1, <3>1
  <2> QED BY <2>1, <2>2
<1>2. ASSUME NEW l \in Seq(W), NEW t \in W, l \in P PROVE Append(l, t) \in P
  <2>1. /\ Append(l, t) \in Seq(W) /\ Clean(l) \in Seq(Shown(W))
        /\ Clean(Append(l, t)) =
             IF t.kind = "control" THEN Clean(l) ELSE Append(Clean(l), t)
    BY <1>2, CleanOf
  <2>2. t.kind # "control" => t \in Shown(W)
    BY DEF Shown
  <2>3. Clean(Append(l, t)) \in Seq(Shown(W))
    BY <2>1, <2>2
  <2> QED BY <2>1, <2>3
<1> HIDE DEF P
<1>3. Seq(W) \subseteq P
  BY <1>1, <1>2, SeqInduction
<1> QED BY <1>3 DEF P

(* A line without control characters is left as it is.                     *)
LEMMA CleanStays ==
  ASSUME NEW W, NEW line \in Seq(Shown(W))
  PROVE  Clean(line) = line
<1> DEFINE S == Shown(W)
           P == {l \in Seq(S) : Clean(l) = l}
<1>1. \A t \in S : t.kind # "control"
  BY DEF Shown
<1> HIDE DEF S
<1>2. <<>> \in P
  <2>1. Clean(<<>>) = <<>>
    BY CleanOf
  <2> QED BY <2>1
<1>3. ASSUME NEW l \in Seq(S), NEW t \in S, l \in P PROVE Append(l, t) \in P
  <2>1. Clean(Append(l, t)) =
          IF t.kind = "control" THEN Clean(l) ELSE Append(Clean(l), t)
    BY CleanOf
  <2>2. Append(l, t) \in Seq(S) /\ Clean(l) = l
    BY <1>3
  <2> QED BY <1>1, <2>1, <2>2
<1> HIDE DEF P
<1>4. Seq(S) \subseteq P
  BY <1>2, <1>3, SeqInduction
<1> QED BY <1>4 DEF P, S

-----------------------------------------------------------------------------
(* What the scanner makes of a text that ends in a whole line, and then of *)
(* a line, of a trace, and of a goroutine.                                 *)
Wide(W) == W \ {NewLine}   \* what a line may have

(* Tokens that are no newlines go on with the open line.                   *)
LEMMA ReadOpenLine ==
  ASSUME NEW W, NEW text \in Seq(W), NEW line \in Seq(Wide(W))
  PROVE  Read(text \o line) =
           [lines |-> Read(text).lines, line |-> Read(text).line \o line]
<1> DEFINE lines == Read(text).lines
           open  == Read(text).line
           L == Wide(W)
           P == {l \in Seq(L) :
                   Read(text \o l) = [lines |-> lines, line |-> open \o l]}
<1>1. L \subseteq W /\ NewLine \notin L
  BY DEF Wide
<1>2. open \in Seq(L) /\ Read(text) = [lines |-> lines, line |-> open]
  <2>1. Read(text) \in [lines : Seq(Seq(W \ {NewLine})), line : Seq(W \ {NewLine})]
    BY ReadOf
  <2> QED BY <2>1 DEF Wide
<1> HIDE DEF L, lines, open
<1>3. <<>> \in P
  <2>1. text \o <<>> = text /\ open \o <<>> = open /\ <<>> \in Seq(L)
    BY <1>2
  <2>2. Read(text \o <<>>) = [lines |-> lines, line |-> open \o <<>>]
    BY <1>2, <2>1
  <2> QED BY <2>1, <2>2
<1>4. ASSUME NEW l \in Seq(L), NEW t \in L, l \in P PROVE Append(l, t) \in P
  <2>1. t \in W /\ t # NewLine /\ l \in Seq(W)
    BY <1>1
  <2>2. /\ text \o Append(l, t) = Append(text \o l, t)
        /\ text \o l \in Seq(W) /\ Append(l, t) \in Seq(L)
    BY <2>1
  <2>3. Read(Append(text \o l, t)) =
          [lines |-> Read(text \o l).lines, line |-> Append(Read(text \o l).line, t)]
    BY <2>1, <2>2, ReadToken
  <2>4. Read(text \o l) = [lines |-> lines, line |-> open \o l]
    BY <1>4
  <2>5. Append(open \o l, t) = open \o Append(l, t)
    <3>1. IsList(open) /\ IsList(l)
      BY <1>2, SeqIsList
    <3>2. Extends(open, l, t)
      BY <3>1, AppendToConcat, Zenon
    <3> QED BY <3>2 DEF Extends
  <2>6. Read(Append(text \o l, t)) = [lines |-> lines, line |-> Append(open \o l, t)]
    BY <2>3, <2>4
  <2>7. Read(text \o Append(l, t)) = [lines |-> lines, line |-> open \o Append(l, t)]
    BY <2>2, <2>5, <2>6
  <2> QED BY <2>2, <2>7
<1> HIDE DEF P
<1>5. Seq(L) \subseteq P
  BY <1>3, <1>4, SeqInduction
<1> QED BY <1>5 DEF P, L, lines, open

(* The text consists of whole lines, and of these.                         *)
HasLines(text, lines) == Read(text) = [lines |-> lines, line |-> <<>>]

(* A text of whole lines stays one when a line and its newline follow.     *)
LEMMA ReadWholeLine ==
  ASSUME NEW W, NewLine \in W, NEW text \in Seq(W), NEW lines, HasLines(text, lines),
         NEW line \in Seq(Wide(W))
  PROVE  /\ text \o line \o <<NewLine>> \in Seq(W)
         /\ HasLines(text \o line \o <<NewLine>>, Append(lines, line))
<1>1. line \in Seq(W)
  BY DEF Wide
<1>2. text \o line \in Seq(W)
  BY <1>1
<1>3. text \o line \o <<NewLine>> = Append(text \o line, NewLine)
  <2>1. IsList(text \o line)
    BY <1>2, SeqIsList
  <2> QED BY <2>1, ConcatOne, SMT
<1>4. Read(text \o line) = [lines |-> lines, line |-> line]
  <2>1. <<>> \o line = line
    OBVIOUS
  <2> QED BY <2>1, ReadOpenLine DEF HasLines
<1>5. Read(Append(text \o line, NewLine)) =
        [lines |-> Append(lines, line), line |-> <<>>]
  <2>1. Read(Append(text \o line, NewLine)) =
          [lines |-> Append(Read(text \o line).lines, Read(text \o line).line),
           line |-> <<>>]
    BY <1>2, ReadNewLine
  <2> QED BY <1>4, <2>1
<1>6. Append(text \o line, NewLine) \in Seq(W)
  BY <1>2
<1> QED BY <1>3, <1>5, <1>6 DEF HasLines

(* A text of whole lines stays one when the lines of a trace follow.       *)
LEMMA ReadTrace ==
  ASSUME NEW W, NewLine \in W, NEW text \in Seq(W),
         NEW lines \in Seq(Seq(W)), HasLines(text, lines),
         NEW trace \in Seq(Seq(Wide(W)))
  PROVE  /\ text \o TraceText(trace) \in Seq(W)
         /\ HasLines(text \o TraceText(trace), lines \o trace)
<1> DEFINE P == {tr \in Seq(Seq(Wide(W))) :
                   /\ text \o TraceText(tr) \in Seq(W)
                   /\ HasLines(text \o TraceText(tr), lines \o tr)}
<1>1. <<>> \in P
  <2>1. /\ text \o <<>> = text /\ lines \o <<>> = lines
        /\ <<>> \in Seq(Seq(Wide(W)))
    OBVIOUS
  <2>2. TraceText(<<>>) = <<>>
    BY TraceTextOf
  <2>3. /\ text \o TraceText(<<>>) \in Seq(W)
        /\ HasLines(text \o TraceText(<<>>), lines \o <<>>)
    BY <2>1, <2>2
  <2> QED BY <2>1, <2>3
<1>2. ASSUME NEW tr \in Seq(Seq(Wide(W))), NEW line \in Seq(Wide(W)), tr \in P
      PROVE  Append(tr, line) \in P
  <2>1. line \in Seq(W) /\ tr \in Seq(Seq(W))
    <3>1. Seq(Wide(W)) \subseteq Seq(W)
      BY DEF Wide
    <3> QED BY <3>1
  <2> DEFINE was == text \o TraceText(tr)
  <2>2. TraceText(tr) \in Seq(W)
    BY <2>1, TraceTextOf
  <2>3. TraceText(Append(tr, line)) = TraceText(tr) \o line \o <<NewLine>>
    BY <2>1, TraceTextOf
  <2>4. text \o TraceText(Append(tr, line)) = was \o line \o <<NewLine>>
    <3> DEFINE tt == TraceText(tr)
               n == <<NewLine>>
    <3>1. tt \in Seq(W) /\ n \in Seq(W)
      BY <2>2
    <3> HIDE DEF tt, n
    <3>2. text \o (tt \o line \o n) = (text \o tt) \o line \o n
      <4>1. IsList(text) /\ IsList(tt) /\ IsList(line) /\ IsList(n)
        BY <2>1, <3>1, SeqIsList
      <4>2. Regroups(text, tt, line, n)
        BY <4>1, ConcatFour, Zenon
      <4> QED BY <4>2 DEF Regroups
    <3> QED BY <2>3, <3>2 DEF tt, n, was
  <2>5. was \in Seq(W) /\ HasLines(was, lines \o tr)
    BY <1>2
  <2> HIDE DEF was
  <2>6. /\ was \o line \o <<NewLine>> \in Seq(W)
        /\ HasLines(was \o line \o <<NewLine>>, Append(lines \o tr, line))
    BY <2>5, ReadWholeLine
  <2>7. Append(lines \o tr, line) = lines \o Append(tr, line)
    <3>1. IsList(lines) /\ IsList(tr)
      BY <2>1, SeqIsList
    <3>2. Extends(lines, tr, line)
      BY <3>1, AppendToConcat, Zenon
    <3> QED BY <3>2 DEF Extends
  <2>8. /\ text \o TraceText(Append(tr, line)) \in Seq(W)
        /\ HasLines(text \o TraceText(Append(tr, line)), lines \o Append(tr, line))
    BY <2>4, <2>6, <2>7
  <2>9. Append(tr, line) \in Seq(Seq(Wide(W)))
    OBVIOUS
  <2> QED BY <2>8, <2>9
<1> HIDE DEF P
<1>3. Seq(Seq(Wide(W))) \subseteq P
  BY <1>1, <1>2, SeqInduction
<1> QED BY <1>3 DEF P

(* A text of whole lines stays one when a goroutine follows as Print       *)
(* writes it: its header, its trace and a blank line.                      *)
LEMMA ReadGoroutine ==
  ASSUME NEW W, NewLine \in W, NEW text \in Seq(W),
         NEW lines \in Seq(Seq(W)), HasLines(text, lines),
         NEW header \in Seq(Wide(W)), NEW trace \in Seq(Seq(Wide(W)))
  PROVE  /\ text \o header \o BodyText(trace) \in Seq(W)
         /\ HasLines(text \o header \o BodyText(trace),
                     Append(Append(lines, header) \o trace, <<>>))
<1>1. header \in Seq(W) /\ trace \in Seq(Seq(W))
  <2>1. Seq(Wide(W)) \subseteq Seq(W)
    BY DEF Wide
  <2> QED BY <2>1
<1> DEFINE first  == text \o header \o <<NewLine>>
           second == first \o TraceText(trace)
<1>2. first \in Seq(W) /\ HasLines(first, Append(lines, header))
  BY ReadWholeLine
<1>3. Append(lines, header) \in Seq(Seq(W))
  BY <1>1
<1> HIDE DEF first
<1>4. second \in Seq(W) /\ HasLines(second, Append(lines, header) \o trace)
  BY <1>2, <1>3, ReadTrace
<1> HIDE DEF second
<1>5. <<>> \in Seq(Wide(W))
  OBVIOUS
<1>6. /\ second \o <<>> \o <<NewLine>> \in Seq(W)
      /\ HasLines(second \o <<>> \o <<NewLine>>,
                  Append(Append(lines, header) \o trace, <<>>))
  BY <1>4, <1>5, ReadWholeLine
<1>7. text \o header \o BodyText(trace) = second \o <<>> \o <<NewLine>>
  <2> DEFINE tt == TraceText(trace)
             n == <<NewLine>>
  <2>1. tt \in Seq(W) /\ n \in Seq(W)
    BY <1>1, TraceTextOf
  <2> HIDE DEF tt, n
  <2>2. text \o header \o (n \o tt \o n) = ((text \o header \o n) \o tt) \o <<>> \o n
    <3> DEFINE th == text \o header
    <3>1. IsList(text) /\ IsList(header) /\ IsList(tt) /\ IsList(n)
      BY <1>1, <2>1, SeqIsList
    <3>2. IsList(th) /\ IsList((th \o n) \o tt)
      BY <3>1, ListsMade, Zenon
    <3> HIDE DEF th
    <3>3. Regroups(th, n, tt, n)
      BY <3>1, <3>2, ConcatFour, Zenon
    <3>4. ((th \o n) \o tt) \o <<>> = (th \o n) \o tt
      BY <3>2, ConcatEmpty, Zenon
    <3> QED BY <3>3, <3>4, Zenon DEF th, Regroups
  <2> QED BY <2>2 DEF BodyText, first, second, tt, n
<1> QED BY <1>6, <1>7

-----------------------------------------------------------------------------
(* What the dump and the file have.                                        *)

(* The tokens of a line, and those that the loader takes and keeps.        *)
Wording == Wide(Token)
Short   == {t \in Wording : t.kind # "long"}
Plain   == Shown(Short)

(* The lines that start a goroutine, and those that are added to one.      *)
HeaderLine == {l \in Seq(Plain) : IsHeader(l) /\ HeaderInRange(l)}
TextLine   == {l \in Seq(Plain) : IsText(l) /\ LineInRange(l)}

(* Goroutine g says what its own header and body do, and has the hash of   *)
(* its body.                                                               *)
IsWhole(g) ==
  LET new == NewGoroutine(g.header)
  IN  /\ IsGoroutine(g)
      /\ g.header \in HeaderLine
      /\ g.id = new.id /\ g.state = new.state
      /\ g.duration = new.duration /\ g.labels = new.labels
      /\ Body(g) \in Seq(TextLine)
      /\ g.lineCount = Len(Body(g)) + 1
      /\ IsParentIn(Body(g), g.createdBy)
      /\ IF g.isFrozen THEN g.buf = <<>> /\ g.hash = Places(Body(g))
         ELSE g.hasher = Places(Body(g))

(* Every goroutine of gs is whole.                                         *)
AreWhole(gs) == \A i \in DOMAIN gs : IsWhole(gs[i])

(* Goroutines as they are loaded, and saved.                               *)
IsPrintable(gs) ==
  IsDump(gs) /\ AreWhole(gs) /\ \A i \in DOMAIN gs : gs[i].isFrozen

(* The text that Save writes.                                              *)
Printed(gs) == FlattenSeq(Prints(gs))

(* The inductive invariants, one of what is read and written, one of what  *)
(* the writer has left to do, and one of what a saved dump has become.     *)
TextsInv ==
  /\ file \in Seq(Token)
  /\ input \in Seq(Seq(Wording))
  /\ scanned \in 0..Len(input)
  /\ loading \in {"none", "scanning", "loaded", "failed"}
  /\ loading = "loaded" => scanned = Len(input)
  /\ AreWhole(dump)
  /\ loading = "loaded" => \A i \in DOMAIN dump : dump[i].isFrozen

(* What the file has together with what is still to be written is what     *)
(* Save meant to write, unless the error of a write was dropped.           *)
WriterInv ==
  /\ saving \in {"none", "writing", "saved", "failed", "crashed"}
  /\ failures \in 0..MaxFailures
  /\ pieces \in Seq(Seq(Token) \ {<<>>})
  /\ saving = "writing" /\ (checked \/ failures = 0) =>
       file \o FlattenSeq(pieces) = meant
  /\ saving = "saved" /\ (checked \/ failures = 0) => file = meant

(* What Save writes is the text of the dump it was given, and what the     *)
(* loader has read of that text says what this dump does.                  *)
SavedInv ==
  /\ IsDump(saved) /\ AreWhole(saved)
  /\ \A i \in DOMAIN saved : saved[i].isFrozen
  /\ saving \in {"writing", "saved"} /\ ~checked => meant = Printed(saved)
  /\ saving = "writing" /\ ~checked => loading = "loaded" /\ dump = saved
  /\ saving = "saved" /\ ~checked /\ failures = 0 =>
       \/ loading = "loaded" /\ dump = saved
       \/ loading \in {"scanning", "loaded"} /\ input = Lines(file)

(* How the sets of tokens lie in one another.                              *)
LEMMA PlainTokens ==
  /\ Plain \subseteq Wording /\ Wording \subseteq Token /\ NewLine \in Token
  /\ NewLine \notin Wording
  /\ \A t \in Plain : t.kind # "control" /\ t.kind # "long"
BY DEF Plain, Shown, Short, Wording, Wide, Token, NewLine

(* How the sets of lines lie in one another.                               *)
LEMMA PlainLines ==
  /\ HeaderLine \subseteq Seq(Plain) /\ TextLine \subseteq Seq(Plain)
  /\ Seq(Plain) \subseteq Seq(Wording) /\ Seq(Plain) \subseteq Seq(Token)
  /\ Seq(TextLine) \subseteq Seq(Seq(Plain))
  /\ Seq(TextLine) \subseteq Seq(Seq(Wording))
  /\ Seq(TextLine) \subseteq Seq(Seq(Token))
<1>1. HeaderLine \subseteq Seq(Plain) /\ TextLine \subseteq Seq(Plain)
  BY DEF HeaderLine, TextLine
<1>2. Seq(Plain) \subseteq Seq(Wording) /\ Seq(Plain) \subseteq Seq(Token)
  BY PlainTokens
<1>3. Seq(TextLine) \subseteq Seq(Seq(Plain))
  BY <1>1
<1>4. TextLine \subseteq Seq(Wording) /\ TextLine \subseteq Seq(Token)
  BY <1>1, <1>2
<1>5. /\ Seq(TextLine) \subseteq Seq(Seq(Wording))
      /\ Seq(TextLine) \subseteq Seq(Seq(Token))
  BY <1>4
<1> QED BY <1>1, <1>2, <1>3, <1>5

(* What Print writes of a goroutine.                                       *)
LEMMA WholeIsPrinted ==
  ASSUME NEW g, IsWhole(g), g.isFrozen
  PROVE  /\ g.header \in HeaderLine /\ g.trace \in Seq(TextLine)
         /\ Body(g) = g.trace
         /\ g.header \in Seq(Token) \ {<<>>}
         /\ BodyText(g.trace) \in Seq(Token) \ {<<>>}
<1>1. g.header \in HeaderLine /\ Body(g) = g.trace /\ g.trace \in Seq(TextLine)
  BY DEF IsWhole, Body
<1>2. g.header # <<>>
  BY <1>1 DEF HeaderLine, IsHeader
<1>3. g.header \in Seq(Token) /\ g.trace \in Seq(Seq(Token))
  BY <1>1, PlainLines
<1>4. TraceText(g.trace) \in Seq(Token) /\ <<NewLine>> \in Seq(Token)
  BY <1>3, TraceTextOf, PlainTokens
<1> DEFINE tt == TraceText(g.trace)
           n == <<NewLine>>
<1>5. n # <<>>
  OBVIOUS
<1> HIDE DEF tt, n
<1>6. n \o tt \o n \in Seq(Token) /\ n \o tt \o n # <<>>
  BY <1>4, <1>5 DEF tt, n
<1> QED BY <1>1, <1>2, <1>3, <1>6 DEF BodyText, tt, n

(* The dumps that Save may be given, with their goroutines as a set.       *)
AllPrintable(G) == \A g \in G : IsWhole(g) /\ g.isFrozen
(* The goroutines of gs.                                                   *)
Elements(gs) == {gs[i] : i \in DOMAIN gs}

(* A dump that was loaded is one that Print can write.                     *)
LEMMA DumpElements ==
  ASSUME NEW gs, IsDump(gs), AreWhole(gs), \A i \in DOMAIN gs : gs[i].isFrozen
  PROVE  gs \in Seq(Elements(gs)) /\ AllPrintable(Elements(gs))
<1>1. PICK W : gs \in Seq(Goroutines(W))
  BY DEF IsDump
<1>2. gs \in Seq(Elements(gs))
  BY <1>1 DEF Elements
<1>3. AllPrintable(Elements(gs))
  BY Zenon DEF AllPrintable, Elements, AreWhole
<1> QED BY <1>2, <1>3

(* Each write of Print is a text, and none is empty.                       *)
LEMMA PrintsIsTyped ==
  ASSUME NEW G, AllPrintable(G), NEW gs \in Seq(G)
  PROVE  Prints(gs) \in Seq(Seq(Token) \ {<<>>})
<1>1. \A g \in G : /\ g.header \in Seq(Token) \ {<<>>}
                   /\ BodyText(g.trace) \in Seq(Token) \ {<<>>}
  BY WholeIsPrinted DEF AllPrintable
<1> DEFINE T == Seq(Token) \ {<<>>}
<1> HIDE DEF T
<1>2. \A g \in G : g.header \in T /\ BodyText(g.trace) \in T
  BY <1>1 DEF T
<1>3. Prints(gs) \in Seq(T)
  BY <1>2, PrintsOf
<1> QED BY <1>3 DEF T

(* The text of a dump that is longer by one.                               *)
LEMMA PrintedOf ==
  ASSUME NEW G, AllPrintable(G)
  PROVE  /\ Printed(<<>>) = <<>>
         /\ \A gs \in Seq(G) :
              /\ Printed(gs) \in Seq(Token)
              /\ \A g \in G :
                   Printed(Append(gs, g)) =
                     (Printed(gs) \o g.header) \o BodyText(g.trace)
<1> DEFINE T == Seq(Token)
<1>1. \A g \in G : g.header \in T /\ BodyText(g.trace) \in T
  BY WholeIsPrinted DEF AllPrintable
<1> HIDE DEF T
<1>2. Printed(<<>>) = <<>>
  <2>1. Prints(<<>>) = <<>>
    BY <1>1, PrintsOf
  <2>2. FlattenSeq(<<>>) = <<>>
    BY FlattenProperties
  <2> QED BY <2>1, <2>2 DEF Printed
<1>3. ASSUME NEW gs \in Seq(G)
      PROVE  Prints(gs) \in Seq(Seq(Token)) /\ Printed(gs) \in Seq(Token)
  <2>1. Prints(gs) \in Seq(T)
    BY <1>1, PrintsOf
  <2>2. Prints(gs) \in Seq(Seq(Token))
    BY <2>1 DEF T
  <2> QED BY <2>2, FlattenProperties DEF Printed
<1>4. ASSUME NEW gs \in Seq(G), NEW g \in G
      PROVE  Printed(Append(gs, g)) =
               (Printed(gs) \o g.header) \o BodyText(g.trace)
  <2> DEFINE ps == Prints(gs)
             h == g.header
             b == BodyText(g.trace)
  <2>1. Prints(Append(gs, g)) = ps \o <<h, b>>
    BY <1>1, PrintsOf
  <2>2. ps \in Seq(Seq(Token)) /\ h \in Seq(Token) /\ b \in Seq(Token)
    BY <1>1, <1>3 DEF T
  <2> HIDE DEF ps, h, b
  <2>3. ps \o <<h, b>> = Append(Append(ps, h), b) /\ Append(ps, h) \in Seq(Seq(Token))
    BY <2>2
  <2>4. FlattenSeq(Append(ps, h)) = FlattenSeq(ps) \o h
    BY <2>2, FlattenProperties
  <2>5. FlattenSeq(Append(Append(ps, h), b)) = FlattenSeq(Append(ps, h)) \o b
    BY <2>2, <2>3, FlattenProperties
  <2> QED BY <2>1, <2>3, <2>4, <2>5 DEF Printed, ps, h, b
<1> QED BY <1>2, <1>3, <1>4

-----------------------------------------------------------------------------
(* The writer.                                                             *)
LEMMA FirstPiece ==
  ASSUME NEW T, NEW ps \in Seq(Seq(T) \ {<<>>}), ps # <<>>
  PROVE  /\ Head(ps) \in Seq(T) /\ Head(ps) # <<>>
         /\ Tail(ps) \in Seq(Seq(T) \ {<<>>}) /\ FlattenSeq(Tail(ps)) \in Seq(T)
         /\ FlattenSeq(ps) = Head(ps) \o FlattenSeq(Tail(ps))
<1> DEFINE P == Seq(T) \ {<<>>}
           h == Head(ps)
           rest == Tail(ps)
<1>1. h \in P /\ rest \in Seq(P) /\ ps = <<h>> \o rest
  OBVIOUS
<1>2. P \subseteq Seq(T)
  OBVIOUS
<1>3. h \in Seq(T) /\ h # <<>>
  BY <1>1
<1> HIDE DEF P, h, rest
<1>4. Seq(P) \subseteq Seq(Seq(T))
  BY <1>2
<1>5. rest \in Seq(Seq(T))
  BY <1>1, <1>4
<1>6. FlattenSeq(<<h>> \o rest) = h \o FlattenSeq(rest)
  BY <1>3, <1>5, FlattenFirst
<1>7. FlattenSeq(rest) \in Seq(T)
  BY <1>5, FlattenProperties
<1> QED BY <1>1, <1>3, <1>6, <1>7 DEF P, h, rest

(* A write that takes n tokens of a piece leaves the others.               *)
LEMMA SplitPiece ==
  ASSUME NEW T, NEW s \in Seq(T), NEW n \in 1..Len(s)
  PROVE  LET a == SubSeq(s, 1, n)
             b == SubSeq(s, n + 1, Len(s))
         IN  /\ a \in Seq(T) /\ b \in Seq(T)
             /\ s = a \o b
             /\ n = Len(s) => a = s
             /\ n # Len(s) => b # <<>>
<1> DEFINE a == SubSeq(s, 1, n)
           b == SubSeq(s, n + 1, Len(s))
<1>1. a \in Seq(T) /\ b \in Seq(T)
  OBVIOUS
<1>2. Len(a) = n /\ Len(b) = Len(s) - n
  OBVIOUS
<1>3. s = a \o b
  OBVIOUS
<1>4. n = Len(s) => a = s
  OBVIOUS
<1>5. n # Len(s) => b # <<>>
  <2>1. Len(s) \in Nat /\ n \in 1..Len(s)
    OBVIOUS
  <2>2. n # Len(s) => Len(b) # 0
    BY <1>2, <2>1
  <2> HIDE DEF b
  <2> QED BY <2>2
<1> QED BY <1>1, <1>3, <1>4, <1>5

(* What the file will have is what it was to have, whatever the inner      *)
(* writer takes of a piece.                                                *)
LEMMA WriteSomeKeeps ==
  ASSUME file \in Seq(Token), pieces \in Seq(Seq(Token) \ {<<>>}), WriteSome
  PROVE  /\ file' \in Seq(Token) /\ pieces' \in Seq(Seq(Token) \ {<<>>})
         /\ file' \o FlattenSeq(pieces') = file \o FlattenSeq(pieces)
<1> DEFINE rest == Head(pieces)
           tail == Tail(pieces)
           after == FlattenSeq(tail)
           P == Seq(Token) \ {<<>>}
<1>1. /\ rest \in Seq(Token) /\ tail \in Seq(P) /\ after \in Seq(Token)
      /\ FlattenSeq(pieces) = rest \o after
  BY FirstPiece DEF WriteSome, Writing
<1>2. PICK n \in 1..Len(rest) :
        /\ file' = file \o SubSeq(rest, 1, n)
        /\ pieces' = IF n = Len(rest) THEN tail
                     ELSE <<SubSeq(rest, n + 1, Len(rest))>> \o tail
  BY DEF WriteSome, Rest
<1> DEFINE a == SubSeq(rest, 1, n)
           b == SubSeq(rest, n + 1, Len(rest))
<1> HIDE DEF rest, tail, after
<1>3. /\ a \in Seq(Token) /\ b \in Seq(Token) /\ rest = a \o b
      /\ n = Len(rest) => a = rest
      /\ n # Len(rest) => b # <<>>
  BY <1>1, SplitPiece
<1> HIDE DEF a, b
<1>4. file' = file \o a /\ file' \in Seq(Token)
  BY <1>2, <1>3 DEF a
<1>5. IsList(file) /\ IsList(a) /\ IsList(b) /\ IsList(after) /\ IsList(rest)
  BY <1>1, <1>3, SeqIsList
<1>6. CASE n = Len(rest)
  <2>1. pieces' = tail /\ a = rest
    BY <1>2, <1>3, <1>6
  <2>2. (file \o rest) \o after = file \o (rest \o after)
    <3>1. Associates(file, rest, after)
      BY <1>5, ConcatLists, Zenon
    <3> QED BY <3>1 DEF Associates
  <2>3. file' \o FlattenSeq(pieces') = file \o FlattenSeq(pieces)
    BY <1>1, <1>4, <2>1, <2>2 DEF after
  <2> QED BY <1>1, <1>4, <2>1, <2>3
<1>7. CASE n # Len(rest)
  <2>1. pieces' = <<b>> \o tail /\ b \in P
    BY <1>2, <1>3, <1>7 DEF b
  <2>2. pieces' \in Seq(P)
    <3> HIDE DEF P
    <3>1. <<b>> \in Seq(P)
      BY <2>1
    <3> QED BY <1>1, <2>1, <3>1
  <2>3. tail \in Seq(Seq(Token))
    <3>1. Seq(P) \subseteq Seq(Seq(Token))
      <4>1. P \subseteq Seq(Token)
        OBVIOUS
      <4> HIDE DEF P
      <4> QED BY <4>1
    <3> QED BY <1>1, <3>1
  <2>4. FlattenSeq(pieces') = b \o after
    BY <1>3, <2>1, <2>3, FlattenFirst DEF after
  <2>5. (file \o a) \o (b \o after) = file \o ((a \o b) \o after)
    <3>1. Regroups(file, a, b, after)
      BY <1>5, ConcatFour, Zenon
    <3> DEFINE fa == file \o a
    <3>2. IsList(fa)
      BY <1>5, ListsMade
    <3> HIDE DEF fa
    <3>3. Associates(fa, b, after)
      BY <1>5, <3>2, ConcatLists, Zenon
    <3> QED BY <3>1, <3>3 DEF Regroups, Associates, fa
  <2>6. file' \o FlattenSeq(pieces') = file \o FlattenSeq(pieces)
    BY <1>1, <1>3, <1>4, <2>4, <2>5
  <2> QED BY <1>4, <2>2, <2>6
<1> QED BY <1>6, <1>7

(* Who created a goroutine is a number.                                    *)
LEMMA ParentIsNumber ==
  ASSUME NEW t \in Token, t.kind = "created"
  PROVE  t.parent \in Nat
<1>1. CASE t \in [kind : {"created"}, parent : Nat]
  BY <1>1
<1>2. CASE t \notin [kind : {"created"}, parent : Nat]
  <2>1. \/ t \in {NewLine, Control, Long}
        \/ t \in [kind : {"header"}, id : Nat, state : STRING, duration : Nat,
                  labels : Seq(Label)]
        \/ t \in [kind : {"location"}, spec : Words]
        \/ t \in [kind : {"text"}, text : Words]
    BY <1>2 DEF Token
  <2>2. t.kind # "created"
    BY <2>1 DEF NewLine, Control, Long
  <2> QED BY <2>2
<1> QED BY <1>1, <1>2

(* What is left of a token is a token.                                     *)
LEMMA TornIsToken ==
  ASSUME NEW t \in Token
  PROVE  Torn(t) \subseteq Token
<1>1. t.kind = "created" => t.parent \in Nat
  BY ParentIsNumber
<1>2. Text("torn") \in Token /\ Location("torn") \in Token
  <2>1. "torn" \in Words
    BY DEF Words
  <2>2. /\ Text("torn") \in [kind : {"text"}, text : Words]
        /\ Location("torn") \in [kind : {"location"}, spec : Words]
    BY <2>1 DEF Text, Location
  <2> QED BY <2>2, Zenon DEF Token
<1>3. \A n \in Nat : CreatedBy(n) \in Token
  BY DEF Token, CreatedBy
<1>4. t.kind = "created" => \A n \in {t.parent \div 10} \ {0} : CreatedBy(n) \in Token
  <2> SUFFICES ASSUME t.kind = "created" PROVE CreatedBy(t.parent \div 10) \in Token
    OBVIOUS
  <2>1. t.parent \div 10 \in Nat
    BY <1>1
  <2> QED BY <1>3, <2>1
<1> HIDE DEF Token
<1> QED BY <1>2, <1>4 DEF Torn

(* What is left of a write that stopped is a text.                         *)
LEMMA StoppedIsText ==
  ASSUME file \in Seq(Token), pieces \in Seq(Seq(Token) \ {<<>>}), pieces # <<>>
  PROVE  Stopped \subseteq Seq(Token)
<1>1. Rest \in Seq(Token) /\ Rest # <<>>
  BY FirstPiece DEF Rest
<1>2. Rest[1] \in Token
  BY <1>1
<1>3. Torn(Rest[1]) \subseteq Token
  BY <1>2, TornIsToken
<1> DEFINE torn == Torn(Rest[1])
<1> HIDE DEF torn
<1>4. \A t \in torn : Append(file, t) \in Seq(Token)
  BY <1>3 DEF torn
<1> QED BY <1>4 DEF Stopped, torn

-----------------------------------------------------------------------------
(* The loader: a goroutine is whole from its header on.                    *)
LEMMA LinesAreTyped ==
  ASSUME NEW text \in Seq(Token)
  PROVE  Lines(text) \in Seq(Seq(Wording))
<1> DEFINE r == Read(text)
<1>1. r \in [lines : Seq(Seq(Token \ {NewLine})), line : Seq(Token \ {NewLine})]
  BY ReadOf
<1>2. r.lines \in Seq(Seq(Wording)) /\ r.line \in Seq(Wording)
  BY <1>1 DEF Wording, Wide
<1> HIDE DEF r
<1>3. Append(r.lines, r.line) \in Seq(Seq(Wording))
  BY <1>2
<1> QED BY <1>2, <1>3 DEF Lines, r

(* A line that the scanner has room for is plain once it is stripped.      *)
LEMMA CleanIsPlain ==
  ASSUME NEW line \in Seq(Wording), ~IsTooLong(line)
  PROVE  Clean(line) \in Seq(Plain)
<1>1. line \in Seq(Short)
  BY DEF IsTooLong, Short
<1>2. Clean(line) \in Seq(Shown(Short))
  BY <1>1, CleanIsShown
<1> QED BY <1>2 DEF Plain

(* NewGoroutineFromMatch makes a goroutine that is whole and open.         *)
LEMMA NewIsWhole ==
  ASSUME NEW line \in HeaderLine
  PROVE  IsWhole(NewGoroutine(line)) /\ ~NewGoroutine(line).isFrozen
<1> DEFINE g == NewGoroutine(line)
<1>1. /\ IsGoroutine(g) /\ ~g.isFrozen /\ g.buf = <<>>
      /\ g.lineCount = 1 /\ g.createdBy = 0
  BY NewIsGoroutine, Zenon
<1>2. g.header = line /\ g.hasher = <<>>
  BY DEF NewGoroutine
<1> HIDE DEF g
<1>3. Body(g) = <<>>
  BY <1>1 DEF Body
<1>4. /\ Body(g) \in Seq(TextLine) /\ g.lineCount = Len(Body(g)) + 1
      /\ IsParentIn(Body(g), g.createdBy)
  BY <1>1, <1>3 DEF IsParentIn
<1>5. g.hasher = Places(Body(g))
  <2>1. Places(<<>>) = <<>>
    <3>1. \A l \in {} : IsLocation(l) => l[1].spec \in {}
      OBVIOUS
    <3> QED BY <3>1, PlacesOf
  <2> QED BY <1>2, <1>3, <2>1
<1>6. g.header \in HeaderLine
  BY <1>2
<1>7. LET new == NewGoroutine(g.header)
      IN  /\ g.id = new.id /\ g.state = new.state
          /\ g.duration = new.duration /\ g.labels = new.labels
  BY <1>2 DEF g
<1> QED BY <1>1, <1>4, <1>5, <1>6, <1>7 DEF IsWhole, g

(* AddLine keeps it so.                                                    *)
LEMMA LongerIsWhole ==
  ASSUME NEW g, IsWhole(g), ~g.isFrozen, NEW line \in TextLine
  PROVE  IsWhole(AddLine(g, line)) /\ ~AddLine(g, line).isFrozen
<1> DEFINE h == AddLine(g, line)
<1>1. PICK W : g \in Goroutines(W)
  BY DEF IsWhole, IsGoroutine
<1>2. /\ IsGoroutine(h) /\ ~h.isFrozen /\ h.buf = Append(g.buf, line)
      /\ h.header = g.header /\ h.id = g.id /\ h.state = g.state
      /\ h.duration = g.duration /\ h.labels = g.labels
      /\ h.lineCount = g.lineCount + 1
      /\ h.createdBy = IF IsCreated(line) THEN ParentOn(line) ELSE g.createdBy
  BY <1>1, AddLineKeeps, Zenon
<1>3. h.hasher = IF IsLocation(line) THEN Append(g.hasher, line[1].spec) ELSE g.hasher
  BY <1>1 DEF AddLine, Goroutines
<1> HIDE DEF h
<1>4. Body(g) = g.buf /\ Body(h) = Append(g.buf, line)
  BY <1>2 DEF Body
<1>5. /\ g.buf \in Seq(TextLine) /\ g.lineCount = Len(g.buf) + 1
      /\ IsParentIn(g.buf, g.createdBy) /\ g.hasher = Places(g.buf)
  BY <1>4 DEF IsWhole
<1>6. Body(h) \in Seq(TextLine) /\ h.lineCount = Len(Body(h)) + 1
  BY <1>2, <1>4, <1>5
<1>7. IsParentIn(Body(h), h.createdBy)
  BY <1>2, <1>4, <1>5, ParentInLonger
<1>8. h.hasher = Places(Body(h))
  <2> DEFINE X == {l[1].spec : l \in TextLine}
  <2>1. \A l \in TextLine : IsLocation(l) => l[1].spec \in X
    OBVIOUS
  <2> HIDE DEF X
  <2>2. Places(Append(g.buf, line)) =
          IF IsLocation(line) THEN Append(Places(g.buf), line[1].spec)
          ELSE Places(g.buf)
    BY <1>5, <2>1, PlacesOf
  <2> QED BY <1>3, <1>4, <1>5, <2>2
<1>9. LET new == NewGoroutine(h.header)
      IN  /\ h.header \in HeaderLine
          /\ h.id = new.id /\ h.state = new.state
          /\ h.duration = new.duration /\ h.labels = new.labels
  BY <1>2 DEF IsWhole
<1> QED BY <1>2, <1>6, <1>7, <1>8, <1>9 DEF IsWhole, h

(* Freeze keeps it whole.                                                  *)
LEMMA FrozenIsWhole ==
  ASSUME NEW g, IsWhole(g), ~g.isFrozen
  PROVE  IsWhole(Freeze(g)) /\ Freeze(g).isFrozen
<1> DEFINE f == Freeze(g)
<1>1. PICK W : g \in Goroutines(W)
  BY DEF IsWhole, IsGoroutine
<1>2. /\ IsGoroutine(f) /\ f.isFrozen /\ f.buf = <<>> /\ f.trace = g.buf
      /\ f.header = g.header /\ f.id = g.id /\ f.state = g.state
      /\ f.duration = g.duration /\ f.labels = g.labels
      /\ f.createdBy = g.createdBy /\ f.lineCount = g.lineCount
  BY <1>1, FreezeKeeps, Zenon
<1>3. f.hash = g.hasher
  BY <1>1 DEF Freeze, Goroutines
<1> HIDE DEF f
<1>4. Body(f) = Body(g)
  BY <1>2 DEF Body
<1>5. f.hash = Places(Body(f))
  BY <1>3, <1>4 DEF IsWhole
<1> QED BY <1>2, <1>4, <1>5 DEF IsWhole, f

(* With its last goroutine frozen, a dump is frozen.                       *)
LEMMA FrozenCurrentIsWhole ==
  ASSUME NEW gs, IsDump(gs), NEW i, OnlyOpen(gs, i), AreWhole(gs)
  PROVE  /\ AreWhole(FreezeCurrent(gs, i))
         /\ \A j \in DOMAIN FreezeCurrent(gs, i) : FreezeCurrent(gs, i)[j].isFrozen
<1>1. CASE i = 0
  <2>1. FreezeCurrent(gs, i) = gs
    BY <1>1 DEF FreezeCurrent
  <2>2. \A j \in DOMAIN gs : j # 0
    BY InDump
  <2> QED BY <1>1, <2>1, <2>2, Zenon DEF OnlyOpen
<1>2. CASE i # 0
  <2>1. i \in DOMAIN gs /\ ~gs[i].isFrozen
    BY <1>2, OpenIsIn
  <2> DEFINE f == Freeze(gs[i])
  <2>2. IsWhole(f) /\ f.isFrozen
    BY <2>1, FrozenIsWhole, Zenon DEF AreWhole
  <2>3. FreezeCurrent(gs, i) = [gs EXCEPT ![i] = f]
    BY <1>2 DEF FreezeCurrent
  <2> HIDE DEF f
  <2> DEFINE hs == [gs EXCEPT ![i] = f]
  <2>4. /\ DOMAIN hs = DOMAIN gs /\ hs[i] = f
        /\ \A j \in DOMAIN gs : j # i => hs[j] = gs[j]
    BY <2>1
  <2> HIDE DEF hs
  <2>5. \A j \in DOMAIN hs : hs[j].isFrozen
    BY <2>2, <2>4, Zenon DEF OnlyOpen
  <2>6. AreWhole(hs)
    BY <2>2, <2>4, Zenon DEF AreWhole
  <2> QED BY <2>3, <2>5, <2>6 DEF hs
<1> QED BY <1>1, <1>2

(* A dump stays whole when a whole goroutine is added.                     *)
LEMMA AppendedIsWhole ==
  ASSUME NEW gs, IsDump(gs), AreWhole(gs), NEW g, IsWhole(g)
  PROVE  AreWhole(Append(gs, g))
<1> DEFINE hs == Append(gs, g)
<1>1. /\ IsDump(hs) /\ Len(gs) \in Nat /\ Len(hs) = Len(gs) + 1
      /\ \A i \in 1..Len(gs) : hs[i] = gs[i]
      /\ hs[Len(gs) + 1] = g
  BY DumpWith DEF IsWhole
<1> HIDE DEF hs
<1>2. /\ DOMAIN gs = 1..Len(gs)
      /\ \A i \in DOMAIN hs : i \in DOMAIN gs \/ i = Len(gs) + 1
  BY <1>1, InDump
<1>3. AreWhole(hs)
  BY <1>1, <1>2, Zenon DEF AreWhole
<1> QED BY <1>3 DEF hs

-----------------------------------------------------------------------------
(* TextsInv is inductive, with LoadInv.                                    *)
LEMMA EmptyIsWhole ==
  /\ AreWhole(<<>>) /\ \A i \in DOMAIN <<>> : <<>>[i].isFrozen
  /\ <<>> \in Seq(Seq(Wording)) /\ Len(<<>>) = 0
BY DEF AreWhole

(* Nothing is read or written at first.                                    *)
LEMMA TextsInit == ArchiveInit => TextsInv
<1> SUFFICES ASSUME ArchiveInit PROVE TextsInv
  OBVIOUS
<1>1. file \in Seq(Token)
  BY ArchiveAssumption DEF ArchiveInit
<1>2. /\ loading = "none" /\ input = <<>> /\ scanned = 0 /\ dump = <<>>
  BY DEF ArchiveInit, LoaderInit
<1> QED BY <1>1, <1>2, EmptyIsWhole DEF TextsInv

(* load starts over, with another text.                                    *)
LEMMA TextsLoad ==
  ASSUME TextsInv, NEW lines \in Seq(Seq(Wording)), LoadFrom(lines), file' \in Seq(Token)
  PROVE  TextsInv'
<1>1. /\ loading' = "scanning" /\ input' = lines /\ scanned' = 0 /\ dump' = <<>>
  BY DEF LoadFrom
<1>2. 0 \in 0..Len(lines)
  OBVIOUS
<1> QED BY <1>1, <1>2, EmptyIsWhole DEF TextsInv

(* A load that fails leaves an error and no dump.                          *)
LEMMA TextsFail ==
  ASSUME TextsInv, FailToLoad, file' = file
  PROVE  TextsInv'
<1>1. /\ loading' = "failed" /\ input' = input /\ scanned' = scanned /\ dump' = <<>>
  BY DEF FailToLoad
<1> QED BY <1>1, EmptyIsWhole DEF TextsInv

(* The line that the scanner is on, once it is stripped.                   *)
LEMMA ScannedLine ==
  ASSUME TextsInv, Scans, ~IsTooLong(input[scanned + 1])
  PROVE  /\ Line \in Seq(Plain) /\ Line = LineOf(input, scanned + 1)
         /\ scanned + 1 \in 0..Len(input)
<1>1. input \in Seq(Seq(Wording)) /\ scanned \in 0..Len(input)
  BY DEF TextsInv
<1>2. scanned + 1 \in 1..Len(input)
  BY <1>1 DEF Scans
<1>3. input[scanned + 1] \in Seq(Wording)
  BY <1>1, <1>2
<1> QED BY <1>2, <1>3, CleanIsPlain DEF Line, LineOf

(* Each step of loadFrom keeps the dump whole, and with the lines it was   *)
(* read from.                                                              *)
LEMMA TextsScan ==
  ASSUME TextsInv, LoadInv, Scan, file' = file
  PROVE  TextsInv'
<1>1. CASE ScanTooLong \/ ScanHeaderOutOfRange \/ ScanLineOutOfRange
  BY <1>1, TextsFail DEF ScanTooLong, ScanHeaderOutOfRange, ScanLineOutOfRange
<1>2. IsDump(dump) /\ OnlyOpen(dump, goroutine) /\ AreWhole(dump)
  BY DEF LoadInv, TextsInv
<1> DEFINE gs == FreezeCurrent(dump, goroutine)
<1>3. IsDump(gs) /\ AreWhole(gs) /\ \A i \in DOMAIN gs : gs[i].isFrozen
  <2>1. IsDump(gs)
    BY <1>2, FrozenCurrent, Zenon
  <2> QED BY <1>2, <2>1, FrozenCurrentIsWhole, Zenon
<1> HIDE DEF gs
<1>4. ASSUME NextLine, loading = "scanning", scanned + 1 \in 0..Len(input),
             AreWhole(dump')
      PROVE  TextsInv'
  BY <1>4 DEF NextLine, TextsInv
<1>5. CASE ScanHeader
  <2>1. /\ Scans /\ ~IsTooLong(input[scanned + 1]) /\ IsHeader(Line)
        /\ HeaderInRange(Line) /\ NextLine /\ loading = "scanning"
        /\ dump' = Append(gs, NewGoroutine(Line))
    BY <1>5 DEF ScanHeader, Scans, gs
  <2>2. Line \in HeaderLine /\ scanned + 1 \in 0..Len(input)
    BY <2>1, ScannedLine DEF HeaderLine
  <2>3. AreWhole(dump')
    BY <1>3, <2>1, <2>2, NewIsWhole, AppendedIsWhole, Zenon
  <2> QED BY <1>4, <2>1, <2>2, <2>3
<1>6. CASE ScanBlank
  <2>1. /\ Scans /\ ~IsTooLong(input[scanned + 1])
        /\ NextLine /\ loading = "scanning" /\ dump' = gs
    BY <1>6 DEF ScanBlank, Scans, gs
  <2>2. scanned + 1 \in 0..Len(input)
    BY <2>1, ScannedLine
  <2> QED BY <1>3, <1>4, <2>1, <2>2
<1>7. CASE ScanLine
  <2>1. /\ Scans /\ ~IsTooLong(input[scanned + 1]) /\ IsText(Line)
        /\ LineInRange(Line) /\ NextLine /\ loading = "scanning" /\ goroutine # 0
        /\ dump' = [dump EXCEPT ![goroutine] = AddLine(dump[goroutine], Line)]
    BY <1>7 DEF ScanLine, Scans
  <2>2. Line \in TextLine /\ scanned + 1 \in 0..Len(input)
    BY <2>1, ScannedLine DEF TextLine
  <2>3. goroutine \in DOMAIN dump /\ ~dump[goroutine].isFrozen
    BY <1>2, <2>1, OpenIsIn
  <2> DEFINE h == AddLine(dump[goroutine], Line)
  <2>4. IsWhole(h)
    BY <1>2, <2>2, <2>3, LongerIsWhole, Zenon DEF AreWhole
  <2> HIDE DEF h
  <2>5. dump' = [dump EXCEPT ![goroutine] = h]
    BY <2>1 DEF h
  <2>6. /\ DOMAIN dump' = DOMAIN dump /\ dump'[goroutine] = h
        /\ \A i \in DOMAIN dump : i # goroutine => dump'[i] = dump[i]
    BY <2>3, <2>5
  <2>7. AreWhole(dump')
    BY <1>2, <2>4, <2>6, Zenon DEF AreWhole
  <2> QED BY <1>4, <2>1, <2>2, <2>7
<1>8. CASE ScanStrayLine
  <2>1. /\ Scans /\ ~IsTooLong(input[scanned + 1])
        /\ NextLine /\ loading = "scanning" /\ dump' = dump
    BY <1>8 DEF ScanStrayLine, Scans
  <2>2. scanned + 1 \in 0..Len(input)
    BY <2>1, ScannedLine
  <2> QED BY <1>2, <1>4, <2>1, <2>2
<1>9. CASE EndOfText
  <2>1. /\ loading' = "loaded" /\ scanned = Len(input) /\ dump' = gs
        /\ input' = input /\ scanned' = scanned
    BY <1>9 DEF EndOfText, gs
  <2> QED BY <1>3, <2>1 DEF TextsInv
<1> QED BY <1>1, <1>5, <1>6, <1>7, <1>8, <1>9 DEF Scan

(* What a step of the writer makes of the file.                            *)
LEMMA FileWritten ==
  ASSUME file \in Seq(Token), pieces \in Seq(Seq(Token) \ {<<>>}),
         Write \/ DieWriting
  PROVE  file' \in Seq(Token)
<1>1. CASE WriteSome
  BY <1>1, WriteSomeKeeps
<1>2. CASE WriteFails
  <2>1. pieces # <<>> /\ file' \in Stopped
    BY <1>2 DEF WriteFails, Writing
  <2> QED BY <2>1, StoppedIsText
<1>3. CASE Sync
  BY <1>3 DEF Sync
<1>4. CASE DieWriting
  <2>1. CASE pieces = <<>>
    BY <1>4, <2>1 DEF DieWriting
  <2>2. CASE pieces # <<>>
    BY <1>4, <2>2, StoppedIsText DEF DieWriting
  <2> QED BY <2>1, <2>2
<1> QED BY <1>1, <1>2, <1>3, <1>4 DEF Write

(* Each step of the archive keeps TextsInv: one step per action of Next.   *)
LEMMA TextsNext ==
  ASSUME TextsInv, LoadInv, WriterInv, [Next]_archiveVars
  PROVE  TextsInv'
<1>1. ASSUME UNCHANGED loaderVars, file' \in Seq(Token) PROVE TextsInv'
  BY <1>1 DEF loaderVars, TextsInv
<1>2. file \in Seq(Token) /\ pieces \in Seq(Seq(Token) \ {<<>>})
  BY DEF TextsInv, WriterInv
<1>3. CASE Load
  <2>1. LoadFrom(Lines(file)) /\ file' = file
    BY <1>3 DEF Load, saverVars
  <2> QED BY <1>2, <2>1, LinesAreTyped, TextsLoad
<1>4. CASE ScanFile
  BY <1>4, TextsScan DEF ScanFile, saverVars
<1>5. CASE SaveDump \/ ExportDump
  <2>1. file' \in {file, <<>>} /\ UNCHANGED loaderVars
    BY <1>5 DEF SaveDump, ExportDump, Save, Export, Create
  <2>2. <<>> \in Seq(Token)
    OBVIOUS
  <2> QED BY <1>1, <1>2, <2>1, <2>2
<1>6. CASE WriteFile
  BY <1>1, <1>2, <1>6, FileWritten DEF WriteFile
<1>7. CASE Crash
  <2>1. /\ file' \in Seq(Token) /\ loading' = "none" /\ dump' = <<>>
        /\ input' = input /\ scanned' = scanned
    BY <1>2, <1>7, FileWritten DEF Crash
  <2> QED BY <2>1, EmptyIsWhole DEF TextsInv
<1>8. CASE UNCHANGED archiveVars
  BY <1>1, <1>2, <1>8 DEF archiveVars, saverVars
<1> QED BY <1>3, <1>4, <1>5, <1>6, <1>7, <1>8 DEF Next

-----------------------------------------------------------------------------
(* WriterInv is inductive, with TextsInv.                                  *)
LEMMA WriterInit == ArchiveInit => WriterInv
<1>1. <<>> \in Seq(Seq(Token) \ {<<>>}) /\ 0 \in 0..MaxFailures
  BY SaverAssumption
<1> QED BY <1>1 DEF ArchiveInit, SaverInit, WriterInv

(* Save and toJSON start with everything still to be written.              *)
LEMMA WriterCreate ==
  ASSUME WriterInv, NEW writes \in Seq(Seq(Token) \ {<<>>}), NEW looks,
         Create(writes, looks)
  PROVE  WriterInv'
<1>1. CASE saving' = "failed" /\ UNCHANGED <<file, pieces, checked, meant, failures>>
  BY <1>1 DEF WriterInv
<1>2. CASE /\ saving' = "writing" /\ file' = <<>> /\ pieces' = writes
           /\ checked' = looks /\ meant' = FlattenSeq(writes) /\ failures' = 0
  <2>1. Seq(Seq(Token) \ {<<>>}) \subseteq Seq(Seq(Token))
    <3> DEFINE P == Seq(Token) \ {<<>>}
    <3>1. P \subseteq Seq(Token)
      OBVIOUS
    <3> HIDE DEF P
    <3>2. Seq(P) \subseteq Seq(Seq(Token))
      BY <3>1
    <3> QED BY <3>2 DEF P
  <2>2. FlattenSeq(writes) \in Seq(Token)
    BY <2>1, FlattenProperties
  <2>3. <<>> \o FlattenSeq(writes) = FlattenSeq(writes)
    BY <2>2
  <2>4. 0 \in 0..MaxFailures
    BY SaverAssumption
  <2> QED BY <1>2, <2>3, <2>4 DEF WriterInv
<1> QED BY <1>1, <1>2 DEF Create

(* Each step of the archive keeps WriterInv.                               *)
LEMMA WriterNext ==
  ASSUME WriterInv, TextsInv, LoadInv, [Next]_archiveVars
  PROVE  WriterInv'
<1>1. file \in Seq(Token) /\ pieces \in Seq(Seq(Token) \ {<<>>})
  BY DEF TextsInv, WriterInv
<1>2. CASE UNCHANGED saverVars
  BY <1>2 DEF saverVars, WriterInv
<1>3. CASE SaveDump
  <2>1. Create(Prints(dump), FALSE)
    BY <1>3 DEF SaveDump, Save
  <2>2. IsDump(dump) /\ AreWhole(dump) /\ \A i \in DOMAIN dump : dump[i].isFrozen
    BY <1>3 DEF SaveDump, LoadInv, TextsInv
  <2>3. Prints(dump) \in Seq(Seq(Token) \ {<<>>})
    BY <2>2, DumpElements, PrintsIsTyped
  <2> QED BY <2>1, <2>3, WriterCreate
<1>4. CASE ExportDump
  <2>1. PICK text \in Exports : Create(<<text, <<NewLine>>>>, TRUE)
    BY <1>4 DEF ExportDump, Export
  <2>2. text \in Seq(Token) \ {<<>>} /\ <<NewLine>> \in Seq(Token) \ {<<>>}
    BY SaverAssumption, PlainTokens
  <2>3. <<text, <<NewLine>>>> \in Seq(Seq(Token) \ {<<>>})
    <3> DEFINE P == Seq(Token) \ {<<>>}
               n == <<NewLine>>
    <3>1. text \in P /\ n \in P
      BY <2>2
    <3> HIDE DEF P, n
    <3>2. <<text, n>> \in Seq(P)
      BY <3>1
    <3> QED BY <3>2 DEF P, n
  <2> QED BY <2>1, <2>3, WriterCreate
<1>5. CASE WriteSome
  <2>1. /\ pieces' \in Seq(Seq(Token) \ {<<>>})
        /\ file' \o FlattenSeq(pieces') = file \o FlattenSeq(pieces)
    BY <1>1, <1>5, WriteSomeKeeps
  <2>2. saving = "writing" /\ UNCHANGED <<saving, checked, meant, failures>>
    BY <1>5 DEF WriteSome, Writing
  <2> QED BY <2>1, <2>2 DEF WriterInv
<1>6. CASE WriteFails
  <2>1. /\ saving = "writing" /\ failures < MaxFailures /\ failures' = failures + 1
        /\ pieces' = IF checked THEN <<>> ELSE Tail(pieces)
        /\ saving' = IF checked THEN "failed" ELSE "writing"
        /\ checked' = checked /\ meant' = meant /\ pieces # <<>>
    BY <1>6 DEF WriteFails, Writing
  <2>2. pieces' \in Seq(Seq(Token) \ {<<>>})
    <3> DEFINE P == Seq(Token) \ {<<>>}
    <3>1. pieces \in Seq(P)
      BY <1>1
    <3> HIDE DEF P
    <3>2. pieces' \in Seq(P)
      BY <2>1, <3>1
    <3> QED BY <3>2 DEF P
  <2>3. failures' \in 0..MaxFailures /\ failures' # 0
    BY <2>1, SaverAssumption DEF WriterInv
  <2>4. saving' = "writing" => ~checked'
    BY <2>1
  <2>5. saving' \in {"writing", "failed"}
    BY <2>1
  <2> QED BY <2>2, <2>3, <2>4, <2>5 DEF WriterInv
<1>7. CASE Sync
  <2>1. /\ saving = "writing" /\ pieces = <<>> /\ saving' \in {"saved", "failed"}
        /\ UNCHANGED <<file, pieces, checked, meant, failures>>
    BY <1>7 DEF Sync
  <2>2. file \o FlattenSeq(<<>>) = file
    <3>1. FlattenSeq(<<>>) = <<>>
      BY FlattenProperties
    <3> QED BY <1>1, <3>1
  <2> QED BY <2>1, <2>2 DEF WriterInv
<1>8. CASE DieWriting
  <2>1. /\ saving' = "crashed" /\ pieces' = <<>> /\ failures' = failures
    BY <1>8 DEF DieWriting
  <2>2. <<>> \in Seq(Seq(Token) \ {<<>>})
    OBVIOUS
  <2> QED BY <2>1, <2>2 DEF WriterInv
<1> QED BY <1>2, <1>3, <1>4, <1>5, <1>6, <1>7, <1>8
        DEF Next, Load, ScanFile, WriteFile, Write, Crash, archiveVars

(* What is read and written, for every text and every way to write it.     *)
FileInv == LoadInv /\ OneAtATime /\ TextsInv /\ WriterInv

(* FileInv holds on every run.                                             *)
LEMMA FileInvariant == Spec => []FileInv
<1>1. ArchiveInit => TextsInv /\ WriterInv
  BY TextsInit, WriterInit
<1>2. TextsInv /\ WriterInv /\ LoadInv /\ [Next]_archiveVars => TextsInv' /\ WriterInv'
  BY TextsNext, WriterNext
<1> QED BY <1>1, <1>2, LoadInvariant, OneAtATimeInvariant, PTL DEF Spec, FileInv

-----------------------------------------------------------------------------
(* Whatever the disk does, a call that returns nil has written the whole   *)
(* text, unless a write failed and Print dropped its error.                *)
THEOREM WritesTheText == Spec => []SavedUnlessDropped
<1>1. FileInv => SavedUnlessDropped
  BY DEF FileInv, WriterInv, SavedUnlessDropped
<1> QED BY <1>1, FileInvariant, PTL

(* Whatever the text, what loadFrom returns is frozen, with the hash of    *)
(* the locations in its trace.                                             *)
THEOREM ReturnsFrozen == Spec => []ReturnedIsFrozen
<1>1. FileInv => ReturnedIsFrozen
  <2> SUFFICES ASSUME FileInv, loading = "loaded", NEW i \in DOMAIN dump
               PROVE  /\ dump[i].isFrozen /\ dump[i].buf = <<>>
                      /\ dump[i].hash = Places(dump[i].trace)
    BY DEF ReturnedIsFrozen
  <2>1. IsWhole(dump[i]) /\ dump[i].isFrozen
    BY Zenon DEF FileInv, TextsInv, AreWhole
  <2> QED BY <2>1 DEF IsWhole, Body
<1> QED BY <1>1, FileInvariant, PTL

(* The variables of the loader and of the writer have their types.         *)
THEOREM ArchiveTypes == Spec => []TypeOK
<1>1. FileInv => TypeOK
  <2> SUFFICES ASSUME FileInv PROVE TypeOK
    OBVIOUS
  <2>1. /\ loading \in {"none", "scanning", "loaded", "failed"}
        /\ saving \in {"none", "writing", "saved", "failed", "crashed"}
        /\ scanned \in 0..Len(input) /\ failures \in 0..MaxFailures
    BY DEF FileInv, TextsInv, WriterInv
  <2>2. goroutine \in 0..Len(dump)
    <3>1. goroutine \in {0, Len(dump)} /\ Len(dump) \in Nat
      BY InDump DEF FileInv, LoadInv, OnlyOpen
    <3> QED BY <3>1
  <2>3. \A i \in DOMAIN pieces : pieces[i] # <<>>
    BY DEF FileInv, WriterInv
  <2> QED BY <2>1, <2>2, <2>3 DEF TypeOK
<1> QED BY <1>1, FileInvariant, PTL

-----------------------------------------------------------------------------
(* The text of a dump reads as the dump.                                   *)

(* Lines that the loader does not fail on.                                 *)
Takes(text) ==
  \A n \in DOMAIN text :
    /\ ~IsTooLong(text[n])
    /\ IsHeader(LineOf(text, n)) => HeaderInRange(LineOf(text, n))
    /\ IsText(LineOf(text, n)) => LineInRange(LineOf(text, n))

(* A plain line is scanned as it is.                                       *)
LEMMA PlainLine ==
  ASSUME NEW line \in Seq(Plain)
  PROVE  Clean(line) = line /\ ~IsTooLong(line) /\ line \in Seq(Wording)
<1>1. line \in Seq(Shown(Plain))
  BY PlainTokens DEF Shown
<1>2. Clean(line) = line
  BY <1>1, CleanStays
<1>3. ~IsTooLong(line)
  BY PlainTokens DEF IsTooLong
<1> QED BY <1>2, <1>3, PlainLines

(* The lines of one more goroutine: its header, its trace and a blank one. *)
LEMMA SectionAdded ==
  ASSUME NEW text \in Seq(Seq(Wording)),
         NEW header \in HeaderLine, NEW trace \in Seq(TextLine)
  PROVE  LET more == Append(Append(text, header) \o trace, <<>>)
             m == Len(text)
             k == Len(trace)
         IN  /\ more \in Seq(Seq(Wording))
             /\ Len(more) = m + k + 2 /\ m \in Nat /\ k \in Nat
             /\ \A n \in 1..m : more[n] = text[n]
             /\ more[m + 1] = header
             /\ \A j \in 1..k : more[m + 1 + j] = trace[j]
             /\ more[m + k + 2] = <<>>
<1> DEFINE first == Append(text, header)
           m == Len(text)
           k == Len(trace)
<1>1. m \in Nat /\ k \in Nat
  OBVIOUS
<1>2. /\ first \in Seq(Seq(Wording)) /\ Len(first) = m + 1 /\ first[m + 1] = header
      /\ \A n \in 1..m : first[n] = text[n]
  <2>1. header \in Seq(Wording)
    BY PlainLines
  <2> QED BY <2>1
<1>3. trace \in Seq(Seq(Wording))
  BY PlainLines
<1> HIDE DEF first, m, k
<1> DEFINE second == first \o trace
<1>4. /\ second \in Seq(Seq(Wording)) /\ Len(second) = m + 1 + k
      /\ \A n \in 1..(m + 1) : second[n] = first[n]
      /\ \A j \in 1..k : second[m + 1 + j] = trace[j]
  <2>1. Len(trace) = k
    BY DEF k
  <2> DEFINE L == Seq(Wording)
  <2>2. first \in Seq(L) /\ trace \in Seq(L)
    BY <1>2, <1>3
  <2> HIDE DEF L
  <2>3. /\ second \in Seq(L) /\ Len(second) = Len(first) + Len(trace)
        /\ \A i \in 1..(Len(first) + Len(trace)) :
             second[i] = IF i <= Len(first) THEN first[i] ELSE trace[i - Len(first)]
    BY <2>2, ConcatProperties DEF second
  <2> HIDE DEF second
  <2>4. second \in Seq(Seq(Wording)) /\ Len(second) = m + 1 + k
    BY <1>2, <2>1, <2>3 DEF L
  <2>5. \A n \in 1..(m + 1) : second[n] = first[n]
    BY <1>1, <1>2, <2>1, <2>3
  <2>6. ASSUME NEW j \in 1..k PROVE second[m + 1 + j] = trace[j]
    <3>1. m + 1 + j \in 1..(m + 1 + k) /\ ~(m + 1 + j <= m + 1)
      BY <1>1
    <3>2. second[m + 1 + j] = trace[(m + 1 + j) - (m + 1)]
      BY <1>1, <1>2, <2>1, <2>3, <3>1
    <3> QED BY <1>1, <3>2
  <2> QED BY <2>4, <2>5, <2>6
<1> HIDE DEF second
<1> DEFINE more == Append(second, <<>>)
<1>5. /\ more \in Seq(Seq(Wording)) /\ Len(more) = m + k + 2
      /\ \A n \in 1..(m + 1 + k) : more[n] = second[n]
      /\ more[m + k + 2] = <<>>
  BY <1>1, <1>4
<1> HIDE DEF more
<1>6. \A n \in 1..m : more[n] = text[n]
  BY <1>1, <1>2, <1>4, <1>5
<1>7. more[m + 1] = header
  BY <1>1, <1>2, <1>4, <1>5
<1>8. ASSUME NEW j \in 1..k PROVE more[m + 1 + j] = trace[j]
  <2>1. m + 1 + j \in 1..(m + 1 + k)
    BY <1>1
  <2> QED BY <1>4, <1>5, <2>1
<1> QED BY <1>1, <1>5, <1>6, <1>7, <1>8 DEF more, second, first, m, k

(* A goroutine that Save has written is a section of the text it is in.    *)
LEMMA WholeIsSection ==
  ASSUME NEW g, IsWhole(g), g.isFrozen, NEW text, NEW n \in Nat,
         text[n] = g.header,
         \A j \in 1..Len(g.trace) : text[n + j] = g.trace[j]
  PROVE  IsSection(g, text, n)
<1>1. /\ g.header \in HeaderLine /\ g.trace \in Seq(TextLine) /\ Body(g) = g.trace
  BY WholeIsPrinted
<1>2. LineOf(text, n) = g.header /\ IsHeader(g.header) /\ HeaderInRange(g.header)
  BY <1>1, PlainLine, PlainLines DEF LineOf, HeaderLine
<1>3. \A j \in DOMAIN g.trace :
        g.trace[j] = LineOf(text, n + j) /\ IsText(LineOf(text, n + j))
  <2> TAKE j \in DOMAIN g.trace
  <2>1. g.trace[j] \in TextLine /\ j \in 1..Len(g.trace)
    BY <1>1
  <2>2. Clean(g.trace[j]) = g.trace[j] /\ IsText(g.trace[j])
    BY <2>1, PlainLine, PlainLines DEF TextLine
  <2>3. LineOf(text, n + j) = g.trace[j]
    BY <2>1, <2>2 DEF LineOf
  <2> QED BY <2>2, <2>3
<1> DEFINE new == NewGoroutine(g.header)
<1>4. /\ g.id = new.id /\ g.state = new.state /\ g.duration = new.duration
      /\ g.labels = new.labels /\ g.lineCount = Len(Body(g)) + 1
      /\ IsParentIn(Body(g), g.createdBy)
  BY DEF IsWhole
<1>5. g.header = new.header
  BY DEF NewGoroutine
<1>6. \A j \in DOMAIN Body(g) :
        Body(g)[j] = LineOf(text, n + j) /\ IsText(LineOf(text, n + j))
  BY <1>1, <1>3
<1>7. new = NewGoroutine(LineOf(text, n))
  BY <1>2
<1> HIDE DEF new
<1> QED BY <1>2, <1>4, <1>5, <1>6, <1>7, Zenon DEF IsSection

(* Goroutine g is written from line n on: its header, its trace, and a     *)
(* blank line.                                                             *)
IsWrittenAt(g, text, n) ==
  /\ n + Len(g.trace) + 1 <= Len(text)
  /\ text[n] = g.header
  /\ \A j \in 1..Len(g.trace) : text[n + j] = g.trace[j]
  /\ text[n + Len(g.trace) + 1] = <<>>

(* The text is that of the goroutines gs, one after the other, and of      *)
(* nothing else; at tells the lines of the headers.                        *)
IsTextOf(text, gs, at) ==
  /\ at \in [DOMAIN gs -> 1..Len(text)]
  /\ \A i, j \in DOMAIN gs : i < j => at[i] < at[j]
  /\ \A i \in DOMAIN gs : IsWrittenAt(gs[i], text, at[i])
  /\ \A n \in 1..Len(text) :
       \/ text[n] = <<>>
       \/ \E i \in DOMAIN gs : at[i] <= n /\ n <= at[i] + Len(gs[i].trace)

(* A blank line is scanned as one.                                         *)
LEMMA BlankLine == Clean(<<>>) = <<>> /\ ~IsTooLong(<<>>)
<1>1. <<>> \in Seq(Plain)
  OBVIOUS
<1> QED BY <1>1, PlainLine

(* The text with goroutine g after it.                                     *)
IsLongerBy(more, text, g) ==
  /\ Len(more) = Len(text) + Len(g.trace) + 2
  /\ \A n \in 1..Len(text) : more[n] = text[n]
  /\ IsWrittenAt(g, more, Len(text) + 1)

(* What the loader makes of the lines of a goroutine.                      *)
LEMMA WrittenLines ==
  ASSUME NEW g, IsWhole(g), g.isFrozen, NEW text, NEW n, IsWrittenAt(g, text, n)
  PROVE  /\ Len(g.trace) \in Nat
         /\ LineOf(text, n) = g.header /\ IsHeader(g.header) /\ HeaderInRange(g.header)
         /\ ~IsTooLong(text[n])
         /\ \A j \in 1..Len(g.trace) :
              /\ LineOf(text, n + j) = g.trace[j] /\ ~IsTooLong(text[n + j])
              /\ IsText(g.trace[j]) /\ LineInRange(g.trace[j])
         /\ LineOf(text, n + Len(g.trace) + 1) = <<>>
<1>1. g.header \in HeaderLine /\ g.trace \in Seq(TextLine)
  BY WholeIsPrinted
<1>2. /\ LineOf(text, n) = g.header /\ ~IsTooLong(text[n])
      /\ IsHeader(g.header) /\ HeaderInRange(g.header)
  BY <1>1, PlainLine, PlainLines DEF LineOf, HeaderLine, IsWrittenAt
<1>3. ASSUME NEW j \in 1..Len(g.trace)
      PROVE  /\ LineOf(text, n + j) = g.trace[j] /\ ~IsTooLong(text[n + j])
             /\ IsText(g.trace[j]) /\ LineInRange(g.trace[j])
  <2>1. g.trace[j] \in TextLine /\ text[n + j] = g.trace[j]
    BY <1>1 DEF IsWrittenAt
  <2> QED BY <2>1, PlainLine, PlainLines DEF LineOf, TextLine
<1>4. LineOf(text, n + Len(g.trace) + 1) = <<>>
  BY BlankLine DEF LineOf, IsWrittenAt
<1> QED BY <1>1, <1>2, <1>3, <1>4

(* The text of the goroutines of a dump has these as its sections, and     *)
(* nothing in it that the loader fails on.                                 *)
LEMMA TextReads ==
  ASSUME NEW gs, IsPrintable(gs), NEW text \in Seq(Seq(Wording)),
         NEW at, IsTextOf(text, gs, at)
  PROVE  Takes(text) /\ Reading(gs, 0, text, Len(text))
<1> DEFINE m == Len(text)
           b(i) == at[i] + Len(gs[i].trace) + 1
<1>1. m \in Nat /\ DOMAIN text = 1..m
  OBVIOUS
<1>2. \A i \in DOMAIN gs : i # 0 /\ IsWhole(gs[i]) /\ gs[i].isFrozen
  BY InDump DEF IsPrintable, AreWhole
<1>3. \A i \in DOMAIN gs :
        /\ at[i] \in 1..m /\ IsWrittenAt(gs[i], text, at[i])
        /\ Len(gs[i].trace) \in Nat /\ b(i) <= m
  BY <1>2, WrittenLines DEF IsTextOf, IsWrittenAt
<1> HIDE DEF m
(* A line is blank, or one of a goroutine.                                 *)
<1>4. ASSUME NEW n \in 1..m, text[n] # <<>>
      PROVE  \E i \in DOMAIN gs :
               n = at[i] \/ \E j \in 1..Len(gs[i].trace) : n = at[i] + j
  <2>1. PICK i \in DOMAIN gs : at[i] <= n /\ n <= at[i] + Len(gs[i].trace)
    BY <1>4 DEF IsTextOf, m
  <2>2. CASE n # at[i]
    <3>1. n - at[i] \in 1..Len(gs[i].trace) /\ n = at[i] + (n - at[i])
      BY <1>1, <1>3, <2>1, <2>2
    <3> QED BY <3>1
  <2> QED BY <2>2
<1>5. ASSUME NEW n \in 1..m, text[n] = <<>>
      PROVE  LineOf(text, n) = <<>> /\ ~IsTooLong(text[n])
  BY <1>5, BlankLine DEF LineOf
<1>6. ~IsText(<<>>) /\ ~IsHeader(<<>>) /\ \A line : IsText(line) => ~IsHeader(line)
  BY DEF IsText, IsHeader
<1>7. ASSUME NEW n \in 1..m
      PROVE  /\ ~IsTooLong(text[n])
             /\ IsHeader(LineOf(text, n)) => HeaderInRange(LineOf(text, n))
             /\ IsText(LineOf(text, n)) => LineInRange(LineOf(text, n))
             /\ IsHeader(LineOf(text, n)) => \E i \in DOMAIN gs : at[i] = n
  <2>1. CASE text[n] = <<>>
    BY <1>5, <1>6, <2>1
  <2>2. CASE \E i \in DOMAIN gs : n = at[i]
    BY <1>2, <1>3, <1>6, <2>2, WrittenLines
  <2>3. CASE \E i \in DOMAIN gs : \E j \in 1..Len(gs[i].trace) : n = at[i] + j
    BY <1>2, <1>3, <1>6, <2>3, WrittenLines
  <2> QED BY <1>4, <2>1, <2>2, <2>3
<1>8. Takes(text)
  BY <1>1, <1>7 DEF Takes
<1>9. ASSUME NEW i \in DOMAIN gs
      PROVE  /\ IsSection(gs[i], text, at[i])
             /\ AfterBody(gs[i], at[i]) = b(i) /\ ~IsText(LineOf(text, b(i)))
  <2>1. /\ IsWhole(gs[i]) /\ gs[i].isFrozen /\ IsWrittenAt(gs[i], text, at[i])
        /\ at[i] \in Nat
    BY <1>1, <1>2, <1>3
  <2>2. IsSection(gs[i], text, at[i])
    BY <2>1, WholeIsSection DEF IsWrittenAt
  <2>3. Body(gs[i]) = gs[i].trace
    BY <2>1, WholeIsPrinted
  <2>4. LineOf(text, b(i)) = <<>>
    BY <2>1, WrittenLines
  <2> QED BY <1>6, <2>2, <2>3, <2>4 DEF AfterBody
<1>10. AreSections(gs, at, text, m)
  <2>1. \A i, j \in DOMAIN gs : i < j => at[i] < at[j]
    BY DEF IsTextOf
  <2>2. ASSUME NEW i \in DOMAIN gs
        PROVE  /\ AfterBody(gs[i], at[i]) <= m + 1
               /\ ~IsText(LineOf(text, AfterBody(gs[i], at[i])))
    <3>1. b(i) \in Nat
      BY <1>1, <1>3
    <3> QED BY <1>1, <1>3, <1>9, <3>1
  <2> QED BY <1>7, <1>9, <2>1, <2>2 DEF AreSections
<1>11. Frontier(gs, at, 0, m)
  BY <1>2, <1>3, <1>9 DEF Frontier
<1>12. at \in [DOMAIN gs -> 1..m]
  BY DEF IsTextOf, m
<1> QED BY <1>8, <1>10, <1>11, <1>12 DEF Reading, m

(* The text that is longer by one goroutine.                               *)
LEMMA TextOfOneMore ==
  ASSUME NEW gs, IsDump(gs), NEW g, IsGoroutine(g),
         NEW text \in Seq(Seq(Wording)), NEW was, IsTextOf(text, gs, was),
         NEW more, IsLongerBy(more, text, g)
  PROVE  \E at : IsTextOf(more, Append(gs, g), at)
<1> DEFINE m == Len(text)
           k == Len(g.trace)
           hs == Append(gs, g)
           l == Len(gs) + 1
           at == [i \in DOMAIN hs |-> IF i = l THEN m + 1 ELSE was[i]]
<1>1. m \in Nat /\ k \in Nat /\ Len(more) = m + k + 2
  <2>1. PICK W : g \in Goroutines(W)
    BY DEF IsGoroutine
  <2>2. g.trace \in Seq(W)
    BY <2>1 DEF Goroutines
  <2>3. Len(more) = m + k + 2
    BY DEF IsLongerBy
  <2> QED BY <2>2, <2>3
<1>2. /\ Len(gs) \in Nat /\ DOMAIN gs = 1..Len(gs) /\ DOMAIN hs = 1..l
      /\ \A i \in DOMAIN gs : hs[i] = gs[i]
      /\ hs[l] = g
  <2>1. IsDump(hs) /\ Len(gs) \in Nat /\ Len(hs) = Len(gs) + 1
        /\ (\A i \in 1..Len(gs) : hs[i] = gs[i]) /\ hs[Len(gs) + 1] = g
    BY DumpWith
  <2>2. DOMAIN gs = 1..Len(gs) /\ DOMAIN hs = 1..Len(hs)
    BY <2>1, InDump
  <2> QED BY <2>1, <2>2
<1>3. ASSUME NEW i \in DOMAIN gs
      PROVE  Len(gs[i].trace) \in Nat
  <2>1. PICK W : gs[i] \in Goroutines(W)
    BY InDump DEF IsGoroutine
  <2>2. gs[i].trace \in Seq(W)
    BY <2>1 DEF Goroutines
  <2> QED BY <2>2
<1> HIDE DEF m, k, hs
<1>4. /\ at[l] = m + 1
      /\ \A i \in DOMAIN gs : at[i] = was[i] /\ was[i] \in 1..m
  <2>1. l \in DOMAIN hs /\ \A i \in DOMAIN gs : i \in DOMAIN hs /\ i # l
    BY <1>2
  <2>2. \A i \in DOMAIN gs : was[i] \in 1..m
    BY DEF IsTextOf, m
  <2> QED BY <2>1, <2>2
<1>5. \A i \in DOMAIN hs : i \in DOMAIN gs \/ i = l
  BY <1>2
<1>6. at \in [DOMAIN hs -> 1..Len(more)]
  <2>1. m + 1 \in 1..Len(more) /\ \A n \in 1..m : n \in 1..Len(more)
    BY <1>1
  <2>2. \A i \in DOMAIN hs : at[i] \in 1..Len(more)
    BY <1>4, <1>5, <2>1
  <2> QED BY <2>2
<1> HIDE DEF at
<1>7. ASSUME NEW i \in DOMAIN hs, NEW j \in DOMAIN hs, i < j PROVE at[i] < at[j]
  <2>1. i \in DOMAIN gs
    BY <1>2, <1>7
  <2>2. CASE j \in DOMAIN gs
    BY <1>4, <1>7, <2>1, <2>2 DEF IsTextOf
  <2>3. CASE j = l
    BY <1>1, <1>4, <2>1, <2>3
  <2> QED BY <1>5, <2>2, <2>3
<1>8. ASSUME NEW i \in DOMAIN hs PROVE IsWrittenAt(hs[i], more, at[i])
  <2>1. CASE i \in DOMAIN gs
    <3> DEFINE n == was[i]
               c == Len(gs[i].trace)
    <3>1. IsWrittenAt(gs[i], text, n)
      BY <2>1 DEF IsTextOf
    <3>2. n \in 1..m /\ c \in Nat /\ n + c + 1 <= m
      BY <1>3, <1>4, <2>1, <3>1 DEF IsWrittenAt, m
    <3> HIDE DEF n, c
    <3>3. /\ n + c + 1 \in 1..m /\ n + c + 1 <= m + k + 2
          /\ \A j \in 1..c : n + j \in 1..m
      BY <1>1, <3>2
    <3>4. \A p \in 1..m : more[p] = text[p]
      BY DEF m, IsLongerBy
    <3>5. IsWrittenAt(gs[i], more, n)
      BY <1>1, <3>1, <3>2, <3>3, <3>4 DEF IsWrittenAt, c
    <3> QED BY <1>2, <1>4, <2>1, <3>5 DEF n
  <2>2. CASE i = l
    <3>1. IsWrittenAt(g, more, m + 1)
      BY DEF IsLongerBy, m
    <3> QED BY <1>2, <1>4, <2>2, <3>1
  <2> QED BY <1>5, <2>1, <2>2
<1>9. ASSUME NEW n \in 1..Len(more)
      PROVE  \/ more[n] = <<>>
             \/ \E i \in DOMAIN hs : at[i] <= n /\ n <= at[i] + Len(hs[i].trace)
  <2>1. CASE n \in 1..m
    <3>1. more[n] = text[n]
      BY <2>1 DEF m, IsLongerBy
    <3>2. \/ text[n] = <<>>
          \/ \E i \in DOMAIN gs : was[i] <= n /\ n <= was[i] + Len(gs[i].trace)
      BY <2>1 DEF IsTextOf, m
    <3>3. ASSUME NEW i \in DOMAIN gs, was[i] <= n, n <= was[i] + Len(gs[i].trace)
          PROVE  i \in DOMAIN hs /\ at[i] <= n /\ n <= at[i] + Len(hs[i].trace)
      <4>1. hs[i] = gs[i] /\ at[i] = was[i]
        BY <1>2, <1>4
      <4>2. i \in DOMAIN hs
        BY <1>2
      <4> QED BY <3>3, <4>1, <4>2
    <3> QED BY <3>1, <3>2, <3>3
  <2>2. CASE n = m + k + 2
    <3>1. (m + 1) + k + 1 = m + k + 2
      BY <1>1
    <3>2. more[(m + 1) + k + 1] = <<>>
      BY DEF IsLongerBy, IsWrittenAt, m, k
    <3> QED BY <2>2, <3>1, <3>2
  <2>3. CASE n \notin 1..m /\ n # m + k + 2
    <3>1. m + 1 <= n /\ n <= (m + 1) + k
      BY <1>1, <2>3
    <3>2. l \in DOMAIN hs /\ Len(hs[l].trace) = k
      BY <1>2 DEF k
    <3>3. at[l] <= n /\ n <= at[l] + Len(hs[l].trace)
      BY <1>4, <3>1, <3>2
    <3> HIDE DEF l
    <3> QED BY <3>2, <3>3
  <2> QED BY <2>1, <2>2, <2>3
<1>10. IsTextOf(more, hs, at)
  BY <1>6, <1>7, <1>8, <1>9 DEF IsTextOf
<1> QED BY <1>10 DEF hs

(* The text that Save writes is that of the goroutines it was given.       *)
LEMMA PrintedLines ==
  ASSUME NEW gs, IsPrintable(gs)
  PROVE  LET lines == Lines(Printed(gs))
         IN  /\ Printed(gs) \in Seq(Token) /\ HasLines(Printed(gs), lines)
             /\ lines \in Seq(Seq(Wording))
             /\ \E at : IsTextOf(lines, gs, at)
<1> DEFINE G == Elements(gs)
           Writes(hs, text) ==
             /\ text \in Seq(Seq(Wording)) /\ HasLines(Printed(hs), text)
             /\ IsDump(hs) /\ \E at : IsTextOf(text, hs, at)
           P == {hs \in Seq(G) : \E text : Writes(hs, text)}
<1>1. gs \in Seq(G) /\ AllPrintable(G)
  BY DumpElements DEF IsPrintable
<1> HIDE DEF G
<1>2. <<>> \in P
  <2>1. <<>> \in Seq(Seq(Wording)) /\ <<>> \in Seq(G) /\ Len(<<>>) = 0
    OBVIOUS
  <2>2. IsDump(<<>>)
    BY EmptyDump
  <2>3. HasLines(Printed(<<>>), <<>>)
    <3>1. Printed(<<>>) = <<>>
      BY <1>1, PrintedOf
    <3>2. Read(<<>>) = [lines |-> <<>>, line |-> <<>>]
      BY ReadOf
    <3> QED BY <3>1, <3>2 DEF HasLines
  <2>4. IsTextOf(<<>>, <<>>, <<>>)
    BY DEF IsTextOf
  <2>5. Writes(<<>>, <<>>)
    BY <2>1, <2>2, <2>3, <2>4
  <2> HIDE DEF Writes
  <2> QED BY <2>1, <2>5
<1>3. ASSUME NEW hs \in Seq(G), NEW g \in G, hs \in P PROVE Append(hs, g) \in P
  <2>1. PICK text : Writes(hs, text)
    BY <1>3
  <2>2. IsWhole(g) /\ g.isFrozen
    BY <1>1 DEF AllPrintable
  <2>3. g.header \in HeaderLine /\ g.trace \in Seq(TextLine) /\ IsGoroutine(g)
    BY <2>2, WholeIsPrinted DEF IsWhole
  <2> DEFINE more == Append(Append(text, g.header) \o g.trace, <<>>)
             next == Append(hs, g)
  <2>4. more \in Seq(Seq(Wording)) /\ IsLongerBy(more, text, g)
    <3> DEFINE header == g.header
               trace == g.trace
    <3>1. text \in Seq(Seq(Wording)) /\ header \in HeaderLine /\ trace \in Seq(TextLine)
      BY <2>1, <2>3
    <3> HIDE DEF header, trace
    <3>2. LET longer == Append(Append(text, header) \o trace, <<>>)
              m == Len(text)
              k == Len(trace)
          IN  /\ longer \in Seq(Seq(Wording))
              /\ Len(longer) = m + k + 2 /\ m \in Nat /\ k \in Nat
              /\ \A n \in 1..m : longer[n] = text[n]
              /\ longer[m + 1] = header
              /\ \A j \in 1..k : longer[m + 1 + j] = trace[j]
              /\ longer[m + k + 2] = <<>>
      BY <3>1, SectionAdded, Zenon
    <3> DEFINE longer == Append(Append(text, header) \o trace, <<>>)
               m == Len(text)
               k == Len(trace)
    <3>3. longer = more
      BY DEF header, trace
    <3> HIDE DEF longer, more, m, k
    <3>4. /\ longer \in Seq(Seq(Wording))
          /\ Len(longer) = m + k + 2 /\ m \in Nat /\ k \in Nat
          /\ \A n \in 1..m : longer[n] = text[n]
          /\ longer[m + 1] = header
          /\ \A j \in 1..k : longer[m + 1 + j] = trace[j]
          /\ longer[m + k + 2] = <<>>
      BY <3>2, Zenon DEF longer, m, k
    <3>5. (m + 1) + k + 1 = m + k + 2
      BY <3>4
    <3>6. IsWrittenAt(g, longer, m + 1)
      <4>1. longer[m + 1] = g.header /\ Len(g.trace) = k
        BY <3>4 DEF header, k, trace
      <4>2. \A j \in 1..k : longer[m + 1 + j] = g.trace[j]
        BY <3>4 DEF trace
      <4>3. longer[m + 1 + k + 1] = <<>> /\ m + 1 + k + 1 <= Len(longer)
        BY <3>4, <3>5
      <4> QED BY <4>1, <4>2, <4>3 DEF IsWrittenAt
    <3> QED BY <3>3, <3>4, <3>6 DEF IsLongerBy, m, k, trace
  <2>5. HasLines(Printed(next), more)
    <3>1. Printed(hs) \in Seq(Token)
      BY <1>1, PrintedOf
    <3>2. Printed(next) = (Printed(hs) \o g.header) \o BodyText(g.trace)
      BY <1>1, PrintedOf
    <3>3. text \in Seq(Seq(Token)) /\ HasLines(Printed(hs), text)
      <4>1. Seq(Seq(Wording)) \subseteq Seq(Seq(Token))
        <5>1. Seq(Wording) \subseteq Seq(Token)
          BY PlainTokens
        <5> QED BY <5>1
      <4> QED BY <2>1, <4>1
    <3>4. g.header \in Seq(Wide(Token)) /\ g.trace \in Seq(Seq(Wide(Token)))
      BY <2>3, PlainLines DEF Wording
    <3>5. NewLine \in Token
      BY PlainTokens
    <3> DEFINE header == g.header
               trace == g.trace
               printed == Printed(hs)
    <3> HIDE DEF header, trace, printed
    <3>6. HasLines(printed \o header \o BodyText(trace),
                   Append(Append(text, header) \o trace, <<>>))
      BY <3>1, <3>3, <3>4, <3>5, ReadGoroutine DEF header, trace, printed
    <3> QED BY <3>2, <3>6 DEF header, trace, printed
  <2> HIDE DEF more
  <2>6. \E at : IsTextOf(more, next, at)
    <3>1. PICK was : IsTextOf(text, hs, was)
      BY <2>1
    <3>2. text \in Seq(Seq(Wording)) /\ IsDump(hs)
      BY <2>1
    <3> QED BY <2>3, <2>4, <3>1, <3>2, TextOfOneMore
  <2>7. IsDump(next)
    BY <2>1, <2>3, DumpWith
  <2>8. Writes(next, more)
    BY <2>4, <2>5, <2>6, <2>7
  <2>9. next \in Seq(G)
    OBVIOUS
  <2> HIDE DEF Writes, next
  <2>10. next \in P
    BY <2>8, <2>9
  <2> QED BY <2>10 DEF next
<1> HIDE DEF P
<1>4. Seq(G) \subseteq P
  BY <1>2, <1>3, SeqInduction
<1>5. PICK text : Writes(gs, text)
  BY <1>1, <1>4 DEF P
<1>6. Lines(Printed(gs)) = text
  BY <1>5 DEF HasLines, Lines
<1>7. Printed(gs) \in Seq(Token)
  BY <1>1, PrintedOf
<1> QED BY <1>5, <1>6, <1>7

(* Whatever the goroutines, the text that Save writes of them has them as  *)
(* its sections, and nothing in it that the loader fails on.               *)
LEMMA PrintedReads ==
  ASSUME NEW gs, IsPrintable(gs)
  PROVE  LET lines == Lines(Printed(gs))
         IN  /\ Takes(lines)
             /\ Reading(gs, 0, lines, Len(lines))
<1>1. Lines(Printed(gs)) \in Seq(Seq(Wording))
  BY PrintedLines
<1>2. PICK at : IsTextOf(Lines(Printed(gs)), gs, at)
  BY PrintedLines
<1> QED BY <1>1, <1>2, TextReads

-----------------------------------------------------------------------------
(* A text has its sections in one way only.                                *)

(* The n numbers of f increase.                                            *)
Increases(f, n) ==
  /\ n \in Nat /\ f \in [1..n -> Nat]
  /\ \A i, j \in 1..n : i < j => f[i] < f[j]

(* All numbers of f are in g; and f has those of g that are not beyond it. *)
OccursIn(f, n, g, k) == \A i \in 1..n : \E j \in 1..k : g[j] = f[i]
HasNoGap(f, n, g, k) ==
  \A i \in 1..n, j \in 1..k : g[j] < f[i] => \E l \in 1..n : f[l] = g[j]

(* The first i numbers of f are the first i of g.                          *)
BeginsLike(f, n, g, k, i) ==
  \A j \in 1..i : j \in 1..n => j \in 1..k /\ g[j] = f[j]

(* If two enumerations agree so far, they agree on the next number: the    *)
(* smaller of the two would be missing in the other.                       *)
LEMMA NextIsSame ==
  ASSUME NEW f, NEW n, NEW g, NEW k, NEW i \in Nat,
         Increases(f, n), Increases(g, k), OccursIn(f, n, g, k), HasNoGap(f, n, g, k),
         BeginsLike(f, n, g, k, i)
  PROVE  BeginsLike(f, n, g, k, i + 1)
<1> SUFFICES ASSUME i + 1 \in 1..n
             PROVE  i + 1 \in 1..k /\ g[i + 1] = f[i + 1]
  <2>1. \A j \in 1..(i + 1) : j \in 1..i \/ j = i + 1
    OBVIOUS
  <2> QED BY <2>1, Zenon DEF BeginsLike
<1>1. n \in Nat /\ k \in Nat /\ f \in [1..n -> Nat] /\ g \in [1..k -> Nat]
  BY DEF Increases
<1>2. PICK j \in 1..k : g[j] = f[i + 1]
  BY DEF OccursIn
<1>3. ~(j <= i)
  <2> SUFFICES ASSUME j <= i PROVE FALSE
    OBVIOUS
  <2>1. j \in 1..i /\ j \in 1..n
    BY <1>1
  <2>2. f[j] = g[j]
    BY <2>1 DEF BeginsLike
  <2>3. f[j] < f[i + 1]
    BY <1>1, <2>1 DEF Increases
  <2> QED BY <1>1, <1>2, <2>2, <2>3
<1>4. i + 1 \in 1..k
  BY <1>1, <1>3
<1>5. j = i + 1
  <2> SUFFICES ASSUME i + 1 < j PROVE FALSE
    BY <1>1, <1>3
  <2>1. g[i + 1] < f[i + 1]
    BY <1>2, <1>4 DEF Increases
  <2>2. PICK l \in 1..n : f[l] = g[i + 1]
    BY <1>4, <2>1 DEF HasNoGap
  <2>3. CASE l <= i
    <3>1. l \in 1..i
      BY <1>1, <2>3
    <3>2. l \in 1..k /\ g[l] = f[l]
      BY <3>1 DEF BeginsLike
    <3>3. g[l] < g[i + 1]
      BY <1>4, <3>1, <3>2 DEF Increases
    <3> QED BY <1>1, <1>4, <2>2, <3>2, <3>3
  <2>4. CASE l = i + 1
    BY <1>1, <2>1, <2>2, <2>4
  <2>5. CASE l > i + 1
    <3>1. f[i + 1] < f[l]
      BY <2>5 DEF Increases
    <3> QED BY <1>1, <1>4, <2>1, <2>2, <3>1
  <2> QED BY <1>1, <2>3, <2>4, <2>5
<1> QED BY <1>2, <1>4, <1>5

(* An enumeration of numbers of another one, without a gap, is the first   *)
(* part of it.                                                             *)
LEMMA EnumerationBegins ==
  ASSUME NEW f, NEW n, NEW g, NEW k,
         Increases(f, n), Increases(g, k), OccursIn(f, n, g, k), HasNoGap(f, n, g, k)
  PROVE  \A i \in 1..n : i \in 1..k /\ g[i] = f[i]
<1> DEFINE S == {i \in Nat : BeginsLike(f, n, g, k, i)}
<1>1. 0 \in S
  BY DEF BeginsLike
<1>2. ASSUME NEW i \in Nat, i \in S PROVE i + 1 \in S
  <2>1. BeginsLike(f, n, g, k, i)
    BY <1>2
  <2>2. BeginsLike(f, n, g, k, i + 1)
    BY <2>1, NextIsSame, Zenon
  <2> QED BY <2>2
<1> HIDE DEF S
<1>3. Nat \subseteq S
  BY <1>1, <1>2, SetInduction
<1>4. BeginsLike(f, n, g, k, n)
  BY <1>3 DEF S, Increases
<1> QED BY <1>4 DEF BeginsLike

(* A set of numbers has one increasing enumeration.                        *)
LEMMA EnumerationsAgree ==
  ASSUME NEW f, NEW n, NEW g, NEW k, Increases(f, n), Increases(g, k),
         OccursIn(f, n, g, k), OccursIn(g, k, f, n)
  PROVE  n = k /\ \A i \in 1..n : f[i] = g[i]
<1>1. HasNoGap(f, n, g, k) /\ HasNoGap(g, k, f, n)
  BY DEF HasNoGap, OccursIn
<1>2. \A i \in 1..n : i \in 1..k /\ g[i] = f[i]
  BY <1>1, EnumerationBegins
<1>3. \A i \in 1..k : i \in 1..n
  BY <1>1, EnumerationBegins
<1>4. n \in Nat /\ k \in Nat
  BY DEF Increases
<1>5. n = k
  BY <1>2, <1>3, <1>4
<1> QED BY <1>2, <1>5

(* A trace has one last "created by" line, and so one parent.              *)
LEMMA OneParent ==
  ASSUME NEW W, NEW trace \in Seq(W), NEW a, NEW b,
         IsParentIn(trace, a), IsParentIn(trace, b)
  PROVE  a = b
<1>1. Len(trace) \in Nat /\ DOMAIN trace = 1..Len(trace)
  OBVIOUS
<1>2. CASE \A k \in DOMAIN trace : ~IsCreated(trace[k])
  BY <1>2 DEF IsParentIn
<1>3. CASE \E k \in DOMAIN trace : IsCreated(trace[k])
  <2>1. PICK k \in DOMAIN trace :
          /\ IsCreated(trace[k]) /\ a = ParentOn(trace[k])
          /\ \A j \in DOMAIN trace : j > k => ~IsCreated(trace[j])
    BY <1>3 DEF IsParentIn
  <2>2. PICK l \in DOMAIN trace :
          /\ IsCreated(trace[l]) /\ b = ParentOn(trace[l])
          /\ \A j \in DOMAIN trace : j > l => ~IsCreated(trace[j])
    BY <1>3 DEF IsParentIn
  <2>3. ~(l > k) /\ ~(k > l)
    BY <2>1, <2>2
  <2>4. k = l
    BY <1>1, <2>3
  <2> QED BY <2>1, <2>2, <2>4
<1> QED BY <1>2, <1>3

(* Two goroutines that start on the same line and end where a section does *)
(* are alike.                                                              *)
Ends(g, text, n, m) ==
  /\ IsSection(g, text, n) /\ AfterBody(g, n) <= m + 1
  /\ AfterBody(g, n) <= m => ~IsText(LineOf(text, AfterBody(g, n)))

(* Of two goroutines that start on the same line of a text and end before  *)
(* the same line, neither has the longer body.                             *)
LEMMA BodyNotLonger ==
  ASSUME NEW g, IsGoroutine(g), NEW h, IsGoroutine(h), NEW text,
         NEW n \in Nat, NEW m \in Nat, Ends(g, text, n, m), Ends(h, text, n, m)
  PROVE  Len(Body(h)) <= Len(Body(g))
<1>1. PICK V : Body(g) \in Seq(V)
  BY BodyIsList
<1>2. PICK W : Body(h) \in Seq(W)
  BY BodyIsList
<1> DEFINE a == Len(Body(g))
           b == Len(Body(h))
<1>3. a \in Nat /\ b \in Nat /\ DOMAIN Body(h) = 1..b
  BY <1>1, <1>2
<1>4. AfterBody(g, n) = n + a + 1 /\ AfterBody(h, n) = n + b + 1
  BY DEF AfterBody
<1> HIDE DEF a, b
<1>5. ASSUME a < b PROVE FALSE
  <2>1. n + a + 1 <= m /\ a + 1 \in DOMAIN Body(h) /\ n + a + 1 = n + (a + 1)
    BY <1>3, <1>4, <1>5 DEF Ends
  <2>2. IsText(LineOf(text, n + (a + 1)))
    BY <2>1 DEF Ends, IsSection
  <2>3. ~IsText(LineOf(text, n + a + 1))
    BY <1>4, <2>1 DEF Ends
  <2> QED BY <2>1, <2>2, <2>3
<1> QED BY <1>3, <1>5 DEF a, b

(* Such goroutines say the same.                                           *)
LEMMA SectionsAlike ==
  ASSUME NEW g, IsGoroutine(g), NEW h, IsGoroutine(h), NEW text,
         NEW n \in Nat, NEW m \in Nat, Ends(g, text, n, m), Ends(h, text, n, m)
  PROVE  Alike(g, h)
<1>1. PICK V : Body(g) \in Seq(V)
  BY BodyIsList
<1>2. PICK W : Body(h) \in Seq(W)
  BY BodyIsList
<1>3. Len(Body(h)) = Len(Body(g))
  <2>1. Len(Body(h)) <= Len(Body(g)) /\ Len(Body(g)) <= Len(Body(h))
    BY BodyNotLonger
  <2>2. Len(Body(h)) \in Nat /\ Len(Body(g)) \in Nat
    BY <1>1, <1>2
  <2> QED BY <2>1, <2>2
<1>4. \A k \in DOMAIN Body(g) : Body(g)[k] = LineOf(text, n + k)
  BY DEF Ends, IsSection
<1>5. \A k \in DOMAIN Body(h) : Body(h)[k] = LineOf(text, n + k)
  BY DEF Ends, IsSection
<1> DEFINE bg == Body(g)
           bh == Body(h)
<1>6. bg = bh
  <2>1. bg \in Seq(V \cup W) /\ bh \in Seq(V \cup W)
    BY <1>1, <1>2
  <2> HIDE DEF bg, bh
  <2>2. DOMAIN bg = 1..Len(bg) /\ DOMAIN bh = 1..Len(bh) /\ Len(bg) = Len(bh)
    BY <1>3, <2>1 DEF bg, bh
  <2>3. \A k \in 1..Len(bg) : bg[k] = bh[k]
    BY <1>4, <1>5, <2>2 DEF bg, bh
  <2> QED BY <2>1, <2>2, <2>3
<1>7. IsParentIn(bg, g.createdBy) /\ IsParentIn(bg, h.createdBy)
  BY <1>6 DEF Ends, IsSection
<1>8. g.createdBy = h.createdBy
  <2> HIDE DEF bg
  <2>1. bg \in Seq(V)
    BY <1>1 DEF bg
  <2> QED BY <1>7, <2>1, OneParent
<1>9. h.lineCount = g.lineCount
  BY <1>3 DEF Ends, IsSection
<1>10. /\ h.header = g.header /\ h.id = g.id /\ h.state = g.state
       /\ h.duration = g.duration /\ h.labels = g.labels
  BY DEF Ends, IsSection
<1> QED BY <1>6, <1>8, <1>9, <1>10 DEF Alike

(* Two dumps of the same text have goroutines that are alike.              *)
LEMMA SectionsUnique ==
  ASSUME NEW gs, IsDump(gs), NEW hs, IsDump(hs), NEW text, NEW m \in Nat,
         NEW at \in [DOMAIN gs -> 1..m], AreSections(gs, at, text, m),
         NEW bt \in [DOMAIN hs -> 1..m], AreSections(hs, bt, text, m)
  PROVE  DOMAIN hs = DOMAIN gs /\ \A i \in DOMAIN gs : Alike(gs[i], hs[i])
<1> DEFINE n == Len(gs)
           k == Len(hs)
<1>1. /\ n \in Nat /\ k \in Nat /\ DOMAIN gs = 1..n /\ DOMAIN hs = 1..k
      /\ \A i \in DOMAIN gs : IsGoroutine(gs[i])
      /\ \A i \in DOMAIN hs : IsGoroutine(hs[i])
  BY InDump
<1> HIDE DEF n, k
<1>2. Increases(at, n) /\ OccursIn(at, n, bt, k)
  <2>1. at \in [1..n -> Nat]
    <3>1. 1..m \subseteq Nat
      OBVIOUS
    <3> QED BY <1>1, <3>1
  <2>3. \A i, j \in 1..n : i < j => at[i] < at[j]
    BY <1>1, Zenon DEF AreSections
  <2>2. ASSUME NEW i \in 1..n PROVE \E j \in 1..k : bt[j] = at[i]
    <3>1. IsHeader(LineOf(text, at[i])) /\ at[i] \in 1..m
      BY <1>1 DEF AreSections, IsSection
    <3> QED BY <1>1, <3>1 DEF AreSections
  <2> QED BY <1>1, <2>1, <2>2, <2>3 DEF Increases, OccursIn
<1>3. Increases(bt, k) /\ OccursIn(bt, k, at, n)
  <2>1. bt \in [1..k -> Nat]
    <3>1. 1..m \subseteq Nat
      OBVIOUS
    <3> QED BY <1>1, <3>1
  <2>3. \A i, j \in 1..k : i < j => bt[i] < bt[j]
    BY <1>1, Zenon DEF AreSections
  <2>2. ASSUME NEW i \in 1..k PROVE \E j \in 1..n : at[j] = bt[i]
    <3>1. IsHeader(LineOf(text, bt[i])) /\ bt[i] \in 1..m
      BY <1>1 DEF AreSections, IsSection
    <3> QED BY <1>1, <3>1 DEF AreSections
  <2> QED BY <1>1, <2>1, <2>2, <2>3 DEF Increases, OccursIn
<1>4. n = k /\ \A i \in 1..n : at[i] = bt[i]
  BY <1>2, <1>3, EnumerationsAgree
<1>5. ASSUME NEW i \in DOMAIN gs PROVE Alike(gs[i], hs[i])
  <2>1. /\ i \in DOMAIN hs /\ bt[i] = at[i] /\ at[i] \in Nat
        /\ IsGoroutine(gs[i]) /\ IsGoroutine(hs[i])
    BY <1>1, <1>4
  <2>2. Ends(gs[i], text, at[i], m)
    BY DEF AreSections, Ends
  <2>3. Ends(hs[i], text, at[i], m)
    BY <2>1 DEF AreSections, Ends
  <2> QED BY <2>1, <2>2, <2>3, SectionsAlike
<1> QED BY <1>1, <1>4, <1>5

-----------------------------------------------------------------------------
(* SavedInv is inductive, with FileInv.                                    *)
(* A dump that was loaded is one that Save can write.                      *)
LEMMA LoadedIsPrintable ==
  ASSUME FileInv, loading = "loaded"
  PROVE  IsPrintable(dump)
BY DEF FileInv, LoadInv, TextsInv, IsPrintable

(* Nothing was saved at first.                                             *)
LEMMA SavedInit == ArchiveInit => SavedInv
<1>1. IsDump(<<>>)
  BY EmptyDump
<1>2. AreWhole(<<>>)
  BY EmptyIsWhole
<1> QED BY <1>1, <1>2 DEF ArchiveInit, SaverInit, SavedInv

(* The loader does not fail on a line that it takes.                       *)
LEMMA TakesTheLine ==
  ASSUME Scan, Takes(input), input \in Seq(Seq(Wording)), scanned \in 0..Len(input)
  PROVE  loading' \in {"scanning", "loaded"} /\ input' = input
<1>1. CASE ScanTooLong \/ ScanHeaderOutOfRange \/ ScanLineOutOfRange
  <2>1. Scans
    BY <1>1 DEF ScanTooLong, ScanHeaderOutOfRange, ScanLineOutOfRange
  <2>2. scanned + 1 \in DOMAIN input
    BY <2>1 DEF Scans
  <2>3. /\ ~IsTooLong(input[scanned + 1])
        /\ IsHeader(Line) => HeaderInRange(Line)
        /\ IsText(Line) => LineInRange(Line)
    BY <2>2, Zenon DEF Takes, Line, LineOf
  <2> QED BY <1>1, <2>3, Zenon DEF ScanTooLong, ScanHeaderOutOfRange, ScanLineOutOfRange
<1>2. CASE ScanHeader \/ ScanBlank \/ ScanLine \/ ScanStrayLine
  BY <1>2, Zenon DEF ScanHeader, ScanBlank, ScanLine, ScanStrayLine, Scans, NextLine
<1>3. CASE EndOfText
  BY <1>3 DEF EndOfText
<1> QED BY <1>1, <1>2, <1>3, Zenon DEF Scan

(* Each step of the archive keeps SavedInv.  The steps that matter are the *)
(* one that starts the writer and the one that starts the loader on a file *)
(* that is complete.                                                       *)
LEMMA SavedNext ==
  ASSUME SavedInv, FileInv, [Next]_archiveVars
  PROVE  SavedInv'
<1>1. SavedInv <=>
        /\ IsPrintable(saved)
        /\ saving \in {"writing", "saved"} /\ ~checked => meant = Printed(saved)
        /\ saving = "writing" /\ ~checked => loading = "loaded" /\ dump = saved
        /\ saving = "saved" /\ ~checked /\ failures = 0 =>
             \/ loading = "loaded" /\ dump = saved
             \/ loading \in {"scanning", "loaded"} /\ input = Lines(file)
  BY DEF SavedInv, IsPrintable
<1> DEFINE Meant  == saving \in {"writing", "saved"} /\ ~checked => meant = Printed(saved)
           Held   == saving = "writing" /\ ~checked => loading = "loaded" /\ dump = saved
           Became == saving = "saved" /\ ~checked /\ failures = 0 =>
                       \/ loading = "loaded" /\ dump = saved
                       \/ loading \in {"scanning", "loaded"} /\ input = Lines(file)
<1>2. IsPrintable(saved) /\ Meant /\ Held /\ Became
  BY <1>1
<1>3. SUFFICES IsPrintable(saved') /\ Meant' /\ Held' /\ Became'
  BY DEF SavedInv, IsPrintable
<1>4. CASE Load
  <2>1. /\ saving # "writing" /\ UNCHANGED <<saverVars, saved>>
        /\ loading' = "scanning" /\ input' = Lines(file)
    BY <1>4 DEF Load, Idle, LoadFrom
  <2>2. file' = file /\ saving' = saving /\ checked' = checked /\ meant' = meant
    BY <2>1 DEF saverVars
  <2>3. input' = Lines(file')
    BY <2>1, <2>2
  <2> QED BY <1>2, <2>1, <2>2, <2>3
<1>5. CASE ScanFile
  <2>1. Scan /\ UNCHANGED <<saverVars, saved>>
    BY <1>5 DEF ScanFile
  <2>2. /\ file' = file /\ saving' = saving /\ checked' = checked
        /\ meant' = meant /\ failures' = failures
    BY <2>1 DEF saverVars
  <2>3. loading = "scanning"
    BY <2>1 DEF Scan, Scans, ScanTooLong, ScanHeader, ScanHeaderOutOfRange, ScanBlank,
                ScanLine, ScanLineOutOfRange, ScanStrayLine, EndOfText
  <2>4. ASSUME saving = "saved", ~checked, failures = 0
        PROVE  loading' \in {"scanning", "loaded"} /\ input' = Lines(file)
    <3>1. input = Lines(file)
      BY <1>2, <2>3, <2>4
    <3>2. file = Printed(saved)
      BY <1>2, <2>4 DEF FileInv, WriterInv
    <3>3. Takes(input)
      BY <1>2, <3>1, <3>2, PrintedReads
    <3>4. input \in Seq(Seq(Wording)) /\ scanned \in 0..Len(input)
      BY DEF FileInv, TextsInv
    <3> QED BY <2>1, <3>1, <3>3, <3>4, TakesTheLine
  <2>5. Became'
    BY <2>2, <2>4
  <2>6. saving # "writing"
    BY <2>3 DEF FileInv, OneAtATime
  <2> QED BY <1>2, <2>1, <2>2, <2>5, <2>6
<1>6. CASE SaveDump
  <2>1. /\ Create(Prints(dump), FALSE) /\ loading = "loaded" /\ saved' = dump
        /\ UNCHANGED loaderVars
    BY <1>6 DEF SaveDump, Save
  <2>2. IsPrintable(saved')
    BY <2>1, LoadedIsPrintable
  <2>3. loading' = loading /\ dump' = dump
    BY <2>1 DEF loaderVars
  <2>4. CASE saving' = "failed"
    BY <2>2, <2>4
  <2>5. CASE saving' = "writing" /\ meant' = FlattenSeq(Prints(dump))
    <3>1. meant' = Printed(saved')
      BY <2>1, <2>5 DEF Printed
    <3> QED BY <2>1, <2>2, <2>3, <2>5, <3>1
  <2> QED BY <2>1, <2>4, <2>5, Zenon DEF Create
<1>7. CASE ExportDump
  <2>1. /\ \E text \in Exports : Create(<<text, <<NewLine>>>>, TRUE)
        /\ saved' = saved
    BY <1>7 DEF ExportDump, Export
  <2>2. saving' = "failed" \/ (saving' = "writing" /\ checked' = TRUE)
    BY <2>1, Zenon DEF Create
  <2> QED BY <1>2, <2>1, <2>2
<1>8. CASE WriteFile
  <2>1. Write /\ loading' = loading /\ dump' = dump /\ saved' = saved
    BY <1>8 DEF WriteFile, loaderVars
  <2>2. CASE WriteSome \/ WriteFails
    <3>1. /\ saving = "writing" /\ checked' = checked /\ meant' = meant
          /\ saving' \in {"writing", "failed"}
      BY <2>2, Zenon DEF WriteSome, WriteFails, Writing
    <3> QED BY <1>2, <2>1, <3>1
  <2>3. CASE Sync
    <3>1. /\ saving = "writing" /\ checked' = checked /\ meant' = meant
          /\ saving' \in {"saved", "failed"}
      BY <2>3 DEF Sync
    <3> QED BY <1>2, <2>1, <3>1
  <2> QED BY <2>1, <2>2, <2>3 DEF Write
<1>9. CASE Crash
  <2>1. saving' = "crashed" /\ saved' = saved
    BY <1>9 DEF Crash, DieWriting
  <2> QED BY <1>2, <2>1
<1>10. CASE UNCHANGED archiveVars
  <2>1. /\ file' = file /\ saving' = saving /\ checked' = checked
        /\ meant' = meant /\ failures' = failures /\ saved' = saved
        /\ loading' = loading /\ dump' = dump /\ input' = input
    BY <1>10 DEF archiveVars, saverVars, loaderVars
  <2> QED BY <1>2, <2>1
<1> QED BY <1>4, <1>5, <1>6, <1>7, <1>8, <1>9, <1>10, Zenon DEF Next

(* Both invariants hold on every run.                                      *)
LEMMA SavedInvariant == Spec => [](FileInv /\ SavedInv)
BY SavedInit, SavedNext, FileInvariant, PTL DEF Spec

(* What two goroutines that say the same show of themselves.               *)
LEMMA AlikeContents ==
  ASSUME NEW g, NEW h, IsWhole(g), g.isFrozen, IsWhole(h), h.isFrozen, Alike(g, h)
  PROVE  Contents(h) = Contents(g)
<1>1. /\ Body(g) = g.trace /\ Body(h) = h.trace
      /\ g.hash = Places(g.trace) /\ h.hash = Places(h.trace)
  BY DEF IsWhole, Body
<1>2. h.trace = g.trace /\ h.hash = g.hash
  BY <1>1 DEF Alike
<1> QED BY <1>2 DEF Alike, Contents

(* Whatever the dump, and in however many pieces the writer puts it into   *)
(* the file, a file that Save has written completely loads without an      *)
(* error and gives the dump that was saved.                                *)
THEOREM RoundTrips == Spec => []RoundTrip
<1>1. FileInv /\ SavedInv => RoundTrip
  <2> SUFFICES ASSUME FileInv, SavedInv, saving = "saved", ~checked, failures = 0
               PROVE  /\ loading # "failed"
                      /\ loading = "loaded" =>
                           /\ DOMAIN dump = DOMAIN saved
                           /\ \A i \in DOMAIN dump :
                                Contents(dump[i]) = Contents(saved[i])
    BY DEF RoundTrip
  <2>1. \/ loading = "loaded" /\ dump = saved
        \/ loading \in {"scanning", "loaded"} /\ input = Lines(file)
    BY DEF SavedInv
  <2>2. ASSUME loading = "loaded", input = Lines(file)
        PROVE  /\ DOMAIN dump = DOMAIN saved
               /\ \A i \in DOMAIN dump : Contents(dump[i]) = Contents(saved[i])
    <3>1. file = Printed(saved)
      BY DEF SavedInv, FileInv, WriterInv
    <3>2. IsPrintable(saved) /\ IsPrintable(dump)
      BY <2>2, LoadedIsPrintable DEF SavedInv, IsPrintable
    <3>3. scanned = Len(input) /\ scanned \in Nat
      BY <2>2 DEF FileInv, TextsInv, LoadInv
    <3>4. PICK bt \in [DOMAIN dump -> 1..scanned] :
            AreSections(dump, bt, input, scanned)
      BY <2>2 DEF FileInv, LoadInv
    <3>5. Reading(saved, 0, input, scanned)
      BY <2>2, <3>1, <3>2, <3>3, PrintedReads
    <3>6. PICK at \in [DOMAIN saved -> 1..scanned] :
            AreSections(saved, at, input, scanned)
      BY <3>5 DEF Reading
    <3>7. DOMAIN dump = DOMAIN saved /\ \A i \in DOMAIN saved : Alike(saved[i], dump[i])
      BY <3>2, <3>3, <3>4, <3>6, SectionsUnique DEF IsPrintable
    <3>8. ASSUME NEW i \in DOMAIN dump PROVE Contents(dump[i]) = Contents(saved[i])
      <4>1. /\ IsWhole(dump[i]) /\ dump[i].isFrozen
            /\ IsWhole(saved[i]) /\ saved[i].isFrozen
        BY <3>2, <3>7, Zenon DEF IsPrintable, AreWhole
      <4> QED BY <3>7, <4>1, AlikeContents
    <3> QED BY <3>7, <3>8
  <2> QED BY <2>1, <2>2
<1> QED BY <1>1, SavedInvariant, PTL

-----------------------------------------------------------------------------
(* The labels of a header.                                                 *)

(* The labels whose values are words or strings, which parseLabels reads.  *)
WordLabel == {pair \in Label : pair[2].form \in {"word", "string"}}

(* The tokens that a header's labels are scanned as, and what is kept.     *)
LabelToken  == [form : {"word", "string", "number", "comma", "colon"},
                text : STRING \cup {",", ":"}]
LabelText   == STRING \cup {"", ",", ":"}
(* What parseLabels collects, and its variables as it starts.              *)
LabelMaps   == UNION {[K -> LabelText] : K \in SUBSET LabelText}
LabelState  == [key : LabelText, value : LabelText, openKey : BOOLEAN,
                labels : LabelMaps]
LabelStart  == [key |-> "", value |-> "", openKey |-> TRUE, labels |-> NoLabel]

(* A label that is set has its value, and the others keep theirs.          *)
LEMMA SetLabelOf ==
  ASSUME NEW labels \in LabelMaps, NEW key \in LabelText, NEW value \in LabelText
  PROVE  LET f == SetLabel(labels, key, value)
         IN  /\ f \in LabelMaps /\ DOMAIN f = DOMAIN labels \cup {key}
             /\ f[key] = value
             /\ \A k \in DOMAIN labels : k # key => f[k] = labels[k]
<1>1. PICK K \in SUBSET LabelText : labels \in [K -> LabelText]
  BY DEF LabelMaps
<1> DEFINE f == SetLabel(labels, key, value)
<1>2. DOMAIN f = K \cup {key} /\ f \in [K \cup {key} -> LabelText]
  BY <1>1 DEF SetLabel
<1>3. f \in LabelMaps
  BY <1>2 DEF LabelMaps
<1> QED BY <1>1, <1>2, <1>3 DEF SetLabel

(* A token of a header leaves parseLabels with variables of their types.   *)
LEMMA ScanLabelTyped ==
  ASSUME NEW s \in LabelState, NEW t \in LabelToken
  PROVE  ScanLabel(s, t) \in LabelState
<1>1. t.text \in LabelText
  BY DEF LabelToken, LabelText
<1>2. SetLabel(s.labels, s.key, s.value) \in LabelMaps
  BY SetLabelOf, Zenon DEF LabelState
<1> HIDE DEF LabelText, LabelMaps
<1> DEFINE map == SetLabel(s.labels, s.key, s.value)
<1> HIDE DEF map
<1>3. CASE t.form \in {"word", "string"}
  <2>1. CASE s.openKey
    <3>1. ScanLabel(s, t) = [s EXCEPT !.key = t.text, !.openKey = FALSE]
      BY <1>3, <2>1 DEF ScanLabel
    <3> QED BY <1>1, <3>1 DEF LabelState
  <2>2. CASE ~s.openKey
    <3>1. ScanLabel(s, t) = [s EXCEPT !.value = t.text, !.openKey = TRUE]
      BY <1>3, <2>2 DEF ScanLabel
    <3> QED BY <1>1, <3>1 DEF LabelState
  <2> QED BY <2>1, <2>2
<1>4. CASE t.form = "comma"
  <2>1. ScanLabel(s, t) = [s EXCEPT !.labels = map, !.openKey = TRUE]
    BY <1>4 DEF ScanLabel, map
  <2> QED BY <1>2, <2>1 DEF LabelState, map
<1>5. CASE t.form \notin {"word", "string", "comma"}
  BY <1>5 DEF ScanLabel
<1> QED BY <1>3, <1>4, <1>5

(* parseLabels, one token at a time.                                       *)
LEMMA ScanLabelsOf ==
  /\ ScanLabels(<<>>) = LabelStart
  /\ \A tokens \in Seq(LabelToken) :
       /\ ScanLabels(tokens) \in LabelState
       /\ \A t \in LabelToken :
            ScanLabels(Append(tokens, t)) = ScanLabel(ScanLabels(tokens), t)
<1> DEFINE V == LabelState
           W == LabelToken
           G == [p \in V \X W |-> ScanLabel(p[1], p[2])]
<1>1. \A v \in V, t \in W : G[<<v, t>>] = ScanLabel(v, t)
  OBVIOUS
<1>2. Steps(G, LabelStart, V, W)
  <2>1. NoLabel \in LabelMaps
    BY DEF NoLabel, LabelMaps
  <2>2. LabelStart \in LabelState
    BY <2>1 DEF LabelStart, LabelState, LabelText
  <2>3. G \in [V \X W -> V]
    BY ScanLabelTyped
  <2> QED BY <2>2, <2>3 DEF Steps
<1> HIDE DEF G, V, W
<1>3. ASSUME NEW tokens \in Seq(W)
      PROVE  ScanLabels(tokens) = Folded(G, LabelStart, tokens)
  <2> DEFINE IsIter(f) ==
               f = [U \in SUBSET DOMAIN tokens |->
                      IF U = {} THEN LabelStart
                      ELSE ScanLabel(f[U \ {Max(U)}], tokens[Max(U)])]
             iter == CHOOSE f : IsIter(f)
  <2>1. ScanLabels(tokens) = iter[DOMAIN tokens]
    BY DEF ScanLabels, LabelStart, FoldLeft, MapThenFoldSet
  <2>2. \A U \in SUBSET DOMAIN tokens : U # {} => tokens[Max(U)] \in W
    BY LastPlace
  <2>3. IsIter(iter)
    <3>1. PICK f \in [SUBSET DOMAIN tokens -> V] :
            IsSetFolding(f, G, LabelStart, tokens)
      BY <1>2, SetFoldingExists
    <3>2. IsIter(f)
      BY <1>1, <2>2, <3>1 DEF IsSetFolding
    <3> QED BY <3>2
  <2> HIDE DEF iter
  <2>4. FoldsWithin(iter, V, W, G, LabelStart, tokens)
    BY <1>1, <1>2, <2>2, <2>3 DEF FoldsWithin
  <2> QED BY <2>1, <2>4, SetFoldingIsFolded
<1>4. /\ Folded(G, LabelStart, <<>>) = LabelStart
      /\ \A tokens \in Seq(W) :
           /\ Folded(G, LabelStart, tokens) \in V
           /\ \A t \in W : Folded(G, LabelStart, Append(tokens, t)) =
                             G[<<Folded(G, LabelStart, tokens), t>>]
  BY <1>2, FoldedProperties
<1>5. /\ <<>> \in Seq(W)
      /\ \A tokens \in Seq(W), t \in W : Append(tokens, t) \in Seq(W)
  OBVIOUS
<1>6. ScanLabels(<<>>) = LabelStart /\ \A tokens \in Seq(W) : ScanLabels(tokens) \in V
  BY <1>3, <1>4, <1>5
<1>7. \A tokens \in Seq(W), t \in W :
        ScanLabels(Append(tokens, t)) = ScanLabel(ScanLabels(tokens), t)
  BY <1>1, <1>3, <1>4, <1>5
<1> QED BY <1>6, <1>7 DEF V, W

(* The tokens of the labels, one pair at a time.                           *)
LEMMA LabelTokensOf ==
  /\ LabelTokens(<<>>) = <<>>
  /\ \A pairs \in Seq(Label) :
       /\ LabelTokens(pairs) \in Seq(LabelToken)
       /\ \A pair \in Label :
            LabelTokens(Append(pairs, pair)) =
              (IF LabelTokens(pairs) = <<>> THEN LabelTokens(pairs)
               ELSE Append(LabelTokens(pairs), Comma))
                \o <<pair[1], Colon, pair[2]>>
<1> DEFINE V == Seq(LabelToken)
           W == Label
           step(v, p) == (IF v = <<>> THEN v ELSE Append(v, Comma))
                           \o <<p[1], Colon, p[2]>>
           G == [p \in V \X W |-> step(p[1], p[2])]
<1>1. \A v \in V, p \in W : G[<<v, p>>] = step(v, p)
  OBVIOUS
<1>2. Steps(G, <<>>, V, W)
  <2>1. ASSUME NEW v \in V, NEW p \in W PROVE step(v, p) \in V
    <3>1. p[1] \in LabelToken /\ p[2] \in LabelToken
      BY DEF Label, LabelToken
    <3>2. Comma \in LabelToken /\ Colon \in LabelToken
      BY DEF Comma, Colon, LabelToken
    <3>3. <<p[1], Colon, p[2]>> \in V
      BY <3>1, <3>2
    <3>4. IF v = <<>> THEN v \in V ELSE Append(v, Comma) \in V
      BY <3>2
    <3> HIDE DEF V
    <3> DEFINE q == <<p[1], Colon, p[2]>>
               u == IF v = <<>> THEN v ELSE Append(v, Comma)
    <3>5. u \in V /\ q \in V
      BY <3>3, <3>4
    <3> HIDE DEF u, q
    <3>6. u \o q \in V
      BY <3>5 DEF V
    <3> QED BY <3>6 DEF u, q
  <2>2. <<>> \in V
    OBVIOUS
  <2> HIDE DEF V, W, step
  <2>3. G \in [V \X W -> V]
    BY <2>1
  <2> QED BY <2>2, <2>3 DEF Steps
<1> HIDE DEF G
<1>3. ASSUME NEW pairs \in Seq(W) PROVE LabelTokens(pairs) = Folded(G, <<>>, pairs)
  <2> DEFINE IsIter(f) ==
               f = [U \in SUBSET DOMAIN pairs |->
                      IF U = {} THEN <<>>
                      ELSE step(f[U \ {Max(U)}], pairs[Max(U)])]
             iter == CHOOSE f : IsIter(f)
  <2>1. LabelTokens(pairs) = iter[DOMAIN pairs]
    BY DEF LabelTokens, FoldLeft, MapThenFoldSet
  <2> HIDE DEF W
  <2>2. \A U \in SUBSET DOMAIN pairs : U # {} => pairs[Max(U)] \in W
    BY LastPlace
  <2> HIDE DEF V, step
  <2>3. IsIter(iter)
    <3>1. PICK f \in [SUBSET DOMAIN pairs -> V] : IsSetFolding(f, G, <<>>, pairs)
      BY <1>2, SetFoldingExists
    <3>2. IsIter(f)
      BY <1>1, <2>2, <3>1 DEF IsSetFolding
    <3> QED BY <3>2
  <2> HIDE DEF iter
  <2>4. FoldsWithin(iter, V, W, G, <<>>, pairs)
    BY <1>1, <1>2, <2>2, <2>3 DEF FoldsWithin
  <2> QED BY <2>1, <2>4, SetFoldingIsFolded
<1> HIDE DEF step, V, W
<1>4. /\ Folded(G, <<>>, <<>>) = <<>>
      /\ \A pairs \in Seq(W) :
           /\ Folded(G, <<>>, pairs) \in V
           /\ \A p \in W : Folded(G, <<>>, Append(pairs, p)) =
                             G[<<Folded(G, <<>>, pairs), p>>]
  BY <1>2, FoldedProperties
<1>5. /\ <<>> \in Seq(W)
      /\ \A pairs \in Seq(W), p \in W : Append(pairs, p) \in Seq(W)
  OBVIOUS
<1>6. LabelTokens(<<>>) = <<>> /\ \A pairs \in Seq(W) : LabelTokens(pairs) \in V
  BY <1>3, <1>4, <1>5
<1>7. \A pairs \in Seq(W), p \in W :
        LabelTokens(Append(pairs, p)) = step(LabelTokens(pairs), p)
  BY <1>1, <1>3, <1>4, <1>5
<1> QED BY <1>6, <1>7 DEF step, V, W

(* A sequence that something was added to is not empty.                    *)
LEMMA NotEmpty ==
  ASSUME NEW W, NEW s \in Seq(W)
  PROVE  /\ \A e \in W : Append(s, e) # <<>>
         /\ \A t \in Seq(W) : t # <<>> => s \o t # <<>>
<1>1. ASSUME NEW e \in W PROVE Append(s, e) # <<>>
  <2>1. Len(Append(s, e)) = Len(s) + 1 /\ Len(s) \in Nat
    OBVIOUS
  <2>2. Len(<<>>) = 0
    OBVIOUS
  <2> QED BY <2>1, <2>2
<1>2. ASSUME NEW t \in Seq(W), t # <<>> PROVE s \o t # <<>>
  <2>1. Len(t) # 0 /\ Len(t) \in Nat /\ Len(s) \in Nat
    BY <1>2
  <2>2. Len(s \o t) = Len(s) + Len(t)
    OBVIOUS
  <2> QED BY <2>1, <2>2
<1> QED BY <1>1, <1>2

(* Only a header without labels has no tokens of labels.                   *)
LEMMA NoTokens ==
  ASSUME NEW pairs \in Seq(Label), LabelTokens(pairs) = <<>>
  PROVE  pairs = <<>>
<1> DEFINE P == {ps \in Seq(Label) : LabelTokens(ps) = <<>> => ps = <<>>}
<1>1. <<>> \in P
  OBVIOUS
<1>2. ASSUME NEW ps \in Seq(Label), NEW p \in Label, ps \in P PROVE Append(ps, p) \in P
  <2> DEFINE more == <<p[1], Colon, p[2]>>
             tokens == LabelTokens(ps)
             u == IF tokens = <<>> THEN tokens ELSE Append(tokens, Comma)
  <2>1. LabelTokens(Append(ps, p)) = u \o more
    BY LabelTokensOf
  <2>2. u \in Seq(LabelToken)
    <3>1. tokens \in Seq(LabelToken)
      BY LabelTokensOf
    <3>2. Comma \in LabelToken
      BY DEF Comma, LabelToken
    <3> HIDE DEF tokens
    <3> QED BY <3>1, <3>2
  <2>3. more \in Seq(LabelToken) /\ more # <<>>
    <3>1. p[1] \in LabelToken /\ p[2] \in LabelToken /\ Colon \in LabelToken
      BY DEF Label, LabelToken, Colon
    <3> QED BY <3>1
  <2> HIDE DEF u, more
  <2>5. u \o more # <<>>
    BY <2>2, <2>3, NotEmpty, Zenon
  <2>6. Append(ps, p) \in Seq(Label)
    OBVIOUS
  <2> QED BY <2>1, <2>5, <2>6
<1> HIDE DEF P
<1>3. Seq(Label) \subseteq P
  BY <1>1, <1>2, SeqInduction
<1> QED BY <1>3 DEF P

(* parseLabels of one more pair of words or strings.                       *)
LEMMA ParseOneMore ==
  ASSUME NEW pairs \in Seq(Label), NEW pair \in WordLabel
  PROVE  ParseLabels(Append(pairs, pair)) =
           SetLabel(ParseLabels(pairs), pair[1].text, pair[2].text)
<1> DEFINE k == pair[1]
           v == pair[2]
           tokens == LabelTokens(pairs)
           u == IF tokens = <<>> THEN tokens ELSE Append(tokens, Comma)
           more == LabelTokens(Append(pairs, pair))
           a == ScanLabels(tokens)
           s == ScanLabels(u)
<1>1. /\ k \in LabelToken /\ k.form \in {"word", "string"}
      /\ v \in LabelToken /\ v.form \in {"word", "string"} /\ pair \in Label
  BY DEF WordLabel, Label, LabelToken
<1>2. Comma \in LabelToken /\ Colon \in LabelToken
  BY DEF Comma, Colon, LabelToken
<1>3. tokens \in Seq(LabelToken) /\ more = u \o <<k, Colon, v>>
  BY <1>1, LabelTokensOf
<1> HIDE DEF k, v, tokens, more
<1>4. u \in Seq(LabelToken)
  BY <1>2, <1>3
<1>5. s \in LabelState /\ s.openKey /\ s.labels = ParseLabels(pairs)
  <2>1. CASE tokens = <<>>
    <3>1. pairs = <<>>
      BY <2>1, NoTokens DEF tokens
    <3>2. s = LabelStart /\ s \in LabelState
      BY <1>3, <2>1, ScanLabelsOf
    <3>3. ParseLabels(pairs) = NoLabel
      BY <3>1, Zenon DEF ParseLabels
    <3>4. LabelStart.openKey /\ LabelStart.labels = NoLabel
      BY DEF LabelStart
    <3> QED BY <3>2, <3>3, <3>4, Zenon
  <2>2. CASE tokens # <<>>
    <3>1. s = ScanLabel(a, Comma) /\ a \in LabelState /\ s \in LabelState
      BY <1>2, <1>3, <1>4, <2>2, ScanLabelsOf
    <3>2. pairs # <<>>
      BY <2>2, LabelTokensOf DEF tokens
    <3>3. ParseLabels(pairs) = SetLabel(a.labels, a.key, a.value)
      BY <3>2 DEF ParseLabels, tokens
    <3> DEFINE map == SetLabel(a.labels, a.key, a.value)
    <3>4. ScanLabel(a, Comma) = [a EXCEPT !.labels = map, !.openKey = TRUE]
      BY DEF ScanLabel, Comma
    <3> HIDE DEF map, a, s
    <3>5. s.openKey /\ s.labels = map
      BY <3>1, <3>4 DEF LabelState
    <3> QED BY <3>1, <3>3, <3>5 DEF map
  <2> QED BY <2>1, <2>2
<1> DEFINE b == ScanLabel(s, k)
           c == ScanLabel(b, Colon)
           d == ScanLabel(c, v)
<1>6. ScanLabels(more) = d
  <2> HIDE DEF u
  <2>1. more = Append(Append(Append(u, k), Colon), v)
    BY <1>3, <1>4
  <2>2. Append(u, k) \in Seq(LabelToken) /\ Append(Append(u, k), Colon) \in Seq(LabelToken)
    BY <1>1, <1>2, <1>4
  <2>3. ScanLabels(Append(u, k)) = b
    BY <1>1, <1>4, ScanLabelsOf
  <2>4. ScanLabels(Append(Append(u, k), Colon)) = c
    BY <1>2, <2>2, <2>3, ScanLabelsOf
  <2> HIDE DEF b, c
  <2> QED BY <1>1, <2>1, <2>2, <2>4, ScanLabelsOf
<1> HIDE DEF s
<1>7. b \in LabelState /\ ~b.openKey /\ b.key = k.text /\ b.labels = s.labels
  <2>1. b = [s EXCEPT !.key = k.text, !.openKey = FALSE]
    BY <1>1, <1>5 DEF ScanLabel
  <2>2. b \in LabelState
    BY <1>1, <1>5, ScanLabelTyped
  <2> QED BY <1>5, <2>1, <2>2 DEF LabelState
<1> HIDE DEF b
<1>8. c = b
  BY DEF ScanLabel, Colon
<1> HIDE DEF c
<1>9. d.key = k.text /\ d.value = v.text /\ d.labels = s.labels
  <2>1. d = [b EXCEPT !.value = v.text, !.openKey = TRUE]
    BY <1>1, <1>7, <1>8 DEF ScanLabel
  <2> HIDE DEF d
  <2> QED BY <1>7, <2>1 DEF LabelState
<1> HIDE DEF d
<1>10. Append(pairs, pair) # <<>>
  BY <1>1, NotEmpty, Zenon
<1> QED BY <1>5, <1>6, <1>9, <1>10 DEF ParseLabels, more, k, v

(* labels has the keys of the pairs, each with the last value given it.    *)
LabelKeys(pairs) == {pairs[i][1].text : i \in DOMAIN pairs}
(* No pair after the i-th has its key.                                     *)
IsLastLabel(pairs, i) ==
  \A j \in DOMAIN pairs : j > i => pairs[j][1].text # pairs[i][1].text
(* The labels that were found are those of the pairs: every key, with the  *)
(* value of its last pair.                                                 *)
FindsLabels(labels, pairs) ==
  /\ labels = [key \in LabelKeys(pairs) |-> labels[key]]
  /\ \A i \in DOMAIN pairs :
       IsLastLabel(pairs, i) => labels[pairs[i][1].text] = pairs[i][2].text

(* Every key has a last pair.                                              *)
LEMMA LastLabelExists ==
  ASSUME NEW W, NEW pairs \in Seq(W), NEW key \in LabelKeys(pairs)
  PROVE  \E i \in DOMAIN pairs : pairs[i][1].text = key /\ IsLastLabel(pairs, i)
<1> DEFINE T == {i \in DOMAIN pairs : pairs[i][1].text = key}
<1>1. Len(pairs) \in Nat /\ DOMAIN pairs = 1..Len(pairs)
  OBVIOUS
<1>2. T \in SUBSET (1..Len(pairs)) /\ T # {}
  BY <1>1 DEF LabelKeys
<1>3. Max(T) \in T /\ \A i \in T : i <= Max(T)
  <2> HIDE DEF T
  <2> QED BY <1>1, <1>2, LargestOf
<1>4. \A j \in DOMAIN pairs : j > Max(T) => j \notin T
  <2>1. Max(T) \in Nat /\ \A j \in T : j \in Nat
    BY <1>1, <1>2, <1>3
  <2> HIDE DEF T
  <2> QED BY <1>3, <2>1
<1> QED BY <1>3, <1>4 DEF IsLastLabel

(* Only one function has the labels of the pairs.                          *)
LEMMA LabelsAreUnique ==
  ASSUME NEW W, NEW pairs \in Seq(W), NEW f, NEW g,
         FindsLabels(f, pairs), FindsLabels(g, pairs)
  PROVE  f = g
<1>1. ASSUME NEW key \in LabelKeys(pairs) PROVE f[key] = g[key]
  <2>1. PICK i \in DOMAIN pairs : pairs[i][1].text = key /\ IsLastLabel(pairs, i)
    BY LastLabelExists
  <2> QED BY <2>1 DEF FindsLabels
<1>2. f = [key \in LabelKeys(pairs) |-> f[key]]
  BY Zenon DEF FindsLabels
<1>3. g = [key \in LabelKeys(pairs) |-> g[key]]
  BY Zenon DEF FindsLabels
<1> QED BY <1>1, <1>2, <1>3

(* parseLabels finds the labels of the pairs, by induction over them.      *)
LEMMA ParseFinds ==
  ASSUME NEW pairs \in Seq(WordLabel)
  PROVE  ParseLabels(pairs) \in LabelMaps /\ FindsLabels(ParseLabels(pairs), pairs)
<1> DEFINE P == {ps \in Seq(WordLabel) :
                   ParseLabels(ps) \in LabelMaps /\ FindsLabels(ParseLabels(ps), ps)}
<1>1. <<>> \in P
  <2>1. ParseLabels(<<>>) = NoLabel
    BY DEF ParseLabels
  <2>2. NoLabel \in LabelMaps
    BY DEF NoLabel, LabelMaps
  <2>3. FindsLabels(NoLabel, <<>>)
    BY DEF FindsLabels, NoLabel, LabelKeys
  <2> QED BY <2>1, <2>2, <2>3
<1>2. ASSUME NEW ps \in Seq(WordLabel), NEW p \in WordLabel, ps \in P
      PROVE  Append(ps, p) \in P
  <2> DEFINE qs == Append(ps, p)
             n == Len(ps)
             key == p[1].text
             value == p[2].text
             f == ParseLabels(ps)
             g == ParseLabels(qs)
  <2>1. /\ qs \in Seq(WordLabel) /\ n \in Nat
        /\ DOMAIN ps = 1..n /\ DOMAIN qs = 1..(n + 1) /\ qs[n + 1] = p
        /\ \A i \in 1..n : qs[i] = ps[i]
    OBVIOUS
  <2>2. g = SetLabel(f, key, value)
    <3>1. ps \in Seq(Label)
      BY DEF WordLabel
    <3> QED BY <3>1, ParseOneMore
  <2>3. f \in LabelMaps /\ FindsLabels(f, ps)
    BY <1>2
  <2>4. key \in LabelText /\ value \in LabelText
    BY DEF WordLabel, Label, LabelText
  <2> HIDE DEF f, g, qs, n, key, value
  <2>5. /\ g \in LabelMaps /\ DOMAIN g = DOMAIN f \cup {key} /\ g[key] = value
        /\ \A k \in DOMAIN f : k # key => g[k] = f[k]
    BY <2>2, <2>3, <2>4, SetLabelOf, Zenon
  <2>6. DOMAIN f = LabelKeys(ps)
    BY <2>3 DEF FindsLabels
  <2>7. LabelKeys(qs) = LabelKeys(ps) \cup {key}
    BY <2>1 DEF LabelKeys, key
  <2>8. g = [k \in LabelKeys(qs) |-> g[k]]
    BY <2>5, <2>6, <2>7 DEF LabelMaps
  <2>9. ASSUME NEW i \in DOMAIN qs, IsLastLabel(qs, i)
        PROVE  g[qs[i][1].text] = qs[i][2].text
    <3>1. CASE i = n + 1
      BY <2>1, <2>5, <3>1 DEF key, value
    <3>2. CASE i # n + 1
      <4>1. i \in 1..n /\ n + 1 > i /\ n + 1 \in DOMAIN qs
        BY <2>1, <3>2
      <4>2. qs[i][1].text # key
        BY <2>1, <2>9, <4>1 DEF IsLastLabel, key
      <4>3. IsLastLabel(ps, i)
        BY <2>1, <2>9, <4>1 DEF IsLastLabel
      <4>4. f[ps[i][1].text] = ps[i][2].text /\ ps[i][1].text \in DOMAIN f
        BY <2>1, <2>3, <2>6, <4>1, <4>3 DEF FindsLabels, LabelKeys
      <4> QED BY <2>1, <2>5, <4>1, <4>2, <4>4
    <3> QED BY <3>1, <3>2
  <2>10. FindsLabels(g, qs)
    BY <2>8, <2>9 DEF FindsLabels
  <2> QED BY <2>1, <2>5, <2>10 DEF g, qs
<1> HIDE DEF P
<1>3. Seq(WordLabel) \subseteq P
  BY <1>1, <1>2, SeqInduction
<1> QED BY <1>3 DEF P

(* So does the definition that LabelsAsWritten compares it with.           *)
LEMMA WrittenFinds ==
  ASSUME NEW W, NEW pairs \in Seq(W)
  PROVE  FindsLabels(WrittenLabels(pairs), pairs)
<1> DEFINE f == WrittenLabels(pairs)
<1>1. f = [key \in LabelKeys(pairs) |-> f[key]]
  BY DEF WrittenLabels, LabelKeys
<1>2. ASSUME NEW i \in DOMAIN pairs, IsLastLabel(pairs, i)
      PROVE  f[pairs[i][1].text] = pairs[i][2].text
  <2> DEFINE key == pairs[i][1].text
             IsLast(j) == /\ pairs[j][1].text = key
                          /\ \A l \in (j + 1)..Len(pairs) : pairs[l][1].text # key
             last == CHOOSE j \in DOMAIN pairs : IsLast(j)
  <2>1. Len(pairs) \in Nat /\ DOMAIN pairs = 1..Len(pairs)
    OBVIOUS
  <2>2. f[key] = pairs[last][2].text
    BY DEF WrittenLabels
  <2>3. IsLast(i)
    <3>1. \A l \in (i + 1)..Len(pairs) : l \in DOMAIN pairs /\ l > i
      BY <2>1
    <3> QED BY <1>2, <3>1 DEF IsLastLabel
  <2>4. last \in DOMAIN pairs /\ IsLast(last)
    BY <2>3
  <2> HIDE DEF last
  <2>5. ~(last > i)
    BY <1>2, <2>4 DEF IsLastLabel
  <2>6. ~(last < i)
    <3> SUFFICES ASSUME last < i PROVE FALSE
      OBVIOUS
    <3>1. i \in (last + 1)..Len(pairs)
      BY <2>1, <2>4
    <3> QED BY <2>4, <3>1
  <2>7. last = i
    BY <2>1, <2>4, <2>5, <2>6
  <2> QED BY <2>2, <2>7
<1> QED BY <1>1, <1>2 DEF FindsLabels

(* Whatever the labels of a header, if they are words and strings, the     *)
(* goroutine has them all, and of one that is given twice the last value.  *)
THEOREM LabelsAreRead == Spec => []LabelsAsWritten
<1>1. FileInv => LabelsAsWritten
  <2> SUFFICES ASSUME FileInv, NEW i \in DOMAIN dump,
                      LET pairs == dump[i].header[Len(dump[i].header)].labels
                      IN  \A j \in DOMAIN pairs : pairs[j][2].form \in {"word", "string"}
               PROVE  LET pairs == dump[i].header[Len(dump[i].header)].labels
                      IN  dump[i].labels = WrittenLabels(pairs)
    BY DEF LabelsAsWritten
  <2> DEFINE header == dump[i].header
             pairs == header[Len(header)].labels
  <2>1. IsWhole(dump[i])
    BY Zenon DEF FileInv, TextsInv, AreWhole
  <2>2. header \in HeaderLine /\ dump[i].labels = ParseLabels(pairs)
    BY <2>1 DEF IsWhole, NewGoroutine
  <2>3. pairs \in Seq(Label)
    <3>1. /\ header \in Seq(Plain) /\ header # <<>>
          /\ header[Len(header)].kind = "header"
      BY <2>2 DEF HeaderLine, IsHeader
    <3> HIDE DEF header
    <3>2. header[Len(header)] \in Token
      BY <3>1, PlainTokens
    <3> QED BY <3>1, <3>2 DEF Token, NewLine, Control, Long
  <2>4. pairs \in Seq(WordLabel)
    <3> HIDE DEF header, pairs
    <3>1. \A j \in DOMAIN pairs : pairs[j] \in WordLabel
      BY <2>3 DEF WordLabel, pairs, header
    <3> QED BY <2>3, <3>1
  <2> HIDE DEF header, pairs
  <2>5. ParseLabels(pairs) = WrittenLabels(pairs)
    BY <2>4, ParseFinds, WrittenFinds, LabelsAreUnique
  <2> QED BY <2>2, <2>5 DEF pairs, header
<1> QED BY <1>1, FileInvariant, PTL

-----------------------------------------------------------------------------
(* What the scanner makes of a text that stops anywhere.                   *)

(* One sequence begins with the other.                                     *)
Begins(s, t) == Len(s) <= Len(t) /\ \A n \in 1..Len(s) : t[n] = s[n]

(* What was read, R, goes on from r: the lines stay, and the open line is  *)
(* the beginning of the next one.                                          *)
GoesOn(r, R) ==
  /\ Begins(r.lines, R.lines)
  /\ IF Len(R.lines) = Len(r.lines) THEN Begins(r.line, R.line)
     ELSE Begins(r.line, R.lines[Len(r.lines) + 1])

(* What was read of some text.                                             *)
ReadState == [lines : Seq(Seq(Token)), line : Seq(Token)]

(* One more token.                                                         *)
LEMMA GoesOnOneMore ==
  ASSUME NEW r \in ReadState, NEW R \in ReadState, GoesOn(r, R), NEW t \in Token
  PROVE  /\ GoesOn(r, [lines |-> Append(R.lines, R.line), line |-> <<>>])
         /\ GoesOn(r, [lines |-> R.lines, line |-> Append(R.line, t)])
<1> DEFINE ls == r.lines
           l  == r.line
           Ls == R.lines
           L  == R.line
           S  == Seq(Token)
           more == Append(Ls, L)
           open == Append(L, t)
<1>1. ls \in Seq(S) /\ Ls \in Seq(S) /\ l \in S /\ L \in S
  BY DEF ReadState
<1>2. /\ Begins(ls, Ls)
      /\ Len(Ls) = Len(ls) => Begins(l, L)
      /\ Len(Ls) # Len(ls) => Begins(l, Ls[Len(ls) + 1])
  BY DEF GoesOn
<1> HIDE DEF ls, l, Ls, L
<1>3. /\ Len(more) = Len(Ls) + 1 /\ more[Len(Ls) + 1] = L
      /\ \A n \in 1..Len(Ls) : more[n] = Ls[n]
  <2> HIDE DEF S
  <2> QED BY <1>1
<1>4. Len(open) = Len(L) + 1 /\ \A n \in 1..Len(L) : open[n] = L[n]
  BY <1>1
<1>5. Len(ls) \in Nat /\ Len(Ls) \in Nat /\ Len(l) \in Nat /\ Len(L) \in Nat
  BY <1>1
<1> HIDE DEF S, more, open
<1>6. Begins(ls, more)
  BY <1>2, <1>3, <1>5 DEF Begins
<1>7. Begins(l, more[Len(ls) + 1])
  <2>1. CASE Len(Ls) = Len(ls)
    BY <1>2, <1>3, <2>1
  <2>2. CASE Len(Ls) # Len(ls)
    <3>1. Len(ls) + 1 \in 1..Len(Ls)
      BY <1>2, <1>5, <2>2 DEF Begins
    <3> QED BY <1>2, <1>3, <2>2, <3>1
  <2> QED BY <2>1, <2>2
<1>8. Len(more) # Len(ls)
  BY <1>2, <1>3, <1>5 DEF Begins
<1>9. Len(Ls) = Len(ls) => Begins(l, open)
  <2> SUFFICES ASSUME Begins(l, L) PROVE Begins(l, open)
    BY <1>2
  <2> QED BY <1>4, <1>5 DEF Begins
<1>10. GoesOn(r, [lines |-> more, line |-> <<>>])
  BY <1>6, <1>7, <1>8 DEF GoesOn, ls, l
<1>11. GoesOn(r, [lines |-> Ls, line |-> open])
  BY <1>2, <1>9 DEF GoesOn, ls, l
<1> QED BY <1>10, <1>11 DEF more, open, Ls, L

(* Whatever follows, a text that was read up to some place goes on.        *)
LEMMA ReadGoesOn ==
  ASSUME NEW text \in Seq(Token), NEW rest \in Seq(Token)
  PROVE  GoesOn(Read(text), Read(text \o rest))
<1> DEFINE P == {u \in Seq(Token) : GoesOn(Read(text), Read(text \o u))}
<1>1. \A u \in Seq(Token) : Read(u) \in ReadState
  <2> TAKE u \in Seq(Token)
  <2> DEFINE W == Token \ {NewLine}
  <2>1. Read(u) \in [lines : Seq(Seq(W)), line : Seq(W)]
    BY ReadOf
  <2>2. Seq(W) \subseteq Seq(Token)
    OBVIOUS
  <2>3. Seq(Seq(W)) \subseteq Seq(Seq(Token))
    BY <2>2
  <2> QED BY <2>1, <2>2, <2>3 DEF ReadState
<1>2. <<>> \in P
  <2>1. text \o <<>> = text /\ <<>> \in Seq(Token)
    OBVIOUS
  <2>2. Read(text) \in ReadState
    BY <1>1
  <2>3. GoesOn(Read(text), Read(text))
    BY <2>2 DEF GoesOn, Begins, ReadState
  <2> QED BY <2>1, <2>3
<1>3. ASSUME NEW u \in Seq(Token), NEW t \in Token, u \in P PROVE Append(u, t) \in P
  <2>1. /\ text \o Append(u, t) = Append(text \o u, t)
        /\ text \o u \in Seq(Token) /\ Append(u, t) \in Seq(Token)
    OBVIOUS
  <2> DEFINE r == Read(text)
             R == Read(text \o u)
  <2>2. r \in ReadState /\ R \in ReadState /\ GoesOn(r, R)
    BY <1>1, <1>3, <2>1
  <2>3. Read(Append(text \o u, t)) =
          IF t = NewLine THEN [lines |-> Append(R.lines, R.line), line |-> <<>>]
          ELSE [lines |-> R.lines, line |-> Append(R.line, t)]
    BY <2>1, PlainTokens, ReadNewLine, ReadToken
  <2> HIDE DEF r, R
  <2>4. GoesOn(r, Read(Append(text \o u, t)))
    BY <2>2, <2>3, GoesOnOneMore
  <2> QED BY <2>1, <2>4 DEF r
<1> HIDE DEF P
<1>4. Seq(Token) \subseteq P
  BY <1>2, <1>3, SeqInduction
<1> QED BY <1>4 DEF P

(* Where a file that is to have this text may stop.                        *)
IsStop(f, text) ==
  \E n \in 0..Len(text) :
    \/ f = SubSeq(text, 1, n)
    \/ /\ n < Len(text)
       /\ \E t \in Torn(text[n + 1]) : f = Append(SubSeq(text, 1, n), t)

(* The lines of such a file: the first m of the text, and maybe a part of  *)
(* the next one.                                                           *)
AreCut(lines, whole, m) ==
  /\ m \in 0..Len(whole)
  /\ \A n \in 1..m : lines[n] = whole[n]
  /\ \/ Len(lines) = m
     \/ /\ m < Len(whole) /\ Len(lines) = m + 1
        /\ lines[m + 1] # <<>> /\ IsCut(lines[m + 1], whole[m + 1])

(* A line that another begins with is cut after a token, or is all of it.  *)
LEMMA BeginningIsCut ==
  ASSUME NEW l \in Seq(Token), NEW whole \in Seq(Token), Begins(l, whole)
  PROVE  IsCut(l, whole)
<1>1. Len(l) \in Nat /\ Len(whole) \in Nat /\ Len(l) <= Len(whole)
  BY DEF Begins
<1>2. CASE Len(l) = Len(whole)
  <2>1. l = whole
    BY <1>2 DEF Begins
  <2> QED BY <2>1 DEF IsCut
<1>3. CASE Len(l) # Len(whole)
  <2>1. Len(l) \in 0..(Len(whole) - 1)
    BY <1>1, <1>3
  <2>2. SubSeq(whole, 1, Len(l)) = l
    BY <1>1 DEF Begins
  <2> QED BY <2>1, <2>2 DEF IsCut
<1> QED BY <1>2, <1>3

(* A line that another begins with, up to what is left of the next token.  *)
LEMMA TornIsCut ==
  ASSUME NEW l \in Seq(Token), NEW whole \in Seq(Token),
         Len(l) < Len(whole), Begins(l, whole), NEW t \in Torn(whole[Len(l) + 1])
  PROVE  IsCut(Append(l, t), whole)
<1>1. Len(l) \in 0..(Len(whole) - 1)
  OBVIOUS
<1>2. SubSeq(whole, 1, Len(l)) = l
  BY <1>1 DEF Begins
<1> QED BY <1>1, <1>2 DEF IsCut

(* A newline and what the loader strips or does not take cannot be torn.   *)
LEMMA TornTokens ==
  ASSUME NEW t \in Token, NEW u \in Torn(t)
  PROVE  u \in Token /\ u # NewLine /\ t # NewLine
<1>1. Torn(NewLine) = {}
  BY DEF Torn, NewLine
<1>2. \A v \in Torn(t) : v # NewLine
  BY DEF Torn, NewLine, Text, Location, CreatedBy
<1> QED BY <1>1, <1>2, TornIsToken

(* One more line, which is cut.                                            *)
LEMMA LastIsCut ==
  ASSUME NEW lines \in Seq(Seq(Token)), NEW whole \in Seq(Seq(Token)),
         Begins(lines, whole), Len(lines) < Len(whole),
         NEW l \in Seq(Token), l # <<>>, IsCut(l, whole[Len(lines) + 1])
  PROVE  AreCut(Append(lines, l), whole, Len(lines))
<1> DEFINE S == Seq(Token)
           m == Len(lines)
           more == Append(lines, l)
<1>1. lines \in Seq(S) /\ whole \in Seq(S) /\ l \in S
  OBVIOUS
<1> HIDE DEF S
<1>2. m \in Nat /\ Len(whole) \in Nat /\ m < Len(whole)
  BY <1>1
<1>3. /\ Len(more) = m + 1 /\ more[m + 1] = l
      /\ \A n \in 1..m : more[n] = lines[n]
  BY <1>1
<1>4. \A n \in 1..m : more[n] = whole[n]
  BY <1>3 DEF Begins
<1>5. more[m + 1] # <<>> /\ IsCut(more[m + 1], whole[m + 1])
  BY <1>3
<1>6. m \in 0..Len(whole)
  BY <1>2
<1> HIDE DEF m, more
<1> QED BY <1>2, <1>3, <1>4, <1>5, <1>6 DEF AreCut, more

(* A text stops at n.                                                      *)
LEMMA TextStops ==
  ASSUME NEW text \in Seq(Token), NEW n \in 0..Len(text)
  PROVE  LET u == SubSeq(text, 1, n)
         IN  /\ u \in Seq(Token)
             /\ GoesOn(Read(u), Read(text))
             /\ n < Len(text) =>
                  /\ text[n + 1] \in Token
                  /\ GoesOn(Read(Append(u, text[n + 1])), Read(text))
<1> DEFINE u == SubSeq(text, 1, n)
           v == SubSeq(text, n + 1, Len(text))
           w == Append(u, text[n + 1])
           x == SubSeq(text, n + 2, Len(text))
<1>1. u \in Seq(Token) /\ v \in Seq(Token) /\ u \o v = text
  <2>1. CASE n = 0
    <3>1. u = <<>> /\ v = text
      BY <2>1
    <3>2. <<>> \o text = text /\ <<>> \in Seq(Token)
      OBVIOUS
    <3> HIDE DEF u, v
    <3> QED BY <3>1, <3>2
  <2>2. CASE n # 0
    <3>1. n \in 1..Len(text)
      BY <2>2
    <3> QED BY <3>1, SplitPiece
  <2> QED BY <2>1, <2>2
<1>2. GoesOn(Read(u), Read(u \o v))
  <2> HIDE DEF u, v
  <2> QED BY <1>1, ReadGoesOn
<1>3. ASSUME n < Len(text)
      PROVE  text[n + 1] \in Token /\ GoesOn(Read(w), Read(text))
  <2>1. text[n + 1] \in Token /\ w \in Seq(Token) /\ x \in Seq(Token)
    BY <1>3
  <2>2. w \o x = text
    <3> DEFINE y == SubSeq(text, 1, n + 1)
    <3>1. y = w
      <4>1. Len(y) = n + 1 /\ \A k \in 1..(n + 1) : y[k] = text[k]
        BY <1>3
      <4>2. Len(u) = n /\ \A k \in 1..n : u[k] = text[k]
        OBVIOUS
      <4>3. y \in Seq(Token) /\ u \in Seq(Token)
        BY <1>3
      <4> HIDE DEF y, u
      <4>4. /\ Len(w) = n + 1 /\ w[n + 1] = text[n + 1]
            /\ \A k \in 1..n : w[k] = u[k]
        BY <2>1, <4>2, <4>3
      <4>5. \A k \in 1..(n + 1) : k \in 1..n \/ k = n + 1
        OBVIOUS
      <4>6. \A k \in 1..(n + 1) : w[k] = y[k]
        BY <4>1, <4>2, <4>4, <4>5
      <4> HIDE DEF w
      <4> QED BY <2>1, <4>1, <4>3, <4>4, <4>6
    <3>2. n + 1 \in 1..Len(text) /\ (n + 1) + 1 = n + 2
      BY <1>3
    <3>3. text = y \o SubSeq(text, (n + 1) + 1, Len(text))
      BY <3>2, SplitPiece
    <3> QED BY <3>1, <3>2, <3>3
  <2> HIDE DEF w, x
  <2>3. GoesOn(Read(w), Read(w \o x))
    BY <2>1, ReadGoesOn
  <2> QED BY <2>1, <2>2, <2>3
<1> HIDE DEF v, w, x
<1> QED BY <1>1, <1>2, <1>3 DEF w

(* What stops in a text has lines that are cut.                            *)
LEMMA StoppedLines ==
  ASSUME NEW text \in Seq(Token), NEW whole \in Seq(Seq(Token)), HasLines(text, whole),
         NEW f, IsStop(f, text)
  PROVE  \E m : AreCut(Lines(f), whole, m)
<1>1. PICK n \in 0..Len(text) :
        \/ f = SubSeq(text, 1, n)
        \/ /\ n < Len(text)
           /\ \E t \in Torn(text[n + 1]) : f = Append(SubSeq(text, 1, n), t)
  BY DEF IsStop
<1> DEFINE u == SubSeq(text, 1, n)
           s == text[n + 1]
           ls == Read(u).lines
           l  == Read(u).line
           m  == Len(ls)
           next == whole[m + 1]
<1>2. /\ u \in Seq(Token) /\ GoesOn(Read(u), Read(text))
      /\ n < Len(text) => s \in Token /\ GoesOn(Read(Append(u, s)), Read(text))
  BY TextStops
<1>3. Read(text) = [lines |-> whole, line |-> <<>>]
  BY DEF HasLines
<1> HIDE DEF u, s
<1>4. Read(u) = [lines |-> ls, line |-> l] /\ ls \in Seq(Seq(Token)) /\ l \in Seq(Token)
  <2> DEFINE W == Token \ {NewLine}
  <2>1. Read(u) \in [lines : Seq(Seq(W)), line : Seq(W)]
    BY <1>2, ReadOf
  <2>2. Seq(W) \subseteq Seq(Token)
    OBVIOUS
  <2>3. Seq(Seq(W)) \subseteq Seq(Seq(Token))
    BY <2>2
  <2> QED BY <2>1, <2>2, <2>3
<1> HIDE DEF ls, l
<1>5. /\ Begins(ls, whole)
      /\ IF Len(whole) = m THEN Begins(l, <<>>) ELSE Begins(l, next)
  BY <1>2, <1>3, <1>4 DEF GoesOn
<1>6. m \in Nat /\ Len(whole) \in Nat /\ m <= Len(whole) /\ Len(l) \in Nat
  <2> DEFINE S == Seq(Token)
  <2>1. ls \in Seq(S) /\ whole \in Seq(S)
    BY <1>4
  <2> HIDE DEF S
  <2>2. m \in Nat /\ Len(whole) \in Nat
    BY <2>1
  <2> QED BY <1>4, <1>5, <2>2 DEF Begins
<1>7. m < Len(whole) => next \in Seq(Token)
  <2> DEFINE S == Seq(Token)
  <2>1. whole \in Seq(S)
    OBVIOUS
  <2> HIDE DEF S
  <2>2. m < Len(whole) => next \in S
    BY <1>6, <2>1
  <2> QED BY <2>2 DEF S
<1> HIDE DEF m, next
<1>8. CASE f = u /\ l = <<>>
  <2>1. Lines(f) = ls
    BY <1>4, <1>8 DEF Lines
  <2>2. \A k \in 1..m : ls[k] = whole[k]
    BY <1>5 DEF Begins, m
  <2>3. m \in 0..Len(whole)
    BY <1>6
  <2> QED BY <2>1, <2>2, <2>3 DEF AreCut, m
<1>9. CASE f = u /\ l # <<>>
  <2>1. Lines(f) = Append(ls, l)
    BY <1>4, <1>9 DEF Lines
  <2>2. m < Len(whole) /\ Begins(l, next)
    <3>1. ~Begins(l, <<>>)
      <4>1. Len(l) # 0
        BY <1>4, <1>9
      <4>2. Len(<<>>) = 0
        OBVIOUS
      <4> QED BY <1>6, <4>1, <4>2 DEF Begins
    <3> QED BY <1>5, <1>6, <3>1
  <2>3. IsCut(l, next)
    BY <1>4, <1>7, <2>2, BeginningIsCut
  <2>4. AreCut(Append(ls, l), whole, m)
    BY <1>4, <1>5, <1>9, <2>2, <2>3, LastIsCut DEF m, next
  <2> QED BY <2>1, <2>4
<1>10. CASE n < Len(text) /\ \E t \in Torn(s) : f = Append(u, t)
  <2>1. PICK t \in Torn(s) : f = Append(u, t)
    BY <1>10
  <2>2. s \in Token /\ s # NewLine /\ t \in Token /\ t # NewLine
    BY <1>2, <1>10, TornTokens
  <2> DEFINE more == Append(l, s)
             open == Append(l, t)
  <2>3. Read(Append(u, s)) = [lines |-> ls, line |-> more]
    BY <1>2, <1>4, <2>2, ReadToken
  <2>4. Read(f) = [lines |-> ls, line |-> open]
    BY <1>2, <1>4, <2>1, <2>2, ReadToken
  <2>5. /\ Len(more) = Len(l) + 1 /\ more[Len(l) + 1] = s
        /\ \A k \in 1..Len(l) : more[k] = l[k]
        /\ open \in Seq(Token) /\ open # <<>>
    <3>1. open \in Seq(Token)
      BY <1>4, <2>2
    <3>2. l \in Seq(Token) /\ t \in Token
      BY <1>4, <2>2
    <3> HIDE DEF l
    <3>3. open # <<>>
      BY <3>2, NotEmpty
    <3>4. /\ Len(more) = Len(l) + 1 /\ more[Len(l) + 1] = s
          /\ \A k \in 1..Len(l) : more[k] = l[k]
      BY <1>4, <2>2
    <3> QED BY <3>1, <3>3, <3>4
  <2> HIDE DEF more, open
  <2>6. IF Len(whole) = m THEN Begins(more, <<>>) ELSE Begins(more, next)
    BY <1>2, <1>3, <1>10, <2>3 DEF GoesOn, m, next
  <2>7. m < Len(whole) /\ Begins(more, next)
    <3>1. Len(<<>>) = 0
      OBVIOUS
    <3>2. ~Begins(more, <<>>)
      BY <1>6, <2>5, <3>1 DEF Begins
    <3> QED BY <1>6, <2>6, <3>2
  <2>8. Len(l) < Len(next) /\ Begins(l, next) /\ next[Len(l) + 1] = s
    <3>1. Len(next) \in Nat
      BY <1>7, <2>7
    <3>2. Len(l) + 1 <= Len(next)
      BY <2>5, <2>7 DEF Begins
    <3>3. \A k \in 1..(Len(l) + 1) : next[k] = more[k]
      BY <2>5, <2>7 DEF Begins
    <3>4. \A k \in 1..Len(l) : k \in 1..(Len(l) + 1)
      BY <1>6
    <3>5. Len(l) + 1 \in 1..(Len(l) + 1)
      BY <1>6
    <3>6. Len(l) < Len(next) /\ Len(l) <= Len(next)
      BY <1>6, <3>1, <3>2
    <3>7. next[Len(l) + 1] = s
      BY <2>5, <3>3, <3>5
    <3>8. \A k \in 1..Len(l) : next[k] = l[k]
      BY <2>5, <3>3, <3>4
    <3> QED BY <3>6, <3>7, <3>8 DEF Begins
  <2>9. IsCut(open, next)
    BY <1>4, <1>7, <2>1, <2>7, <2>8, TornIsCut DEF open
  <2>10. Lines(f) = Append(ls, open)
    BY <2>4, <2>5 DEF Lines
  <2>11. AreCut(Append(ls, open), whole, m)
    BY <1>4, <1>5, <2>5, <2>7, <2>9, LastIsCut DEF m, next
  <2> QED BY <2>10, <2>11
<1> QED BY <1>1, <1>8, <1>9, <1>10 DEF u, s

-----------------------------------------------------------------------------
(* A line that was cut.                                                    *)

(* What is left of a token.                                                *)
LEMMA TornKinds ==
  ASSUME NEW t \in Token, NEW u \in Torn(t)
  PROVE  /\ u.kind \in {"text", "location", "created"}
         /\ u.kind = "created" => t.kind = "created" /\ u.parent <= t.parent
<1>1. t.kind = "created" => t.parent \in Nat
  BY ParentIsNumber
<1>2. CASE t.kind = "created"
  <2>1. u = Text("torn") \/ u = CreatedBy(t.parent \div 10)
    BY <1>2 DEF Torn
  <2>2. t.parent \div 10 <= t.parent
    BY <1>1, <1>2
  <2>3. Text("torn").kind = "text" /\ CreatedBy(t.parent \div 10).kind = "created"
        /\ CreatedBy(t.parent \div 10).parent = t.parent \div 10
    BY DEF Text, CreatedBy
  <2> QED BY <1>2, <2>1, <2>2, <2>3
<1>3. CASE t.kind # "created"
  <2>1. u \in {Location("torn"), Text("torn")}
    BY <1>3 DEF Torn
  <2>2. Location("torn").kind = "location" /\ Text("torn").kind = "text"
    BY DEF Location, Text
  <2> QED BY <2>1, <2>2
<1> QED BY <1>2, <1>3

(* The tokens of a line that was cut: all but the last are whole.          *)
LEMMA CutTokens ==
  ASSUME NEW l \in Seq(Token), l # <<>>, NEW whole \in Seq(Token), IsCut(l, whole)
  PROVE  /\ Len(l) \in 1..Len(whole)
         /\ \A k \in 1..(Len(l) - 1) : l[k] = whole[k]
         /\ l[Len(l)] = whole[Len(l)] \/ l[Len(l)] \in Torn(whole[Len(l)])
<1>1. Len(l) \in Nat /\ Len(l) # 0 /\ Len(whole) \in Nat
  OBVIOUS
<1>2. CASE l = whole
  BY <1>1, <1>2
<1>3. CASE l # whole
  <2>1. PICK n \in 0..(Len(whole) - 1) :
          LET kept == SubSeq(whole, 1, n)
          IN  l \in {kept} \cup {Append(kept, t) : t \in Torn(whole[n + 1])}
    BY <1>3 DEF IsCut
  <2> DEFINE kept == SubSeq(whole, 1, n)
  <2>2. kept \in Seq(Token) /\ Len(kept) = n /\ \A k \in 1..n : kept[k] = whole[k]
    OBVIOUS
  <2>3. l = kept \/ \E t \in Torn(whole[n + 1]) : l = Append(kept, t)
    BY <2>1
  <2> HIDE DEF kept
  <2>4. CASE l = kept
    BY <1>1, <2>2, <2>4
  <2>5. CASE \E t \in Torn(whole[n + 1]) : l = Append(kept, t)
    <3>1. PICK t \in Torn(whole[n + 1]) : l = Append(kept, t)
      BY <2>5
    <3>2. t \in Token
      <4>1. whole[n + 1] \in Token
        OBVIOUS
      <4> QED BY <4>1, TornIsToken
    <3>3. /\ Len(l) = n + 1 /\ l[n + 1] = t
          /\ \A k \in 1..n : l[k] = kept[k]
      BY <2>2, <3>1, <3>2
    <3> QED BY <2>2, <3>3
  <2> QED BY <2>3, <2>4, <2>5
<1> QED BY <1>2, <1>3

(* A line that the loader keeps as it is, cut anywhere, is one.            *)
LEMMA CutIsPlain ==
  ASSUME NEW l \in Seq(Token), l # <<>>, NEW whole \in Seq(Plain), IsCut(l, whole)
  PROVE  l \in Seq(Plain)
<1>1. whole \in Seq(Token)
  BY PlainLines
<1>2. /\ Len(l) \in 1..Len(whole)
      /\ \A k \in 1..(Len(l) - 1) : l[k] = whole[k]
      /\ l[Len(l)] = whole[Len(l)] \/ l[Len(l)] \in Torn(whole[Len(l)])
  BY <1>1, CutTokens
<1>3. ASSUME NEW k \in 1..Len(l) PROVE l[k] \in Plain
  <2>1. whole[k] \in Plain /\ whole[k] \in Token
    BY <1>1, <1>2
  <2>2. CASE l[k] = whole[k]
    BY <2>1, <2>2
  <2>3. CASE l[k] \in Torn(whole[k])
    <3>1. l[k] \in Token /\ l[k] # NewLine
      BY <2>1, <2>3, TornTokens
    <3>2. l[k].kind \in {"text", "location", "created"}
      BY <2>1, <2>3, TornKinds
    <3> QED BY <3>1, <3>2 DEF Plain, Shown, Short, Wording, Wide
  <2> QED BY <1>2, <2>2, <2>3
<1> QED BY <1>3

(* A header line that was cut is a header line that it begins with, or no  *)
(* header line at all.                                                     *)
LEMMA CutHeader ==
  ASSUME NEW l \in Seq(Token), l # <<>>, NEW whole \in HeaderLine, IsCut(l, whole),
         \A n \in DOMAIN whole : whole[n].kind = "header" => whole[n].duration <= MaxInt
  PROVE  /\ IsHeader(l) => HeaderInRange(l) /\ IsPrefix(l, whole)
         /\ ~IsCreated(l)
<1>1. whole \in Seq(Token) /\ IsHeader(whole) /\ HeaderInRange(whole)
  BY PlainLines DEF HeaderLine
<1> DEFINE n == Len(l)
<1>2. /\ n \in 1..Len(whole)
      /\ \A k \in 1..(n - 1) : l[k] = whole[k]
      /\ l[n] = whole[n] \/ l[n] \in Torn(whole[n])
  BY <1>1, CutTokens
<1>3. l[1] = whole[1] \/ l[1] \in Torn(whole[1])
  BY <1>2
<1>4. whole[1].kind = "header" /\ whole[1] \in Token /\ whole[n] \in Token
  BY <1>1, <1>2 DEF IsHeader
<1>5. ~IsCreated(l)
  <2>1. l[1].kind # "created"
    BY <1>3, <1>4, TornKinds
  <2> QED BY <2>1 DEF IsCreated
<1>6. ASSUME IsHeader(l) PROVE HeaderInRange(l) /\ IsPrefix(l, whole)
  <2>1. l[1].kind = "header" /\ l[n].kind = "header"
    BY <1>6 DEF IsHeader
  <2>2. l[1] = whole[1] /\ l[n] = whole[n]
    BY <1>2, <1>3, <1>4, <2>1, TornKinds
  <2>3. whole[n].duration <= MaxInt
    BY <1>1, <1>2, <2>1, <2>2
  <2>4. whole[1].id <= MaxInt
    BY <1>1 DEF HeaderInRange
  <2>5. HeaderInRange(l)
    BY <2>2, <2>3, <2>4 DEF HeaderInRange
  <2>6. \A k \in 1..n : l[k] = whole[k]
    BY <1>2, <2>2
  <2>7. IsPrefix(l, whole)
    <3>1. n \in Nat /\ n <= Len(whole) /\ Len(whole) \in Nat
      BY <1>1, <1>2
    <3>2. SubSeq(l, 1, n) = SubSeq(whole, 1, n)
      BY <1>1, <2>6, <3>1
    <3> QED BY <3>1, <3>2 DEF IsPrefix
  <2> QED BY <2>5, <2>7
<1> QED BY <1>5, <1>6

(* The last creator on a line is one of its tokens.                        *)
LEMMA ParentIsOnLine ==
  ASSUME NEW l \in Seq(Token), IsCreated(l)
  PROVE  \E n \in DOMAIN l : l[n].kind = "created" /\ ParentOn(l) = l[n].parent
<1> DEFINE IsLast(i) == /\ l[i].kind = "created"
                        /\ \A j \in (i + 1)..Len(l) : l[j].kind # "created"
           T == {k \in Nat : k < Len(l) /\ l[Len(l) - k].kind = "created"}
<1>1. Len(l) \in Nat /\ Len(l) # 0 /\ DOMAIN l = 1..Len(l)
  BY DEF IsCreated
<1>2. Len(l) - 1 \in T
  <2>1. Len(l) - 1 \in Nat /\ Len(l) - 1 < Len(l) /\ Len(l) - (Len(l) - 1) = 1
    BY <1>1
  <2>2. l[1].kind = "created"
    BY DEF IsCreated
  <2> QED BY <2>1, <2>2
<1>3. PICK k \in T : \A j \in T : k <= j
  BY <1>2, LeastOf
<1> DEFINE i == Len(l) - k
<1>4. i \in DOMAIN l /\ l[i].kind = "created"
  BY <1>1, <1>3
<1>5. ASSUME NEW j \in (i + 1)..Len(l) PROVE l[j].kind # "created"
  <2> SUFFICES ASSUME l[j].kind = "created" PROVE FALSE
    OBVIOUS
  <2>1. /\ Len(l) - j \in Nat /\ Len(l) - j < Len(l) /\ Len(l) - (Len(l) - j) = j
        /\ Len(l) - j < k
    BY <1>1, <1>3
  <2>2. Len(l) - j \in T
    BY <2>1
  <2> QED BY <1>3, <2>1, <2>2
<1> DEFINE last == CHOOSE m \in DOMAIN l : IsLast(m)
<1>6. last \in DOMAIN l /\ IsLast(last)
  <2>1. IsLast(i)
    BY <1>4, <1>5
  <2> HIDE DEF IsLast
  <2> QED BY <1>4, <2>1
<1>7. ParentOn(l) = l[last].parent
  BY DEF ParentOn
<1> QED BY <1>6, <1>7

(* A line of a trace that was cut is one that the loader adds to a trace.  *)
LEMMA CutText ==
  ASSUME NEW l \in Seq(Token), l # <<>>, NEW whole \in TextLine, IsCut(l, whole),
         whole[1].kind # "header",
         \A n \in DOMAIN whole : whole[n].kind = "created" => whole[n].parent <= MaxInt
  PROVE  ~IsHeader(l) /\ LineInRange(l)
<1>1. whole \in Seq(Token)
  BY PlainLines DEF TextLine
<1> DEFINE n == Len(l)
<1>2. /\ n \in 1..Len(whole)
      /\ \A k \in 1..(n - 1) : l[k] = whole[k]
      /\ l[n] = whole[n] \/ l[n] \in Torn(whole[n])
  BY <1>1, CutTokens
<1>3. \A k \in 1..n : k \in DOMAIN whole /\ whole[k] \in Token
  BY <1>1, <1>2
<1>4. ~IsHeader(l)
  <2>1. l[1] = whole[1] \/ l[1] \in Torn(whole[1])
    BY <1>2
  <2>2. l[1].kind # "header"
    BY <1>2, <1>3, <2>1, TornKinds
  <2> QED BY <2>2 DEF IsHeader
<1>5. ASSUME IsCreated(l) PROVE ParentOn(l) <= MaxInt
  <2>1. PICK k \in DOMAIN l : l[k].kind = "created" /\ ParentOn(l) = l[k].parent
    BY <1>5, ParentIsOnLine
  <2>2. k \in 1..n /\ k \in DOMAIN whole /\ whole[k] \in Token
    BY <1>3
  <2>3. CASE l[k] = whole[k]
    BY <2>1, <2>2, <2>3
  <2>4. CASE l[k] \in Torn(whole[k])
    <3>1. whole[k].kind = "created" /\ l[k].parent <= whole[k].parent
      BY <2>1, <2>2, <2>4, TornKinds
    <3>2. whole[k].parent <= MaxInt /\ whole[k].parent \in Nat
      BY <2>2, <3>1, ParentIsNumber
    <3>3. l[k].parent \in Nat
      <4>1. l[k] \in Token
        OBVIOUS
      <4> QED BY <2>1, <4>1, ParentIsNumber
    <3> QED BY <2>1, <3>1, <3>2, <3>3, LoaderAssumption
  <2>5. k = n \/ k \in 1..(n - 1)
    BY <1>2, <2>2
  <2> QED BY <1>2, <2>3, <2>4, <2>5
<1> QED BY <1>4, <1>5 DEF LineInRange

-----------------------------------------------------------------------------
(* The text of a dump that was cut reads as what is left of the dump.      *)

(* The lines are those of the text of the goroutines gs, whose lines are   *)
(* whole, cut in the line m + 1; at tells the lines of the headers.        *)
AreCutFrom(lines, m, whole, gs, at) ==
  /\ IsPrintable(gs) /\ NoHeaderWithin(gs) /\ NumbersInRange(gs)
  /\ lines \in Seq(Seq(Token)) /\ whole \in Seq(Seq(Wording))
  /\ IsTextOf(whole, gs, at)
  /\ AreCut(lines, whole, m)

(* How many lines there are.                                               *)
LEMMA CutLengths ==
  ASSUME NEW lines, NEW m, NEW whole, NEW gs, NEW at, AreCutFrom(lines, m, whole, gs, at)
  PROVE  /\ m \in Nat /\ Len(lines) \in Nat /\ Len(whole) \in Nat /\ Len(gs) \in Nat
         /\ DOMAIN gs = 1..Len(gs) /\ DOMAIN lines = 1..Len(lines)
         /\ m <= Len(lines) /\ Len(lines) <= m + 1 /\ Len(lines) <= Len(whole)
         /\ \A i \in DOMAIN gs : at[i] \in 1..Len(whole)
<1> DEFINE S == Seq(Token)
           W == Seq(Wording)
<1>1. lines \in Seq(S) /\ whole \in Seq(W) /\ IsDump(gs)
  BY DEF AreCutFrom, IsPrintable
<1> HIDE DEF S, W
<1>2. /\ Len(lines) \in Nat /\ Len(whole) \in Nat /\ Len(gs) \in Nat
      /\ DOMAIN gs = 1..Len(gs) /\ DOMAIN lines = 1..Len(lines)
  BY <1>1, InDump
<1>3. /\ m \in 0..Len(whole)
      /\ Len(lines) = m \/ (m < Len(whole) /\ Len(lines) = m + 1)
  BY DEF AreCutFrom, AreCut
<1>4. \A i \in DOMAIN gs : at[i] \in 1..Len(whole)
  BY DEF AreCutFrom, IsTextOf
<1> DEFINE e == Len(lines)
           d == Len(whole)
<1>5. m \in Nat /\ m <= e /\ e <= m + 1 /\ e <= d
  <2>1. e \in Nat /\ d \in Nat /\ m \in 0..d /\ (e = m \/ (m < d /\ e = m + 1))
    BY <1>2, <1>3
  <2> HIDE DEF e, d
  <2> QED BY <2>1
<1> QED BY <1>2, <1>4, <1>5

(* A line that is not blank is one of a goroutine.                         *)
LEMMA PlaceInText ==
  ASSUME NEW text, NEW gs, NEW at, IsPrintable(gs), IsTextOf(text, gs, at),
         NEW n \in 1..Len(text), Len(text) \in Nat, text[n] # <<>>
  PROVE  \E i \in DOMAIN gs :
           \/ n = at[i] /\ text[n] = gs[i].header
           \/ \E j \in DOMAIN gs[i].trace : n = at[i] + j /\ text[n] = gs[i].trace[j]
<1>1. PICK i \in DOMAIN gs : at[i] <= n /\ n <= at[i] + Len(gs[i].trace)
  BY DEF IsTextOf
<1>2. gs[i].trace \in Seq(TextLine)
  <2>1. IsWhole(gs[i]) /\ gs[i].isFrozen
    BY DEF IsPrintable, AreWhole
  <2> QED BY <2>1, WholeIsPrinted
<1>3. Len(gs[i].trace) \in Nat /\ DOMAIN gs[i].trace = 1..Len(gs[i].trace)
  BY <1>2
<1>4. at[i] \in 1..Len(text) /\ IsWrittenAt(gs[i], text, at[i])
  BY DEF IsTextOf
<1>5. CASE n = at[i]
  BY <1>4, <1>5 DEF IsWrittenAt
<1>6. CASE n # at[i]
  <2>1. n - at[i] \in 1..Len(gs[i].trace) /\ n = at[i] + (n - at[i])
    BY <1>1, <1>3, <1>4, <1>6
  <2>2. text[at[i] + (n - at[i])] = gs[i].trace[n - at[i]]
    BY <1>4, <2>1 DEF IsWrittenAt
  <2> QED BY <1>3, <2>1, <2>2
<1> QED BY <1>5, <1>6

(* A line that is cut, or whole.                                           *)
LEMMA LineIsCut ==
  ASSUME NEW lines, NEW m, NEW whole, NEW gs, NEW at, AreCutFrom(lines, m, whole, gs, at),
         NEW n \in 1..Len(lines)
  PROVE  /\ n \in 1..Len(whole) /\ lines[n] \in Seq(Token) /\ whole[n] \in Seq(Wording)
         /\ n <= m => lines[n] = whole[n]
         /\ IsCut(lines[n], whole[n])
         /\ lines[n] = <<>> <=> whole[n] = <<>>
<1>1. /\ m \in Nat /\ Len(lines) \in Nat /\ Len(whole) \in Nat
      /\ m <= Len(lines) /\ Len(lines) <= m + 1 /\ Len(lines) <= Len(whole)
  BY CutLengths
<1>2. n \in 1..Len(whole)
  BY <1>1
<1>3. lines[n] \in Seq(Token) /\ whole[n] \in Seq(Wording)
  <2> DEFINE S == Seq(Token)
             W == Seq(Wording)
  <2>1. lines \in Seq(S) /\ whole \in Seq(W)
    BY DEF AreCutFrom
  <2> HIDE DEF S, W
  <2>2. lines[n] \in S /\ whole[n] \in W
    BY <1>2, <2>1
  <2> QED BY <2>2 DEF S, W
<1>4. CASE n <= m
  <2>1. lines[n] = whole[n]
    BY <1>1, <1>4 DEF AreCutFrom, AreCut
  <2> QED BY <1>2, <1>3, <2>1 DEF IsCut
<1>5. CASE ~(n <= m)
  <2>1. n = m + 1 /\ Len(lines) # m
    BY <1>1, <1>5
  <2>2. lines[n] # <<>> /\ IsCut(lines[n], whole[n])
    BY <2>1 DEF AreCutFrom, AreCut
  <2>3. whole[n] \in Seq(Token)
    BY <1>3, PlainTokens
  <2>4. Len(lines[n]) \in 1..Len(whole[n])
    BY <1>3, <2>2, <2>3, CutTokens
  <2>5. whole[n] # <<>>
    <3>1. Len(<<>>) = 0
      OBVIOUS
    <3> QED BY <2>4, <3>1
  <2> QED BY <1>2, <1>3, <1>5, <2>2, <2>5
<1> QED BY <1>4, <1>5

(* What the loader makes of it.                                            *)
LEMMA CutLine ==
  ASSUME NEW lines, NEW m, NEW whole, NEW gs, NEW at, AreCutFrom(lines, m, whole, gs, at),
         NEW n \in 1..Len(lines)
  PROVE  /\ LineOf(lines, n) = lines[n] /\ ~IsTooLong(lines[n])
         /\ IsHeader(lines[n]) =>
              /\ HeaderInRange(lines[n]) /\ IsPrefix(lines[n], whole[n])
              /\ \E i \in DOMAIN gs : at[i] = n
         /\ LineInRange(lines[n])
<1> DEFINE l == lines[n]
           w == whole[n]
<1>1. /\ n \in 1..Len(whole) /\ l \in Seq(Token) /\ w \in Seq(Wording)
      /\ IsCut(l, w) /\ (l = <<>> <=> w = <<>>)
  BY LineIsCut
<1>2. IsPrintable(gs) /\ IsTextOf(whole, gs, at) /\ Len(whole) \in Nat
  BY CutLengths DEF AreCutFrom
<1>3. LineOf(lines, n) = Clean(l)
  BY DEF LineOf
<1> HIDE DEF l, w
<1>4. CASE l = <<>>
  <2>1. ~IsHeader(l) /\ ~IsCreated(l)
    BY <1>4 DEF IsHeader, IsCreated
  <2> QED BY <1>3, <1>4, <2>1, BlankLine DEF LineInRange, l
<1>5. CASE l # <<>>
  <2>1. w # <<>>
    BY <1>1, <1>5
  <2>2. PICK i \in DOMAIN gs :
          \/ n = at[i] /\ w = gs[i].header
          \/ \E j \in DOMAIN gs[i].trace : n = at[i] + j /\ w = gs[i].trace[j]
    BY <1>1, <1>2, <2>1, PlaceInText DEF w
  <2>3. IsWhole(gs[i]) /\ gs[i].isFrozen
    BY <1>2, Zenon DEF IsPrintable, AreWhole
  <2>4. gs[i].header \in HeaderLine /\ gs[i].trace \in Seq(TextLine)
    BY <2>3, WholeIsPrinted
  <2>5. CASE n = at[i] /\ w = gs[i].header
    <3>1. w \in HeaderLine
      BY <2>4, <2>5
    <3>2. \A k \in DOMAIN w : w[k].kind = "header" => w[k].duration <= MaxInt
      BY <2>5 DEF AreCutFrom, NumbersInRange
    <3>3. /\ IsHeader(l) => HeaderInRange(l) /\ IsPrefix(l, w)
          /\ ~IsCreated(l)
      BY <1>1, <1>5, <3>1, <3>2, CutHeader
    <3>4. Clean(l) = l /\ ~IsTooLong(l)
      <4>1. w \in Seq(Plain)
        BY <3>1, PlainLines
      <4> QED BY <1>1, <1>5, <4>1, CutIsPlain, PlainLine
    <3> QED BY <1>3, <2>5, <3>3, <3>4 DEF l, w, LineInRange
  <2>6. CASE \E j \in DOMAIN gs[i].trace : n = at[i] + j /\ w = gs[i].trace[j]
    <3>1. PICK j \in DOMAIN gs[i].trace : w = gs[i].trace[j]
      BY <2>6
    <3>2. w \in TextLine
      BY <2>4, <3>1
    <3>3. \A k \in DOMAIN w : w[k].kind = "created" => w[k].parent <= MaxInt
      BY <3>1 DEF AreCutFrom, NumbersInRange
    <3>4. w[1].kind # "header"
      BY <3>1 DEF AreCutFrom, NoHeaderWithin
    <3>5. ~IsHeader(l) /\ LineInRange(l)
      BY <1>1, <1>5, <3>2, <3>3, <3>4, CutText
    <3>6. Clean(l) = l /\ ~IsTooLong(l)
      <4>1. w \in Seq(Plain)
        BY <3>2, PlainLines
      <4> QED BY <1>1, <1>5, <4>1, CutIsPlain, PlainLine
    <3> QED BY <1>3, <3>5, <3>6 DEF l
  <2> QED BY <2>2, <2>5, <2>6
<1> QED BY <1>4, <1>5

(* The loader does not fail on what is left of a text.                     *)
LEMMA CutIsTaken ==
  ASSUME NEW lines, NEW m, NEW whole, NEW gs, NEW at, AreCutFrom(lines, m, whole, gs, at)
  PROVE  Takes(lines)
<1>1. DOMAIN lines = 1..Len(lines)
  BY CutLengths
<1>2. ASSUME NEW n \in DOMAIN lines
      PROVE  /\ ~IsTooLong(lines[n])
             /\ IsHeader(LineOf(lines, n)) => HeaderInRange(LineOf(lines, n))
             /\ IsText(LineOf(lines, n)) => LineInRange(LineOf(lines, n))
  <2>1. /\ LineOf(lines, n) = lines[n] /\ ~IsTooLong(lines[n])
        /\ IsHeader(lines[n]) => HeaderInRange(lines[n])
        /\ LineInRange(lines[n])
    BY <1>1, CutLine
  <2> QED BY <2>1
<1> QED BY <1>2 DEF Takes

-----------------------------------------------------------------------------
(* The goroutine g is what is left of h.                                   *)
IsLeft(g, h) ==
  /\ IsPrefix(g.header, h.header)
  /\ g.header # h.header => g.trace = <<>>
  /\ Len(g.trace) <= Len(h.trace)
  /\ \A k \in DOMAIN g.trace :
       IF k < Len(g.trace) THEN g.trace[k] = h.trace[k]
       ELSE IsCut(g.trace[k], h.trace[k])

(* What is left of a goroutine, which starts on the same line.             *)
LEMMA SectionIsLeft ==
  ASSUME NEW lines, NEW m, NEW whole, NEW gs, NEW at, AreCutFrom(lines, m, whole, gs, at),
         NEW h, IsWhole(h), h.isFrozen, NEW n \in 1..Len(lines), IsWrittenAt(h, whole, n),
         NEW g, IsWhole(g), g.isFrozen, Ends(g, lines, n, Len(lines))
  PROVE  IsLeft(g, h)
<1> DEFINE e == Len(lines)
           b == Len(g.trace)
           k == Len(h.trace)
<1>1. /\ m \in Nat /\ e \in Nat /\ Len(whole) \in Nat
      /\ m <= e /\ e <= m + 1 /\ e <= Len(whole)
  BY CutLengths
<1>2. /\ Body(g) = g.trace /\ g.trace \in Seq(TextLine) /\ h.trace \in Seq(TextLine)
      /\ g.header \in HeaderLine
  BY WholeIsPrinted
<1>3. b \in Nat /\ DOMAIN g.trace = 1..b /\ k \in Nat /\ n \in Nat
  BY <1>1, <1>2
<1>4. n + b <= e
  <2>1. AfterBody(g, n) = n + b + 1 /\ AfterBody(g, n) <= e + 1
    BY <1>2 DEF Ends, AfterBody
  <2> HIDE DEF e, b
  <2> QED BY <1>1, <1>3, <2>1
<1>5. /\ g.header = lines[n] /\ whole[n] = h.header
      /\ IsHeader(lines[n]) /\ IsPrefix(lines[n], whole[n])
  <2>1. LineOf(lines, n) = lines[n] /\ IsHeader(LineOf(lines, n))
    BY CutLine DEF Ends, IsSection
  <2>2. g.header = NewGoroutine(lines[n]).header
    BY <2>1 DEF Ends, IsSection
  <2>3. g.header = lines[n]
    BY <2>2 DEF NewGoroutine
  <2>4. IsPrefix(lines[n], whole[n])
    BY <2>1, CutLine
  <2> QED BY <2>1, <2>3, <2>4 DEF IsWrittenAt
<1> HIDE DEF e, b, k
<1>6. ASSUME NEW j \in 1..b
      PROVE  /\ n + j \in 1..e /\ g.trace[j] = lines[n + j] /\ lines[n + j] # <<>>
             /\ n + j <= m => g.trace[j] = whole[n + j]
             /\ IsCut(g.trace[j], whole[n + j]) /\ whole[n + j] # <<>>
  <2>1. n + j \in 1..e
    BY <1>1, <1>3, <1>4
  <2>2. g.trace[j] = LineOf(lines, n + j) /\ IsText(LineOf(lines, n + j))
    BY <1>2, <1>3 DEF Ends, IsSection
  <2>3. LineOf(lines, n + j) = lines[n + j]
    BY <2>1, CutLine DEF e
  <2>4. g.trace[j] = lines[n + j] /\ lines[n + j] # <<>>
    BY <2>2, <2>3 DEF IsText
  <2>5. /\ n + j <= m => lines[n + j] = whole[n + j]
        /\ IsCut(lines[n + j], whole[n + j])
        /\ lines[n + j] = <<>> <=> whole[n + j] = <<>>
    BY <2>1, LineIsCut DEF e
  <2> QED BY <2>1, <2>4, <2>5
<1>7. b <= k
  <2> SUFFICES ASSUME k < b PROVE FALSE
    BY <1>3
  <2>1. k + 1 \in 1..b
    BY <1>3
  <2>2. whole[n + (k + 1)] # <<>>
    BY <1>6, <2>1
  <2>3. whole[n + k + 1] = <<>>
    BY DEF IsWrittenAt, k
  <2>4. n + (k + 1) = n + k + 1
    BY <1>3
  <2> QED BY <2>2, <2>3, <2>4
<1>8. \A j \in 1..k : whole[n + j] = h.trace[j]
  BY DEF IsWrittenAt, k
<1>9. ASSUME NEW j \in 1..b
      PROVE  IF j < b THEN g.trace[j] = h.trace[j] ELSE IsCut(g.trace[j], h.trace[j])
  <2>1. j \in 1..k /\ (j < b => n + j <= m)
    BY <1>1, <1>3, <1>4, <1>7
  <2>2. whole[n + j] = h.trace[j]
    BY <1>8, <2>1
  <2> QED BY <1>6, <2>1, <2>2
<1>10. g.header # h.header => g.trace = <<>>
  <2> SUFFICES ASSUME g.header # h.header PROVE g.trace = <<>>
    OBVIOUS
  <2>1. ~(n <= m)
    BY <1>5, LineIsCut
  <2>2. b = 0
    BY <1>1, <1>3, <1>4, <2>1
  <2> QED BY <1>2, <2>2 DEF b
<1>11. IsPrefix(g.header, h.header)
  BY <1>5
<1>12. \A j \in DOMAIN g.trace :
         IF j < Len(g.trace) THEN g.trace[j] = h.trace[j]
         ELSE IsCut(g.trace[j], h.trace[j])
  BY <1>3, <1>9 DEF b
<1>13. Len(g.trace) <= Len(h.trace)
  BY <1>7 DEF b, k
<1> QED BY <1>10, <1>11, <1>12, <1>13, Zenon DEF IsLeft

(* If the next line of the text is still there, nothing of it is missing.  *)
LEMMA SectionIsThere ==
  ASSUME NEW lines, NEW m, NEW whole, NEW gs, NEW at, AreCutFrom(lines, m, whole, gs, at),
         NEW h, IsWhole(h), h.isFrozen, NEW n \in 1..Len(lines), IsWrittenAt(h, whole, n),
         n + Len(h.trace) + 1 < Len(lines),
         NEW g, IsWhole(g), g.isFrozen, Ends(g, lines, n, Len(lines))
  PROVE  Contents(g) = Contents(h)
<1> DEFINE e == Len(lines)
           k == Len(h.trace)
<1>1. m \in Nat /\ e \in Nat /\ Len(whole) \in Nat /\ e <= m + 1
  BY CutLengths
<1>2. Body(h) = h.trace /\ h.trace \in Seq(TextLine)
  BY WholeIsPrinted
<1>3. k \in Nat /\ n \in Nat /\ n + k + 1 < e
  BY <1>1, <1>2
<1>4. AfterBody(h, n) = n + k + 1
  BY <1>2 DEF AfterBody
<1> HIDE DEF e, k
<1>5. \A j \in 0..(k + 1) : lines[n + j] = whole[n + j]
  <2> TAKE j \in 0..(k + 1)
  <2>1. n + j \in 1..e /\ n + j <= m
    BY <1>1, <1>3
  <2> QED BY <2>1, LineIsCut DEF e
<1>6. lines[n] = h.header
  <2>1. 0 \in 0..(k + 1) /\ n + 0 = n
    BY <1>3
  <2>2. lines[n] = whole[n]
    BY <1>5, <2>1
  <2> QED BY <2>2 DEF IsWrittenAt
<1>7. \A j \in 1..k : lines[n + j] = h.trace[j]
  <2> TAKE j \in 1..k
  <2>1. j \in 0..(k + 1)
    BY <1>3
  <2>2. whole[n + j] = h.trace[j]
    BY DEF IsWrittenAt, k
  <2> QED BY <1>5, <2>1, <2>2
<1>8. lines[n + k + 1] = <<>>
  <2>1. k + 1 \in 0..(k + 1) /\ n + (k + 1) = n + k + 1
    BY <1>3
  <2>2. lines[n + k + 1] = whole[n + k + 1]
    BY <1>5, <2>1
  <2> QED BY <2>2 DEF IsWrittenAt, k
<1>9. IsSection(h, lines, n)
  BY <1>3, <1>6, <1>7, WholeIsSection DEF k
<1>10. ~IsText(LineOf(lines, AfterBody(h, n)))
  BY <1>4, <1>8, BlankLine DEF LineOf, IsText
<1>11. AfterBody(h, n) <= e + 1
  BY <1>1, <1>3, <1>4
<1>12. Ends(h, lines, n, e)
  BY <1>9, <1>10, <1>11 DEF Ends
<1>13. IsGoroutine(g) /\ IsGoroutine(h)
  BY DEF IsWhole
<1>14. Alike(h, g)
  BY <1>1, <1>3, <1>12, <1>13, SectionsAlike DEF e
<1> QED BY <1>14, AlikeContents

(* One goroutine is written before the header of the next.                 *)
LEMMA WrittenBefore ==
  ASSUME NEW text, NEW gs, NEW at, IsPrintable(gs), IsTextOf(text, gs, at),
         Len(text) \in Nat, NEW i \in DOMAIN gs, NEW l \in DOMAIN gs, i < l
  PROVE  at[i] + Len(gs[i].trace) + 1 < at[l]
<1> DEFINE k == Len(gs[i].trace)
<1>1. /\ at[i] \in 1..Len(text) /\ at[l] \in 1..Len(text) /\ at[i] < at[l]
      /\ IsWrittenAt(gs[i], text, at[i]) /\ IsWrittenAt(gs[l], text, at[l])
  BY DEF IsTextOf
<1>2. /\ IsWhole(gs[i]) /\ gs[i].isFrozen
      /\ IsWhole(gs[l]) /\ gs[l].isFrozen
  BY Zenon DEF IsPrintable, AreWhole
<1>3. gs[i].trace \in Seq(TextLine) /\ gs[l].header \in HeaderLine
  BY <1>2, WholeIsPrinted
<1>4. k \in Nat
  BY <1>3
<1>5. IsHeader(text[at[l]])
  BY <1>1, <1>3 DEF IsWrittenAt, HeaderLine
<1>6. \A j \in 1..k : text[at[i] + j] = gs[i].trace[j] /\ gs[i].trace[j] \in TextLine
  BY <1>1, <1>3 DEF IsWrittenAt
<1>7. text[at[i] + k + 1] = <<>>
  BY <1>1 DEF IsWrittenAt
<1> HIDE DEF k
<1>8. \A j \in 1..k : at[l] # at[i] + j
  <2> SUFFICES ASSUME NEW j \in 1..k, at[l] = at[i] + j PROVE FALSE
    OBVIOUS
  <2> QED BY <1>5, <1>6 DEF TextLine, IsText
<1>9. at[l] # at[i] + k + 1
  BY <1>5, <1>7 DEF IsHeader
<1>10. ~(at[l] <= at[i] + k)
  <2> SUFFICES ASSUME at[l] <= at[i] + k PROVE FALSE
    OBVIOUS
  <2>1. at[l] - at[i] \in 1..k /\ at[l] = at[i] + (at[l] - at[i])
    BY <1>1, <1>4
  <2> QED BY <1>8, <2>1
<1> QED BY <1>1, <1>4, <1>9, <1>10 DEF k

(* The sections of what is left of a text are what is left of the dump.    *)
LEMMA CutSections ==
  ASSUME NEW lines, NEW m, NEW whole, NEW gs, NEW at, AreCutFrom(lines, m, whole, gs, at),
         NEW hs, IsPrintable(hs), NEW bt \in [DOMAIN hs -> 1..Len(lines)],
         AreSections(hs, bt, lines, Len(lines))
  PROVE  IsCutOf(hs, gs)
<1> DEFINE e == Len(lines)
           p == Len(hs)
           q == Len(gs)
<1>1. /\ m \in Nat /\ e \in Nat /\ Len(whole) \in Nat /\ e <= m + 1
      /\ q \in Nat /\ DOMAIN gs = 1..q /\ \A i \in DOMAIN gs : at[i] \in 1..Len(whole)
  BY CutLengths
<1>2. p \in Nat /\ DOMAIN hs = 1..p
  BY InDump DEF IsPrintable
<1>3. IsPrintable(gs) /\ IsTextOf(whole, gs, at)
  BY DEF AreCutFrom
<1>4. /\ \A i \in DOMAIN gs : IsWhole(gs[i]) /\ gs[i].isFrozen
      /\ \A i \in DOMAIN hs : IsWhole(hs[i]) /\ hs[i].isFrozen
  BY <1>3, Zenon DEF IsPrintable, AreWhole
<1> HIDE DEF e, p, q
<1>5. Increases(bt, p) /\ Increases(at, q)
  <2>1. bt \in [1..p -> 1..e] /\ at \in [1..q -> 1..Len(whole)]
    BY <1>1, <1>2, <1>3 DEF IsTextOf, e
  <2>2. 1..e \subseteq Nat /\ 1..Len(whole) \subseteq Nat
    OBVIOUS
  <2>3. bt \in [1..p -> Nat] /\ at \in [1..q -> Nat]
    BY <2>1, <2>2
  <2>4. \A i, j \in 1..p : i < j => bt[i] < bt[j]
    BY <1>2, Zenon DEF AreSections
  <2>5. \A i, j \in 1..q : i < j => at[i] < at[j]
    BY <1>1, <1>3, Zenon DEF IsTextOf
  <2> QED BY <1>1, <1>2, <2>3, <2>4, <2>5, Zenon DEF Increases
<1>6. ASSUME NEW i \in 1..p
      PROVE  bt[i] \in 1..e /\ Ends(hs[i], lines, bt[i], e) /\ IsHeader(lines[bt[i]])
  <2>1. bt[i] \in 1..e /\ Ends(hs[i], lines, bt[i], e)
    BY <1>2, Zenon DEF AreSections, Ends, e
  <2>2. LineOf(lines, bt[i]) = lines[bt[i]]
    BY <2>1, CutLine DEF e
  <2> QED BY <2>1, <2>2 DEF Ends, IsSection
<1>7. OccursIn(bt, p, at, q)
  <2>1. ASSUME NEW i \in 1..p PROVE \E j \in 1..q : at[j] = bt[i]
    <3>1. \E j \in DOMAIN gs : at[j] = bt[i]
      BY <1>6, CutLine DEF e
    <3> QED BY <1>1, <3>1
  <2> QED BY <2>1 DEF OccursIn
<1>8. HasNoGap(bt, p, at, q)
  <2>1. ASSUME NEW i \in 1..p, NEW j \in 1..q, at[j] < bt[i]
        PROVE  \E l \in 1..p : bt[l] = at[j]
    <3>1. j \in DOMAIN gs /\ at[j] \in 1..Len(whole) /\ IsWrittenAt(gs[j], whole, at[j])
      BY <1>1, <1>3 DEF IsTextOf
    <3>2. at[j] \in 1..e /\ at[j] <= m
      BY <1>1, <1>6, <2>1, <3>1
    <3>3. lines[at[j]] = whole[at[j]]
      BY <3>2, LineIsCut DEF e
    <3>4. LineOf(lines, at[j]) = lines[at[j]]
      BY <3>2, CutLine DEF e
    <3>5. gs[j].header \in HeaderLine
      BY <1>4, <3>1, WholeIsPrinted
    <3>6. IsHeader(LineOf(lines, at[j]))
      BY <3>1, <3>3, <3>4, <3>5 DEF IsWrittenAt, HeaderLine
    <3> QED BY <1>2, <3>2, <3>6 DEF AreSections, e
  <2> QED BY <2>1 DEF HasNoGap
<1>9. \A i \in 1..p : i \in 1..q /\ at[i] = bt[i]
  BY <1>5, <1>7, <1>8, EnumerationBegins
<1>10. p <= q
  <2>1. p # 0 => p \in 1..p
    BY <1>2
  <2>2. p # 0 => p \in 1..q
    BY <1>9, <2>1
  <2> QED BY <1>1, <1>2, <2>2
<1>11. ASSUME NEW i \in 1..p
       PROVE  /\ i \in DOMAIN gs /\ IsWhole(gs[i]) /\ gs[i].isFrozen
              /\ IsWhole(hs[i]) /\ hs[i].isFrozen
              /\ bt[i] \in 1..e /\ IsWrittenAt(gs[i], whole, bt[i])
              /\ Ends(hs[i], lines, bt[i], e)
  <2>1. i \in DOMAIN gs /\ i \in DOMAIN hs /\ at[i] = bt[i]
    BY <1>1, <1>2, <1>9
  <2>2. IsWrittenAt(gs[i], whole, bt[i])
    BY <1>3, <2>1 DEF IsTextOf
  <2>3. bt[i] \in 1..e /\ Ends(hs[i], lines, bt[i], e)
    BY <1>6
  <2> QED BY <1>4, <2>1, <2>2, <2>3
<1>12. ASSUME NEW i \in 1..(p - 1) PROVE Contents(hs[i]) = Contents(gs[i])
  <2>1. i \in 1..p /\ i + 1 \in 1..p /\ i < i + 1
    BY <1>2
  <2>2. i \in DOMAIN gs /\ i + 1 \in DOMAIN gs
    BY <1>11, <2>1
  <2>3. at[i] + Len(gs[i].trace) + 1 < at[i + 1]
    BY <1>1, <1>3, <2>1, <2>2, WrittenBefore
  <2>4. at[i] = bt[i] /\ at[i + 1] = bt[i + 1] /\ bt[i + 1] \in 1..e /\ bt[i] \in 1..e
    BY <1>6, <1>9, <2>1
  <2>5. Len(gs[i].trace) \in Nat
    <3>1. gs[i].trace \in Seq(TextLine)
      BY <1>11, <2>1, WholeIsPrinted
    <3> QED BY <3>1
  <2>6. bt[i] + Len(gs[i].trace) + 1 < e
    BY <1>1, <2>3, <2>4, <2>5
  <2> QED BY <1>11, <2>1, <2>6, SectionIsThere DEF e
<1>13. ASSUME hs # <<>> PROVE IsLeft(hs[p], gs[p])
  <2>1. p # 0
    <3>1. PICK W : hs \in Seq(Goroutines(W))
      BY DEF IsPrintable, IsDump
    <3> QED BY <1>13, <3>1 DEF p
  <2>2. p \in 1..p
    BY <1>2, <2>1
  <2> QED BY <1>11, <2>2, SectionIsLeft DEF e
<1>14. Len(hs) = p /\ Len(gs) = q
  BY DEF p, q
<1> QED BY <1>10, <1>12, <1>13, <1>14, Zenon DEF IsCutOf, IsLeft

-----------------------------------------------------------------------------
(* What a crash leaves of a dump.                                          *)

(* After a crash the file has the beginning of what was saved, the loader  *)
(* reads that, and does not fail on it.                                    *)
CrashInv ==
  saving = "crashed" /\ ~checked /\ failures = 0 =>
    /\ IsStop(file, Printed(saved))
    /\ loading \in {"scanning", "loaded"} => input = Lines(file)
    /\ NoHeaderWithin(saved) /\ NumbersInRange(saved) => loading # "failed"

(* A process that dies while it writes leaves the beginning of the text.   *)
LEMMA DeathStops ==
  ASSUME file \in Seq(Token), pieces \in Seq(Seq(Token) \ {<<>>}),
         DieWriting, NEW text \in Seq(Token), file \o FlattenSeq(pieces) = text
  PROVE  IsStop(file', text)
<1> DEFINE n == Len(file)
<1>1. n \in Nat
  OBVIOUS
<1>2. CASE pieces = <<>>
  <2>1. file' = file
    BY <1>2 DEF DieWriting
  <2>2. FlattenSeq(pieces) = <<>>
    BY <1>2, FlattenProperties
  <2>3. file = text
    BY <2>2
  <2>4. SubSeq(text, 1, n) = text /\ n \in 0..Len(text)
    BY <2>3
  <2> QED BY <2>1, <2>3, <2>4 DEF IsStop
<1>3. CASE pieces # <<>>
  <2>1. file' \in Stopped
    BY <1>3 DEF DieWriting
  <2> DEFINE rest == Head(pieces)
             tail == FlattenSeq(Tail(pieces))
             all == rest \o tail
  <2>2. rest \in Seq(Token) /\ rest # <<>> /\ tail \in Seq(Token) /\ file \o all = text
    BY <1>3, FirstPiece
  <2>3. Stopped = {file} \cup {Append(file, t) : t \in Torn(rest[1])}
    BY DEF Stopped, Rest
  <2> HIDE DEF rest, tail, all
  <2>4. all \in Seq(Token) /\ Len(all) \in Nat /\ Len(all) # 0 /\ all[1] = rest[1]
    <3>1. Len(rest) \in Nat /\ Len(rest) # 0 /\ Len(tail) \in Nat
      BY <2>2
    <3>2. /\ all \in Seq(Token) /\ Len(all) = Len(rest) + Len(tail)
          /\ all[1] = rest[1]
      BY <2>2, <3>1 DEF all
    <3> QED BY <3>1, <3>2
  <2>5. /\ Len(text) = n + Len(all) /\ text[n + 1] = all[1]
        /\ \A k \in 1..n : text[k] = file[k]
    <3> DEFINE d == Len(all)
    <3>1. /\ Len(text) = n + d
          /\ \A k \in 1..(n + d) :
               text[k] = IF k <= n THEN file[k] ELSE all[k - n]
      BY <2>2, <2>4, ConcatProperties
    <3>2. d \in Nat /\ d # 0
      BY <2>4
    <3> HIDE DEF n, d
    <3>3. n + 1 \in 1..(n + d) /\ ~(n + 1 <= n) /\ (n + 1) - n = 1
      BY <1>1, <3>2
    <3>4. \A k \in 1..n : k \in 1..(n + d) /\ k <= n
      BY <1>1, <3>2
    <3> QED BY <3>1, <3>3, <3>4 DEF d
  <2>6. n < Len(text) /\ n \in 0..Len(text)
    BY <1>1, <2>4, <2>5
  <2>7. SubSeq(text, 1, n) = file
    BY <2>5, <2>6
  <2>8. text[n + 1] = rest[1]
    BY <2>4, <2>5
  <2>9. CASE file' = file
    BY <2>6, <2>7, <2>9 DEF IsStop
  <2>10. CASE \E t \in Torn(rest[1]) : file' = Append(file, t)
    BY <2>6, <2>7, <2>8, <2>10 DEF IsStop
  <2> QED BY <2>1, <2>3, <2>9, <2>10
<1> QED BY <1>2, <1>3

(* The lines of what a crash leaves are those of the text, cut.            *)
LEMMA StoppedIsCut ==
  ASSUME NEW gs, IsPrintable(gs), NoHeaderWithin(gs), NumbersInRange(gs),
         NEW f \in Seq(Token), IsStop(f, Printed(gs))
  PROVE  \E m, at : AreCutFrom(Lines(f), m, Lines(Printed(gs)), gs, at)
<1> DEFINE text == Printed(gs)
           whole == Lines(text)
<1>1. text \in Seq(Token) /\ HasLines(text, whole) /\ whole \in Seq(Seq(Wording))
  BY PrintedLines
<1>2. PICK at : IsTextOf(whole, gs, at)
  BY PrintedLines
<1>3. Seq(Seq(Wording)) \subseteq Seq(Seq(Token))
  <2>1. Seq(Wording) \subseteq Seq(Token)
    BY PlainTokens
  <2> QED BY <2>1
<1>4. Lines(f) \in Seq(Seq(Token)) /\ whole \in Seq(Seq(Token))
  BY <1>1, <1>3, LinesAreTyped
<1> HIDE DEF text, whole
<1>5. PICK m : AreCut(Lines(f), whole, m)
  BY <1>1, <1>4, StoppedLines DEF text
<1>6. AreCutFrom(Lines(f), m, whole, gs, at)
  BY <1>1, <1>2, <1>4, <1>5 DEF AreCutFrom
<1> QED BY <1>6 DEF whole, text

(* The process starts with no crash behind it.                             *)
LEMMA CrashInit == ArchiveInit => CrashInv
BY DEF ArchiveInit, SaverInit, CrashInv

(* Each step of the archive keeps CrashInv.  The steps that matter are the *)
(* crash itself, and those of the loader on what it has left.              *)
LEMMA CrashNext ==
  ASSUME CrashInv, SavedInv, FileInv, [Next]_archiveVars
  PROVE  CrashInv'
<1> DEFINE Died == saving = "crashed" /\ ~checked /\ failures = 0
           Safe(gs) == NoHeaderWithin(gs) /\ NumbersInRange(gs)
<1>1. Died =>
        /\ IsStop(file, Printed(saved))
        /\ loading \in {"scanning", "loaded"} => input = Lines(file)
        /\ Safe(saved) => loading # "failed"
  BY DEF CrashInv
<1>2. SUFFICES ASSUME Died'
               PROVE  /\ IsStop(file', Printed(saved'))
                      /\ loading' \in {"scanning", "loaded"} => input' = Lines(file')
                      /\ Safe(saved') => loading' # "failed"
  BY DEF CrashInv
<1>3. IsPrintable(saved)
  BY DEF SavedInv, IsPrintable
<1> HIDE DEF Safe
<1>4. CASE Load
  <2>1. /\ UNCHANGED <<saverVars, saved>>
        /\ loading' = "scanning" /\ input' = Lines(file)
    BY <1>4 DEF Load, LoadFrom
  <2>2. file' = file /\ saved' = saved /\ Died
    BY <1>2, <2>1 DEF saverVars
  <2>3. IsStop(file', Printed(saved')) /\ input' = Lines(file')
    BY <1>1, <2>1, <2>2
  <2> QED BY <2>1, <2>3
<1>5. CASE ScanFile
  <2>1. Scan /\ UNCHANGED <<saverVars, saved>>
    BY <1>5 DEF ScanFile
  <2>2. file' = file /\ saved' = saved /\ Died
    BY <1>2, <2>1 DEF saverVars
  <2>3. loading = "scanning"
    BY <2>1 DEF Scan, Scans, ScanTooLong, ScanHeader, ScanHeaderOutOfRange, ScanBlank,
                ScanLine, ScanLineOutOfRange, ScanStrayLine, EndOfText
  <2>4. input = Lines(file) /\ IsStop(file, Printed(saved))
    BY <1>1, <2>2, <2>3
  <2>5. input' = input
    BY <2>1, Zenon DEF Scan, ScanTooLong, ScanHeader, ScanHeaderOutOfRange, ScanBlank,
                ScanLine, ScanLineOutOfRange, ScanStrayLine, EndOfText, NextLine, FailToLoad
  <2>6. ASSUME Safe(saved) PROVE loading' # "failed"
    <3>1. file \in Seq(Token) /\ input \in Seq(Seq(Wording)) /\ scanned \in 0..Len(input)
      BY DEF FileInv, TextsInv
    <3>2. PICK m, at : AreCutFrom(Lines(file), m, Lines(Printed(saved)), saved, at)
      BY <1>3, <2>4, <2>6, <3>1, StoppedIsCut DEF Safe
    <3>3. Takes(input)
      BY <2>4, <3>2, CutIsTaken
    <3>4. loading' \in {"scanning", "loaded"}
      BY <2>1, <3>1, <3>3, TakesTheLine
    <3> QED BY <3>4
  <2> QED BY <2>2, <2>4, <2>5, <2>6
<1>6. CASE SaveDump \/ ExportDump
  <2>1. saving' \in {"failed", "writing"}
    <3>1. \E w, l : Create(w, l)
      BY <1>6, Zenon DEF SaveDump, ExportDump, Save, Export
    <3> QED BY <3>1, Zenon DEF Create
  <2> QED BY <1>2, <2>1
<1>7. CASE WriteFile
  <2>1. saving' \in {"writing", "saved", "failed"}
    BY <1>7, Zenon DEF WriteFile, Write, WriteSome, WriteFails, Sync, Writing
  <2> QED BY <1>2, <2>1
<1>8. CASE Crash
  <2>1. /\ DieWriting /\ loading' = "none" /\ saved' = saved
    BY <1>8 DEF Crash
  <2>2. saving = "writing" /\ ~checked /\ failures = 0
    BY <1>2, <2>1 DEF DieWriting
  <2>3. meant = Printed(saved) /\ file \o FlattenSeq(pieces) = meant
    BY <2>2 DEF SavedInv, FileInv, WriterInv
  <2>4. /\ file \in Seq(Token) /\ pieces \in Seq(Seq(Token) \ {<<>>})
        /\ Printed(saved) \in Seq(Token)
    BY <1>3, PrintedLines DEF FileInv, TextsInv, WriterInv
  <2>5. IsStop(file', Printed(saved))
    BY <2>1, <2>3, <2>4, DeathStops
  <2> QED BY <2>1, <2>5
<1>9. CASE UNCHANGED archiveVars
  <2>1. /\ file' = file /\ saved' = saved /\ Died
        /\ loading' = loading /\ input' = input
    BY <1>2, <1>9 DEF archiveVars, saverVars, loaderVars
  <2> QED BY <1>1, <2>1
<1> QED BY <1>4, <1>5, <1>6, <1>7, <1>8, <1>9, Zenon DEF Next

(* Whatever the dump, and wherever the process died while Save wrote it,   *)
(* what is in the file loads without an error and gives the goroutines     *)
(* that were saved first, of which only the last may be cut short.         *)
THEOREM CrashesCutShort == Spec => []CutShort
<1>1. FileInv /\ SavedInv /\ CrashInv => CutShort
  <2> SUFFICES ASSUME FileInv, SavedInv, CrashInv,
                      saving = "crashed", ~checked, failures = 0,
                      NoHeaderWithin(saved), NumbersInRange(saved)
               PROVE  loading # "failed" /\ (loading = "loaded" => IsCutOf(dump, saved))
    BY DEF CutShort
  <2>1. loading # "failed" /\ IsStop(file, Printed(saved))
    BY DEF CrashInv
  <2>2. ASSUME loading = "loaded" PROVE IsCutOf(dump, saved)
    <3>1. input = Lines(file)
      BY <2>2 DEF CrashInv
    <3>2. IsPrintable(saved) /\ IsPrintable(dump)
      BY <2>2, LoadedIsPrintable DEF SavedInv, IsPrintable
    <3>3. scanned = Len(input) /\ file \in Seq(Token)
      BY <2>2 DEF FileInv, TextsInv, LoadInv
    <3>4. PICK bt \in [DOMAIN dump -> 1..Len(input)] :
            AreSections(dump, bt, input, Len(input))
      BY <2>2, <3>3 DEF FileInv, LoadInv
    <3>5. PICK m, at : AreCutFrom(input, m, Lines(Printed(saved)), saved, at)
      BY <2>1, <3>1, <3>2, <3>3, StoppedIsCut
    <3> QED BY <3>2, <3>4, <3>5, CutSections
  <2> QED BY <2>1, <2>2
<1>2. Spec => [](FileInv /\ SavedInv /\ CrashInv)
  BY CrashInit, CrashNext, SavedInvariant, PTL DEF Spec
<1> QED BY <1>1, <1>2, PTL

=============================================================================
