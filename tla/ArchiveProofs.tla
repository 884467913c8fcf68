--------------------------- MODULE ArchiveProofs ----------------------------
(***************************************************************************)
(* Proofs about loading, for every text: what the loader has read so far   *)
(* is what the lines say (LoadsWhatItSays), and a goroutine does not       *)
(* change once it is frozen (FrozenForGood).                               *)
(***************************************************************************)
EXTENDS Archive, TLAPS

(* The goroutines whose fields are in W.                                   *)
Goroutines(W) ==
  [header : W, id : W, state : W, duration : W, labels : W, createdBy : W,
   lineCount : Nat, buf : Seq(W), hasher : W, trace : Seq(W), hash : W,
   isFrozen : BOOLEAN]

IsGoroutine(g) == \E W : g \in Goroutines(W)
IsDump(gs)     == \E W : gs \in Seq(Goroutines(W))

LEMMA WiderGoroutines ==
  ASSUME NEW V, NEW W, V \subseteq W
  PROVE  /\ Goroutines(V) \subseteq Goroutines(W)
         /\ Seq(Goroutines(V)) \subseteq Seq(Goroutines(W))
<1>1. Seq(V) \subseteq Seq(W)
  OBVIOUS
<1>2. Goroutines(V) \subseteq Goroutines(W)
  BY <1>1 DEF Goroutines
<1>3. Seq(Goroutines(V)) \subseteq Seq(Goroutines(W))
  BY <1>2
<1> QED BY <1>2, <1>3

-----------------------------------------------------------------------------
(* What NewGoroutine, AddLine and Freeze return.                           *)
LEMMA NewIsGoroutine ==
  ASSUME NEW line
  PROVE  LET g == NewGoroutine(line)
         IN  /\ IsGoroutine(g)
             /\ ~g.isFrozen /\ g.buf = <<>> /\ g.trace = <<>>
             /\ g.lineCount = 1 /\ g.createdBy = 0
<1> DEFINE g == NewGoroutine(line)
           W == {g.header, g.id, g.state, g.duration, g.labels, g.createdBy,
                 g.hasher, g.hash}
<1>1. g \in Goroutines(W)
  BY DEF Goroutines, NewGoroutine
<1> QED BY <1>1 DEF IsGoroutine, NewGoroutine

LEMMA FreezeKeeps ==
  ASSUME NEW W, NEW g \in Goroutines(W), ~g.isFrozen
  PROVE  LET f == Freeze(g)
         IN  /\ IsGoroutine(f)
             /\ f.isFrozen /\ f.buf = <<>> /\ f.trace = g.buf
             /\ f.header = g.header /\ f.id = g.id /\ f.state = g.state
             /\ f.duration = g.duration /\ f.labels = g.labels
             /\ f.createdBy = g.createdBy /\ f.lineCount = g.lineCount
<1> DEFINE f == Freeze(g)
           V == W \cup {g.hasher}
<1>1. f = [g EXCEPT !.isFrozen = TRUE, !.trace = g.buf, !.buf = <<>>,
                    !.hash = g.hasher]
  BY DEF Freeze
<1>2. g.buf \in Seq(V) /\ <<>> \in Seq(V)
  BY DEF Goroutines
<1>3. f \in Goroutines(V)
  BY <1>1, <1>2 DEF Goroutines
<1> QED BY <1>1, <1>3 DEF IsGoroutine, Goroutines

LEMMA AddLineKeeps ==
  ASSUME NEW W, NEW g \in Goroutines(W), ~g.isFrozen, NEW line
  PROVE  LET f == AddLine(g, line)
         IN  /\ IsGoroutine(f)
             /\ ~f.isFrozen /\ f.buf = Append(g.buf, line) /\ f.trace = g.trace
             /\ f.header = g.header /\ f.id = g.id /\ f.state = g.state
             /\ f.duration = g.duration /\ f.labels = g.labels
             /\ f.lineCount = g.lineCount + 1
             /\ f.createdBy = IF IsCreated(line) THEN ParentOn(line)
                              ELSE g.createdBy
<1> DEFINE f == AddLine(g, line)
           created == IF IsCreated(line) THEN ParentOn(line) ELSE g.createdBy
           hasher == IF IsLocation(line) THEN Append(g.hasher, line[1].spec)
                     ELSE g.hasher
           V == W \cup {line, created, hasher}
<1> HIDE DEF created, hasher
<1>1. f = [g EXCEPT !.lineCount = g.lineCount + 1, !.buf = Append(g.buf, line),
                    !.createdBy = created, !.hasher = hasher]
  BY DEF AddLine, created, hasher, Goroutines
<1>2. Append(g.buf, line) \in Seq(V)
  BY DEF Goroutines
<1>3. g.trace \in Seq(V)
  BY DEF Goroutines
<1>4. created \in V /\ hasher \in V /\ W \subseteq V
  OBVIOUS
<1> HIDE DEF f, V
<1>5. g.lineCount + 1 \in Nat
  BY DEF Goroutines
<1>6. g \in [header : V, id : V, state : V, duration : V, labels : V,
             createdBy : V, lineCount : Nat, buf : Seq(W), hasher : V,
             trace : Seq(W), hash : V, isFrozen : BOOLEAN]
  BY <1>4 DEF Goroutines
<1>7. f \in Goroutines(V)
  BY <1>1, <1>2, <1>3, <1>4, <1>5, <1>6 DEF Goroutines
<1>8. /\ ~f.isFrozen /\ f.buf = Append(g.buf, line) /\ f.trace = g.trace
      /\ f.header = g.header /\ f.id = g.id /\ f.state = g.state
      /\ f.duration = g.duration /\ f.labels = g.labels
      /\ f.lineCount = g.lineCount + 1 /\ f.createdBy = created
  BY <1>1, <1>6
<1> QED BY <1>7, <1>8 DEF IsGoroutine, f, created

-----------------------------------------------------------------------------
(* Appending a goroutine to a dump, replacing one, freezing the open one.  *)
LEMMA DumpWith ==
  ASSUME NEW gs, IsDump(gs), NEW g, IsGoroutine(g)
  PROVE  /\ IsDump(Append(gs, g))
         /\ Len(gs) \in Nat /\ Len(Append(gs, g)) = Len(gs) + 1
         /\ \A i \in 1..Len(gs) : Append(gs, g)[i] = gs[i]
         /\ Append(gs, g)[Len(gs) + 1] = g
<1>1. PICK V : gs \in Seq(Goroutines(V))
  BY DEF IsDump
<1>2. PICK W : g \in Goroutines(W)
  BY DEF IsGoroutine
<1>3. gs \in Seq(Goroutines(V \cup W)) /\ g \in Goroutines(V \cup W)
  BY <1>1, <1>2, WiderGoroutines
<1>4. Append(gs, g) \in Seq(Goroutines(V \cup W))
  BY <1>3
<1> QED BY <1>1, <1>4 DEF IsDump

LEMMA DumpReplacing ==
  ASSUME NEW gs, IsDump(gs), NEW i \in DOMAIN gs, NEW g, IsGoroutine(g)
  PROVE  LET hs == [gs EXCEPT ![i] = g]
         IN  /\ IsDump(hs) /\ Len(hs) = Len(gs) /\ DOMAIN hs = DOMAIN gs
             /\ hs[i] = g
             /\ \A j \in DOMAIN gs : j # i => hs[j] = gs[j]
<1>1. PICK V : gs \in Seq(Goroutines(V))
  BY DEF IsDump
<1>2. PICK W : g \in Goroutines(W)
  BY DEF IsGoroutine
<1>3. gs \in Seq(Goroutines(V \cup W)) /\ g \in Goroutines(V \cup W)
  BY <1>1, <1>2, WiderGoroutines
<1>4. [gs EXCEPT ![i] = g] \in Seq(Goroutines(V \cup W))
  BY <1>3
<1> QED BY <1>1, <1>4 DEF IsDump

LEMMA InDump ==
  ASSUME NEW gs, IsDump(gs)
  PROVE  /\ Len(gs) \in Nat /\ DOMAIN gs = 1..Len(gs)
         /\ \A i \in DOMAIN gs : IsGoroutine(gs[i])
BY DEF IsDump, IsGoroutine

LEMMA BodyIsList ==
  ASSUME NEW g, IsGoroutine(g)
  PROVE  /\ g.isFrozen \in BOOLEAN
         /\ \E W : g.buf \in Seq(W) /\ Body(g) \in Seq(W)
BY DEF IsGoroutine, Goroutines, Body

(* Goroutine h says what g says, although one of them may be frozen.       *)
Alike(g, h) ==
  /\ h.header = g.header /\ h.id = g.id /\ h.state = g.state
  /\ h.duration = g.duration /\ h.labels = g.labels
  /\ h.createdBy = g.createdBy /\ h.lineCount = g.lineCount
  /\ Body(h) = Body(g)

(* The goroutine i is the open one, and no other.                          *)
OnlyOpen(gs, i) ==
  /\ i \in {0, Len(gs)}
  /\ \A j \in DOMAIN gs : gs[j].isFrozen <=> j # i

LEMMA FrozenCurrent ==
  ASSUME NEW gs, IsDump(gs), NEW i, OnlyOpen(gs, i)
  PROVE  LET hs == FreezeCurrent(gs, i)
         IN  /\ IsDump(hs) /\ Len(hs) = Len(gs) /\ DOMAIN hs = DOMAIN gs
             /\ OnlyOpen(hs, 0)
             /\ \A j \in DOMAIN gs : Alike(gs[j], hs[j])
             /\ \A j \in DOMAIN gs : gs[j].isFrozen => hs[j] = gs[j]
<1> DEFINE hs == FreezeCurrent(gs, i)
<1>1. Len(gs) \in Nat /\ DOMAIN gs = 1..Len(gs)
  BY InDump
<1>2. CASE i = 0
  <2>1. hs = gs
    BY <1>2 DEF FreezeCurrent
  <2>2. OnlyOpen(hs, 0)
    BY <1>2, <2>1
  <2>3. \A j \in DOMAIN gs : Alike(gs[j], gs[j])
    BY DEF Alike
  <2> QED BY <2>1, <2>2, <2>3
<1>3. CASE i # 0
  <2>1. i = Len(gs) /\ i \in DOMAIN gs /\ ~gs[i].isFrozen /\ IsGoroutine(gs[i])
    <3>1. i = Len(gs)
      BY <1>3 DEF OnlyOpen
    <3>2. i \in DOMAIN gs
      BY <1>1, <1>3, <3>1
    <3>3. ~gs[i].isFrozen
      BY <3>2, Zenon DEF OnlyOpen
    <3> QED BY <3>1, <3>2, <3>3, InDump
  <2>2. PICK W : gs[i] \in Goroutines(W)
    BY <2>1 DEF IsGoroutine
  <2> DEFINE f == Freeze(gs[i])
  <2>3. /\ IsGoroutine(f) /\ f.isFrozen /\ Alike(gs[i], f)
    <3>1. /\ IsGoroutine(f) /\ f.isFrozen /\ f.trace = gs[i].buf
          /\ f.header = gs[i].header /\ f.id = gs[i].id
          /\ f.state = gs[i].state /\ f.duration = gs[i].duration
          /\ f.labels = gs[i].labels /\ f.createdBy = gs[i].createdBy
          /\ f.lineCount = gs[i].lineCount
      BY <2>1, <2>2, FreezeKeeps, Zenon
    <3> HIDE DEF f
    <3>2. Body(f) = Body(gs[i])
      BY <2>1, <3>1 DEF Body
    <3> QED BY <3>1, <3>2 DEF Alike
  <2>4. hs = [gs EXCEPT ![i] = f]
    BY <1>3 DEF FreezeCurrent
  <2> HIDE DEF f, hs
  <2>5. /\ IsDump(hs) /\ Len(hs) = Len(gs) /\ DOMAIN hs = DOMAIN gs
        /\ hs[i] = f
        /\ \A j \in DOMAIN gs : j # i => hs[j] = gs[j]
    <3>1. i \in DOMAIN gs /\ IsGoroutine(f)
      BY <2>1, <2>3
    <3>2. LET r == [gs EXCEPT ![i] = f]
          IN  /\ IsDump(r) /\ Len(r) = Len(gs) /\ DOMAIN r = DOMAIN gs
              /\ r[i] = f
              /\ \A j \in DOMAIN gs : j # i => r[j] = gs[j]
      BY <3>1, DumpReplacing, Zenon
    <3> QED BY <2>4, <3>2, Zenon
  <2>6. \A j \in DOMAIN gs : hs[j].isFrozen
    BY <2>3, <2>5, Zenon DEF OnlyOpen
  <2>7. OnlyOpen(hs, 0)
    <3>1. \A j \in DOMAIN hs : hs[j].isFrozen <=> j # 0
      <4>1. \A j \in DOMAIN hs : j # 0
        BY <1>1, <2>5
      <4> QED BY <2>5, <2>6, <4>1, Zenon
    <3> QED BY <3>1, Zenon DEF OnlyOpen
  <2>8. \A j \in DOMAIN gs : Alike(gs[j], hs[j])
    BY <2>3, <2>5 DEF Alike
  <2>9. \A j \in DOMAIN gs : gs[j].isFrozen => hs[j] = gs[j]
    BY <2>1, <2>5
  <2> QED BY <2>5, <2>7, <2>8, <2>9 DEF hs
<1> QED BY <1>2, <1>3

-----------------------------------------------------------------------------
(* Sections: what the step of the loader makes of one.                     *)
LEMMA AlikeSection ==
  ASSUME NEW g, NEW h, Alike(g, h), NEW text, NEW n, IsSection(g, text, n)
  PROVE  IsSection(h, text, n) /\ AfterBody(h, n) = AfterBody(g, n)
BY DEF Alike, IsSection, AfterBody

LEMMA NewSection ==
  ASSUME NEW text, NEW n \in Nat,
         IsHeader(LineOf(text, n)), HeaderInRange(LineOf(text, n))
  PROVE  LET g == NewGoroutine(LineOf(text, n))
         IN  /\ IsGoroutine(g) /\ ~g.isFrozen
             /\ IsSection(g, text, n) /\ AfterBody(g, n) = n + 1
<1> DEFINE g == NewGoroutine(LineOf(text, n))
<1>1. /\ IsGoroutine(g) /\ ~g.isFrozen /\ g.buf = <<>>
      /\ g.lineCount = 1 /\ g.createdBy = 0
  BY NewIsGoroutine, Zenon
<1> HIDE DEF g
<1>2. Body(g) = <<>>
  BY <1>1 DEF Body
<1>3. IsParentIn(Body(g), g.createdBy)
  BY <1>1, <1>2 DEF IsParentIn
<1>4. IsSection(g, text, n)
  BY <1>1, <1>2, <1>3 DEF IsSection, g
<1>5. AfterBody(g, n) = n + 1
  BY <1>2 DEF AfterBody
<1> QED BY <1>1, <1>4, <1>5 DEF g

LEMMA ParentInLonger ==
  ASSUME NEW W, NEW trace \in Seq(W), NEW id, IsParentIn(trace, id), NEW line
  PROVE  IsParentIn(Append(trace, line),
                    IF IsCreated(line) THEN ParentOn(line) ELSE id)
<1> DEFINE longer == Append(trace, line)
<1>1. /\ Len(trace) \in Nat /\ DOMAIN trace = 1..Len(trace)
      /\ DOMAIN longer = 1..(Len(trace) + 1)
      /\ longer[Len(trace) + 1] = line
      /\ \A k \in DOMAIN trace : longer[k] = trace[k]
  OBVIOUS
<1> HIDE DEF longer
<1>2. CASE IsCreated(line)
  <2>1. \A j \in DOMAIN longer : j > Len(trace) + 1 => ~IsCreated(longer[j])
    BY <1>1
  <2> QED BY <1>1, <1>2, <2>1 DEF IsParentIn, longer
<1>3. CASE ~IsCreated(line)
  <2>1. IsParentIn(longer, id)
    BY <1>1, <1>3 DEF IsParentIn
  <2> QED BY <1>3, <2>1 DEF longer
<1> QED BY <1>2, <1>3

LEMMA LongerSection ==
  ASSUME NEW g, IsGoroutine(g), ~g.isFrozen,
         NEW text, NEW n \in Nat, IsSection(g, text, n),
         IsText(LineOf(text, AfterBody(g, n)))
  PROVE  LET h == AddLine(g, LineOf(text, AfterBody(g, n)))
         IN  /\ IsGoroutine(h) /\ ~h.isFrozen
             /\ IsSection(h, text, n) /\ AfterBody(h, n) = AfterBody(g, n) + 1
<1> DEFINE line == LineOf(text, AfterBody(g, n))
           h == AddLine(g, line)
<1>1. PICK W : g \in Goroutines(W)
  BY DEF IsGoroutine
<1>2. g.buf \in Seq(W)
  BY <1>1 DEF Goroutines
<1>3. /\ IsGoroutine(h) /\ ~h.isFrozen /\ h.buf = Append(g.buf, line)
      /\ h.header = g.header /\ h.id = g.id /\ h.state = g.state
      /\ h.duration = g.duration /\ h.labels = g.labels
      /\ h.lineCount = g.lineCount + 1
      /\ h.createdBy = IF IsCreated(line) THEN ParentOn(line) ELSE g.createdBy
  BY <1>1, AddLineKeeps, Zenon
<1>4. Body(g) = g.buf /\ Body(h) = Append(g.buf, line)
  BY <1>3 DEF Body
<1>5. AfterBody(g, n) = n + Len(g.buf) + 1
  BY <1>4 DEF AfterBody
<1> HIDE DEF h
<1>6. AfterBody(h, n) = AfterBody(g, n) + 1
  BY <1>2, <1>4, <1>5 DEF AfterBody
<1>7. IsParentIn(Body(h), h.createdBy)
  <2>1. IsParentIn(g.buf, g.createdBy)
    BY <1>4 DEF IsSection
  <2> QED BY <1>2, <1>3, <1>4, <2>1, ParentInLonger
<1>8. h.lineCount = Len(Body(h)) + 1
  BY <1>2, <1>3, <1>4 DEF IsSection
<1>9. \A k \in DOMAIN Body(h) :
        Body(h)[k] = LineOf(text, n + k) /\ IsText(LineOf(text, n + k))
  <2> HIDE DEF line
  <2>1. \A k \in DOMAIN g.buf :
          g.buf[k] = LineOf(text, n + k) /\ IsText(LineOf(text, n + k))
    BY <1>4 DEF IsSection
  <2>2. line = LineOf(text, n + (Len(g.buf) + 1)) /\ IsText(line)
    BY <1>2, <1>5 DEF line
  <2> QED BY <1>2, <1>4, <2>1, <2>2
<1>10. IsSection(h, text, n)
  BY <1>3, <1>7, <1>8, <1>9 DEF IsSection
<1> QED BY <1>3, <1>6, <1>10 DEF h

-----------------------------------------------------------------------------
(* The loader has read m lines, and goroutine i is open.  The body of the  *)
(* open goroutine reaches to the scanner and that of no other does: this   *)
(* is what LoadsWhatItSays lacks to be inductive.                          *)
Frontier(gs, at, i, m) ==
  \A j \in DOMAIN gs :
    IF j = i THEN AfterBody(gs[j], at[j]) = m + 1
    ELSE AfterBody(gs[j], at[j]) <= m

Reading(gs, i, text, m) ==
  \E at \in [DOMAIN gs -> 1..m] :
    AreSections(gs, at, text, m) /\ Frontier(gs, at, i, m)

LEMMA AfterBodyNumber ==
  ASSUME NEW g, IsGoroutine(g), NEW n \in Nat
  PROVE  AfterBody(g, n) \in Nat
<1>1. PICK W : Body(g) \in Seq(W)
  BY BodyIsList
<1> QED BY <1>1 DEF AfterBody

LEMMA ReadingFrozen ==
  ASSUME NEW gs, NEW hs, NEW i, NEW text, NEW m \in Nat, Reading(gs, i, text, m),
         DOMAIN hs = DOMAIN gs, \A j \in DOMAIN gs : Alike(gs[j], hs[j])
  PROVE  Reading(hs, i, text, m)
<1>1. PICK at \in [DOMAIN gs -> 1..m] :
        AreSections(gs, at, text, m) /\ Frontier(gs, at, i, m)
  BY DEF Reading
<1>2. \A j \in DOMAIN gs : IsSection(hs[j], text, at[j])
                          /\ AfterBody(hs[j], at[j]) = AfterBody(gs[j], at[j])
  BY <1>1, AlikeSection DEF AreSections
<1>3. AreSections(hs, at, text, m)
  BY <1>1, <1>2 DEF AreSections
<1>4. Frontier(hs, at, i, m)
  BY <1>1, <1>2 DEF Frontier
<1> QED BY <1>1, <1>3, <1>4 DEF Reading

(* A blank line, or a line of text that is in no section.                  *)
LEMMA ReadingPast ==
  ASSUME NEW gs, IsDump(gs), NEW i, NEW text, NEW m \in Nat,
         Reading(gs, i, text, m),
         ~IsHeader(LineOf(text, m + 1)),
         i \in DOMAIN gs => ~IsText(LineOf(text, m + 1))
  PROVE  Reading(gs, 0, text, m + 1)
<1>1. PICK at \in [DOMAIN gs -> 1..m] :
        AreSections(gs, at, text, m) /\ Frontier(gs, at, i, m)
  BY DEF Reading
<1>2. at \in [DOMAIN gs -> 1..(m + 1)]
  BY <1>1
<1>3. \A j \in DOMAIN gs : AfterBody(gs[j], at[j]) \in Nat /\ j # 0
  BY <1>1, InDump, AfterBodyNumber
<1>4. \A j \in DOMAIN gs :
        /\ AfterBody(gs[j], at[j]) <= m + 1
        /\ AfterBody(gs[j], at[j]) = m + 1 => j = i
  BY <1>1, <1>3 DEF Frontier
<1>5. \A j \in DOMAIN gs : ~IsText(LineOf(text, AfterBody(gs[j], at[j])))
  <2> TAKE j \in DOMAIN gs
  <2>1. CASE AfterBody(gs[j], at[j]) = m + 1
    BY <1>4, <2>1
  <2>2. CASE AfterBody(gs[j], at[j]) # m + 1
    <3>1. AfterBody(gs[j], at[j]) <= m
      BY <1>3, <1>4, <2>2
    <3> QED BY <1>1, <3>1 DEF AreSections
  <2> QED BY <2>1, <2>2
<1>6. AreSections(gs, at, text, m + 1)
  <2>1. \A n \in 1..(m + 1) :
          IsHeader(LineOf(text, n)) => \E j \in DOMAIN gs : at[j] = n
    BY <1>1 DEF AreSections
  <2>2. \A j \in DOMAIN gs : AfterBody(gs[j], at[j]) <= (m + 1) + 1
    BY <1>3, <1>4
  <2> QED BY <1>1, <1>5, <2>1, <2>2 DEF AreSections
<1>7. Frontier(gs, at, 0, m + 1)
  BY <1>3, <1>4 DEF Frontier
<1> QED BY <1>2, <1>6, <1>7 DEF Reading

(* A header, with the open goroutine frozen.                               *)
LEMMA ReadingHeader ==
  ASSUME NEW gs, IsDump(gs), NEW i, NEW text, NEW m \in Nat,
         Reading(gs, i, text, m),
         IsHeader(LineOf(text, m + 1)), HeaderInRange(LineOf(text, m + 1))
  PROVE  Reading(Append(gs, NewGoroutine(LineOf(text, m + 1))), Len(gs) + 1,
                 text, m + 1)
<1> DEFINE new == NewGoroutine(LineOf(text, m + 1))
           hs == Append(gs, new)
<1>1. PICK was \in [DOMAIN gs -> 1..m] :
        AreSections(gs, was, text, m) /\ Frontier(gs, was, i, m)
  BY DEF Reading
<1>2. /\ IsGoroutine(new) /\ IsSection(new, text, m + 1)
      /\ AfterBody(new, m + 1) = (m + 1) + 1
  BY NewSection
<1> HIDE DEF new
<1>3. /\ IsDump(hs) /\ Len(gs) \in Nat /\ Len(hs) = Len(gs) + 1
      /\ \A j \in 1..Len(gs) : hs[j] = gs[j]
      /\ hs[Len(gs) + 1] = new
  BY <1>2, DumpWith
<1> HIDE DEF hs
<1>4. DOMAIN gs = 1..Len(gs) /\ DOMAIN hs = 1..(Len(gs) + 1)
  BY <1>3, InDump
<1> DEFINE at == [j \in DOMAIN hs |-> IF j = Len(gs) + 1 THEN m + 1 ELSE was[j]]
<1>5. /\ at \in [DOMAIN hs -> 1..(m + 1)]
      /\ at[Len(gs) + 1] = m + 1
      /\ \A j \in DOMAIN gs : at[j] = was[j] /\ was[j] \in 1..m /\ hs[j] = gs[j]
  BY <1>1, <1>3, <1>4
<1> HIDE DEF at
<1>6. \A j \in DOMAIN gs : AfterBody(gs[j], was[j]) \in Nat
  BY <1>1, InDump, AfterBodyNumber
<1>7. \A j \in DOMAIN gs :
        /\ AfterBody(gs[j], was[j]) <= m + 1
        /\ AfterBody(hs[j], at[j]) = AfterBody(gs[j], was[j])
  BY <1>1, <1>5, <1>6 DEF Frontier
<1>8. ~IsText(LineOf(text, m + 1))
  BY DEF IsText
<1>9. \A j \in DOMAIN gs : ~IsText(LineOf(text, AfterBody(hs[j], at[j])))
  <2> TAKE j \in DOMAIN gs
  <2>1. CASE AfterBody(gs[j], was[j]) = m + 1
    BY <1>7, <1>8, <2>1
  <2>2. CASE AfterBody(gs[j], was[j]) # m + 1
    <3>1. AfterBody(gs[j], was[j]) <= m
      BY <1>6, <1>7, <2>2
    <3>2. ~IsText(LineOf(text, AfterBody(gs[j], was[j])))
      BY <1>1, <3>1 DEF AreSections
    <3> QED BY <1>7, <3>2
  <2> QED BY <2>1, <2>2
<1>10. AreSections(hs, at, text, m + 1)
  <2>1. \A j, k \in DOMAIN hs : j < k => at[j] < at[k]
    <3> SUFFICES ASSUME NEW j \in DOMAIN hs, NEW k \in DOMAIN hs, j < k
                 PROVE  at[j] < at[k]
      OBVIOUS
    <3>1. j \in DOMAIN gs
      BY <1>3, <1>4
    <3>2. CASE k \in DOMAIN gs
      <4>1. was[j] < was[k]
        BY <1>1, <3>1, <3>2 DEF AreSections
      <4> QED BY <1>5, <3>1, <3>2, <4>1
    <3>3. CASE k = Len(gs) + 1
      BY <1>5, <3>1, <3>3
    <3> QED BY <1>3, <1>4, <3>2, <3>3
  <2>2. \A n \in 1..(m + 1) :
          IsHeader(LineOf(text, n)) => \E j \in DOMAIN hs : at[j] = n
    <3> SUFFICES ASSUME NEW n \in 1..(m + 1), IsHeader(LineOf(text, n))
                 PROVE  \E j \in DOMAIN hs : at[j] = n
      OBVIOUS
    <3>1. CASE n = m + 1
      BY <1>3, <1>4, <1>5, <3>1
    <3>2. CASE n \in 1..m
      <4>1. PICK j \in DOMAIN gs : was[j] = n
        BY <1>1, <3>2 DEF AreSections
      <4> QED BY <1>3, <1>4, <1>5, <4>1
    <3> QED BY <3>1, <3>2
  <2>3. \A j \in DOMAIN gs :
          /\ IsSection(hs[j], text, at[j])
          /\ AfterBody(hs[j], at[j]) \in Nat
    BY <1>1, <1>5, <1>6 DEF AreSections
  <2>4. \A j \in DOMAIN hs :
          /\ IsSection(hs[j], text, at[j])
          /\ AfterBody(hs[j], at[j]) <= (m + 1) + 1
          /\ AfterBody(hs[j], at[j]) <= m + 1 =>
               ~IsText(LineOf(text, AfterBody(hs[j], at[j])))
    <3> TAKE j \in DOMAIN hs
    <3>1. CASE j \in DOMAIN gs
      BY <1>6, <1>7, <1>9, <2>3, <3>1
    <3>2. CASE j = Len(gs) + 1
      BY <1>2, <1>3, <1>5, <3>2
    <3> QED BY <1>3, <1>4, <3>1, <3>2
  <2> QED BY <2>1, <2>2, <2>4 DEF AreSections
<1>11. Frontier(hs, at, Len(gs) + 1, m + 1)
  <2>1. AfterBody(hs[Len(gs) + 1], at[Len(gs) + 1]) = (m + 1) + 1
    BY <1>2, <1>3, <1>5
  <2>2. \A j \in DOMAIN hs : j # Len(gs) + 1 => j \in DOMAIN gs
    BY <1>3, <1>4
  <2> QED BY <1>7, <2>1, <2>2 DEF Frontier
<1> QED BY <1>5, <1>10, <1>11 DEF Reading, hs, new

(* A line of the open goroutine.                                           *)
LEMMA ReadingLine ==
  ASSUME NEW gs, IsDump(gs), NEW i \in DOMAIN gs, ~gs[i].isFrozen,
         NEW text, NEW m \in Nat, Reading(gs, i, text, m),
         IsText(LineOf(text, m + 1))
  PROVE  LET h == AddLine(gs[i], LineOf(text, m + 1))
         IN  /\ IsGoroutine(h) /\ ~h.isFrozen
             /\ Reading([gs EXCEPT ![i] = h], i, text, m + 1)
<1> DEFINE h == AddLine(gs[i], LineOf(text, m + 1))
           hs == [gs EXCEPT ![i] = h]
<1>1. PICK at \in [DOMAIN gs -> 1..m] :
        AreSections(gs, at, text, m) /\ Frontier(gs, at, i, m)
  BY DEF Reading
<1>2. /\ IsGoroutine(gs[i]) /\ IsSection(gs[i], text, at[i])
      /\ AfterBody(gs[i], at[i]) = m + 1
  BY <1>1, InDump DEF AreSections, Frontier
<1>3. /\ IsGoroutine(h) /\ ~h.isFrozen /\ IsSection(h, text, at[i])
      /\ AfterBody(h, at[i]) = (m + 1) + 1
  BY <1>1, <1>2, LongerSection
<1> HIDE DEF h
<1>4. /\ DOMAIN hs = DOMAIN gs /\ hs[i] = h
      /\ \A j \in DOMAIN gs : j # i => hs[j] = gs[j]
  OBVIOUS
<1> HIDE DEF hs
<1>5. \A j \in DOMAIN gs : AfterBody(gs[j], at[j]) \in Nat
  BY <1>1, InDump, AfterBodyNumber
<1>6. \A j \in DOMAIN gs : j # i => AfterBody(gs[j], at[j]) <= m
  BY <1>1 DEF Frontier
<1>7. \A j \in DOMAIN hs :
        /\ IsSection(hs[j], text, at[j])
        /\ AfterBody(hs[j], at[j]) <= (m + 1) + 1
        /\ AfterBody(hs[j], at[j]) <= m + 1 =>
             ~IsText(LineOf(text, AfterBody(hs[j], at[j])))
  <2> TAKE j \in DOMAIN hs
  <2>1. CASE j = i
    BY <1>3, <1>4, <2>1
  <2>2. CASE j # i
    <3>1. AfterBody(gs[j], at[j]) <= m /\ hs[j] = gs[j]
      BY <1>4, <1>6, <2>2
    <3>2. /\ IsSection(gs[j], text, at[j])
          /\ ~IsText(LineOf(text, AfterBody(gs[j], at[j])))
      BY <1>1, <1>4, <3>1 DEF AreSections
    <3> QED BY <1>4, <1>5, <3>1, <3>2
  <2> QED BY <2>1, <2>2
<1>8. ~IsHeader(LineOf(text, m + 1))
  BY DEF IsText
<1>9. AreSections(hs, at, text, m + 1)
  <2>1. \A n \in 1..(m + 1) :
          IsHeader(LineOf(text, n)) => \E j \in DOMAIN hs : at[j] = n
    BY <1>1, <1>4, <1>8 DEF AreSections
  <2>2. \A j, k \in DOMAIN hs : j < k => at[j] < at[k]
    BY <1>1, <1>4 DEF AreSections
  <2> QED BY <1>7, <2>1, <2>2 DEF AreSections
<1>10. Frontier(hs, at, i, m + 1)
  BY <1>3, <1>4, <1>5, <1>6 DEF Frontier
<1>11. at \in [DOMAIN hs -> 1..(m + 1)]
  BY <1>1, <1>4
<1> QED BY <1>3, <1>9, <1>10, <1>11 DEF Reading, hs, h

-----------------------------------------------------------------------------
(* Which goroutine is open.                                                *)
LEMMA OpenIsIn ==
  ASSUME NEW gs, IsDump(gs), NEW i, OnlyOpen(gs, i), i # 0
  PROVE  i \in DOMAIN gs /\ ~gs[i].isFrozen
<1>1. i = Len(gs) /\ i \in DOMAIN gs
  BY InDump DEF OnlyOpen
<1> QED BY <1>1, Zenon DEF OnlyOpen

LEMMA OnlyOpenAppended ==
  ASSUME NEW gs, IsDump(gs), OnlyOpen(gs, 0),
         NEW g, IsGoroutine(g), ~g.isFrozen
  PROVE  IsDump(Append(gs, g)) /\ OnlyOpen(Append(gs, g), Len(gs) + 1)
<1> DEFINE hs == Append(gs, g)
<1>1. /\ IsDump(hs) /\ Len(gs) \in Nat /\ Len(hs) = Len(gs) + 1
      /\ \A j \in 1..Len(gs) : hs[j] = gs[j]
      /\ hs[Len(gs) + 1] = g
  BY DumpWith
<1> HIDE DEF hs
<1>2. DOMAIN gs = 1..Len(gs) /\ DOMAIN hs = 1..(Len(gs) + 1)
  BY <1>1, InDump
<1>3. \A j \in DOMAIN gs : j # 0 /\ j # Len(gs) + 1
  BY <1>1, <1>2
<1>4. \A j \in DOMAIN gs : hs[j].isFrozen
  <2>1. \A j \in DOMAIN gs : gs[j].isFrozen
    BY <1>3, Zenon DEF OnlyOpen
  <2> QED BY <1>1, <1>2, <2>1
<1>5. \A j \in DOMAIN hs : j \in DOMAIN gs \/ j = Len(gs) + 1
  BY <1>1, <1>2
<1>6. \A j \in DOMAIN hs : hs[j].isFrozen <=> j # Len(gs) + 1
  BY <1>1, <1>3, <1>4, <1>5, Zenon
<1> QED BY <1>1, <1>6, Zenon DEF OnlyOpen, hs

LEMMA OnlyOpenReplaced ==
  ASSUME NEW gs, IsDump(gs), NEW i \in DOMAIN gs, OnlyOpen(gs, i),
         NEW g, IsGoroutine(g), ~g.isFrozen
  PROVE  IsDump([gs EXCEPT ![i] = g]) /\ OnlyOpen([gs EXCEPT ![i] = g], i)
<1> DEFINE hs == [gs EXCEPT ![i] = g]
<1>1. /\ IsDump(hs) /\ Len(hs) = Len(gs) /\ DOMAIN hs = DOMAIN gs /\ hs[i] = g
      /\ \A j \in DOMAIN gs : j # i => hs[j] = gs[j]
  BY DumpReplacing, Zenon
<1> HIDE DEF hs
<1>2. \A j \in DOMAIN hs : hs[j].isFrozen <=> j # i
  BY <1>1, Zenon DEF OnlyOpen
<1> QED BY <1>1, <1>2, Zenon DEF OnlyOpen, hs

-----------------------------------------------------------------------------
(* The inductive invariant.                                                *)
LoadInv ==
  /\ scanned \in Nat
  /\ IsDump(dump) /\ OnlyOpen(dump, goroutine)
  /\ loading = "scanning" => Reading(dump, goroutine, input, scanned)
  /\ loading = "loaded" =>
       \E at \in [DOMAIN dump -> 1..scanned] : AreSections(dump, at, input, scanned)

LEMMA EmptyDump ==
  /\ IsDump(<<>>) /\ OnlyOpen(<<>>, 0)
  /\ \A text : Reading(<<>>, 0, text, 0)
<1>1. IsDump(<<>>) /\ OnlyOpen(<<>>, 0)
  BY DEF IsDump, OnlyOpen
<1>2. ASSUME NEW text PROVE Reading(<<>>, 0, text, 0)
  <2> DEFINE at == [j \in {} |-> 1]
  <2>1. at \in [DOMAIN <<>> -> 1..0]
    OBVIOUS
  <2>2. AreSections(<<>>, at, text, 0) /\ Frontier(<<>>, at, 0, 0)
    BY DEF AreSections, Frontier
  <2> QED BY <2>1, <2>2 DEF Reading
<1> QED BY <1>1, <1>2

LEMMA LoadInvInit == ArchiveInit => LoadInv
BY EmptyDump DEF ArchiveInit, LoaderInit, LoadInv

LEMMA LoadInvLoad ==
  ASSUME LoadInv, NEW lines, LoadFrom(lines)
  PROVE  LoadInv'
BY EmptyDump DEF LoadInv, LoadFrom

LEMMA LoadInvFail ==
  ASSUME LoadInv, FailToLoad
  PROVE  LoadInv'
BY EmptyDump DEF LoadInv, FailToLoad

LEMMA LoadInvScan ==
  ASSUME LoadInv, Scan
  PROVE  LoadInv'
<1>1. ASSUME ScanTooLong \/ ScanHeaderOutOfRange \/ ScanLineOutOfRange
      PROVE  LoadInv'
  BY <1>1, LoadInvFail DEF ScanTooLong, ScanHeaderOutOfRange, ScanLineOutOfRange
<1>2. ASSUME ScanHeader PROVE LoadInv'
  <2>1. /\ loading = "scanning" /\ loading' = "scanning" /\ input' = input
        /\ scanned' = scanned + 1 /\ goroutine' = Len(dump) + 1
        /\ IsHeader(LineOf(input, scanned + 1))
        /\ HeaderInRange(LineOf(input, scanned + 1))
        /\ dump' = Append(FreezeCurrent(dump, goroutine),
                          NewGoroutine(LineOf(input, scanned + 1)))
    BY <1>2 DEF ScanHeader, Scans, NextLine, Line, LineOf
  <2> DEFINE gs == FreezeCurrent(dump, goroutine)
             new == NewGoroutine(LineOf(input, scanned + 1))
  <2>2. /\ scanned \in Nat /\ IsDump(dump) /\ OnlyOpen(dump, goroutine)
        /\ Reading(dump, goroutine, input, scanned)
    BY <2>1 DEF LoadInv
  <2>3. /\ IsDump(gs) /\ Len(gs) = Len(dump) /\ DOMAIN gs = DOMAIN dump
        /\ OnlyOpen(gs, 0) /\ \A j \in DOMAIN dump : Alike(dump[j], gs[j])
    BY <2>2, FrozenCurrent, Zenon
  <2> HIDE DEF gs
  <2>4. Reading(gs, goroutine, input, scanned)
    BY <2>2, <2>3, ReadingFrozen
  <2>5. Reading(Append(gs, new), Len(gs) + 1, input, scanned + 1)
    BY <2>1, <2>2, <2>3, <2>4, ReadingHeader
  <2>6. IsGoroutine(new) /\ ~new.isFrozen
    BY NewIsGoroutine, Zenon
  <2> HIDE DEF new
  <2>7. OnlyOpen(Append(gs, new), Len(gs) + 1) /\ IsDump(Append(gs, new))
    BY <2>3, <2>6, OnlyOpenAppended
  <2>8. dump' = Append(gs, new) /\ goroutine' = Len(gs) + 1
    BY <2>1, <2>3 DEF gs, new
  <2>9. IsDump(dump') /\ OnlyOpen(dump', goroutine')
    BY <2>7, <2>8, Zenon
  <2>10. Reading(dump', goroutine', input', scanned')
    BY <2>1, <2>5, <2>8, Zenon
  <2> QED BY <2>1, <2>2, <2>9, <2>10 DEF LoadInv
<1>3. ASSUME ScanBlank PROVE LoadInv'
  <2>1. /\ loading = "scanning" /\ loading' = "scanning" /\ input' = input
        /\ scanned' = scanned + 1 /\ goroutine' = 0
        /\ LineOf(input, scanned + 1) = <<>>
        /\ dump' = FreezeCurrent(dump, goroutine)
    BY <1>3 DEF ScanBlank, Scans, NextLine, Line, LineOf
  <2>2. /\ scanned \in Nat /\ IsDump(dump) /\ OnlyOpen(dump, goroutine)
        /\ Reading(dump, goroutine, input, scanned)
    BY <2>1 DEF LoadInv
  <2>3. /\ IsDump(dump') /\ DOMAIN dump' = DOMAIN dump
        /\ OnlyOpen(dump', 0) /\ \A j \in DOMAIN dump : Alike(dump[j], dump'[j])
    BY <2>1, <2>2, FrozenCurrent, Zenon
  <2>4. Reading(dump', goroutine, input, scanned)
    BY <2>2, <2>3, ReadingFrozen
  <2>5. /\ ~IsHeader(LineOf(input, scanned + 1))
        /\ ~IsText(LineOf(input, scanned + 1))
    BY <2>1 DEF IsHeader, IsText
  <2>6. Reading(dump', 0, input, scanned + 1)
    BY <2>2, <2>3, <2>4, <2>5, ReadingPast
  <2> QED BY <2>1, <2>2, <2>3, <2>6 DEF LoadInv
<1>4. ASSUME ScanLine PROVE LoadInv'
  <2> DEFINE h == AddLine(dump[goroutine], LineOf(input, scanned + 1))
  <2>1. /\ loading = "scanning" /\ loading' = "scanning" /\ input' = input
        /\ scanned' = scanned + 1 /\ goroutine' = goroutine
        /\ IsText(LineOf(input, scanned + 1)) /\ goroutine # 0
        /\ dump' = [dump EXCEPT ![goroutine] = h]
    BY <1>4 DEF ScanLine, Scans, NextLine, Line, LineOf
  <2>2. /\ scanned \in Nat /\ IsDump(dump) /\ OnlyOpen(dump, goroutine)
        /\ Reading(dump, goroutine, input, scanned)
    BY <2>1 DEF LoadInv
  <2>3. goroutine \in DOMAIN dump /\ ~dump[goroutine].isFrozen
    BY <2>1, <2>2, OpenIsIn
  <2>4. /\ IsGoroutine(h) /\ ~h.isFrozen
        /\ Reading(dump', goroutine, input, scanned + 1)
    BY <2>1, <2>2, <2>3, ReadingLine, Zenon
  <2> HIDE DEF h
  <2>5. IsDump(dump') /\ OnlyOpen(dump', goroutine)
    BY <2>1, <2>2, <2>3, <2>4, OnlyOpenReplaced, Zenon
  <2> QED BY <2>1, <2>2, <2>4, <2>5 DEF LoadInv
<1>5. ASSUME ScanStrayLine PROVE LoadInv'
  <2>1. /\ loading = "scanning" /\ loading' = "scanning" /\ input' = input
        /\ scanned' = scanned + 1 /\ goroutine = 0 /\ goroutine' = 0
        /\ IsText(LineOf(input, scanned + 1)) /\ dump' = dump
    BY <1>5 DEF ScanStrayLine, Scans, NextLine, Line, LineOf
  <2>2. /\ scanned \in Nat /\ IsDump(dump) /\ OnlyOpen(dump, 0)
        /\ Reading(dump, 0, input, scanned)
    BY <2>1 DEF LoadInv
  <2>3. ~IsHeader(LineOf(input, scanned + 1)) /\ 0 \notin DOMAIN dump
    BY <2>1, <2>2, InDump DEF IsText
  <2>4. Reading(dump, 0, input, scanned + 1)
    BY <2>2, <2>3, ReadingPast
  <2> QED BY <2>1, <2>2, <2>4 DEF LoadInv
<1>6. ASSUME EndOfText PROVE LoadInv'
  <2>1. /\ loading = "scanning" /\ loading' = "loaded" /\ input' = input
        /\ scanned' = scanned /\ goroutine' = 0
        /\ dump' = FreezeCurrent(dump, goroutine)
    BY <1>6 DEF EndOfText
  <2>2. /\ scanned \in Nat /\ IsDump(dump) /\ OnlyOpen(dump, goroutine)
        /\ Reading(dump, goroutine, input, scanned)
    BY <2>1 DEF LoadInv
  <2>3. /\ IsDump(dump') /\ DOMAIN dump' = DOMAIN dump
        /\ OnlyOpen(dump', 0) /\ \A j \in DOMAIN dump : Alike(dump[j], dump'[j])
    BY <2>1, <2>2, FrozenCurrent, Zenon
  <2>4. \E at \in [DOMAIN dump' -> 1..scanned] : AreSections(dump', at, input, scanned)
    BY <2>2, <2>3, ReadingFrozen DEF Reading
  <2> QED BY <2>1, <2>2, <2>3, <2>4 DEF LoadInv
<1> QED BY <1>1, <1>2, <1>3, <1>4, <1>5, <1>6 DEF Scan

LEMMA LoadInvNext ==
  ASSUME LoadInv, [Next]_archiveVars
  PROVE  LoadInv'
<1>1. ASSUME UNCHANGED loaderVars PROVE LoadInv'
  BY <1>1 DEF loaderVars, LoadInv
<1>2. ASSUME Load PROVE LoadInv'
  BY <1>2, LoadInvLoad DEF Load
<1>3. ASSUME ScanFile PROVE LoadInv'
  BY <1>3, LoadInvScan DEF ScanFile
<1>4. ASSUME SaveDump \/ ExportDump \/ WriteFile PROVE LoadInv'
  BY <1>1, <1>4 DEF SaveDump, ExportDump, WriteFile
<1>5. ASSUME Crash PROVE LoadInv'
  BY <1>5, EmptyDump DEF Crash, LoadInv
<1>6. ASSUME UNCHANGED archiveVars PROVE LoadInv'
  BY <1>1, <1>6 DEF archiveVars
<1> QED BY <1>2, <1>3, <1>4, <1>5, <1>6 DEF Next

LEMMA LoadInvariant == Spec => []LoadInv
BY LoadInvInit, LoadInvNext, PTL DEF Spec

(* The program loads or saves, and not both at a time.                     *)
OneAtATime == ~(loading = "scanning" /\ saving = "writing")

LEMMA OneAtATimeInvariant == Spec => []OneAtATime
<1>1. ArchiveInit => OneAtATime
  BY DEF ArchiveInit, LoaderInit, OneAtATime
<1>2. ASSUME OneAtATime, [Next]_archiveVars PROVE OneAtATime'
  <2>1. CASE Load
    BY <2>1 DEF Load, Idle, saverVars, OneAtATime
  <2>2. CASE ScanFile
    <3>1. loading = "scanning" /\ saving' = saving
      BY <2>2 DEF ScanFile, Scan, Scans, saverVars, ScanTooLong, ScanHeader,
                  ScanHeaderOutOfRange, ScanBlank, ScanLine,
                  ScanLineOutOfRange, ScanStrayLine, EndOfText
    <3> QED BY <1>2, <3>1 DEF OneAtATime
  <2>3. CASE SaveDump \/ ExportDump
    BY <2>3 DEF SaveDump, ExportDump, Idle, loaderVars, OneAtATime
  <2>4. CASE WriteFile
    <3>1. saving = "writing" /\ loading' = loading
      BY <2>4 DEF WriteFile, Write, WriteSome, WriteFails, Sync, Writing, loaderVars
    <3> QED BY <1>2, <3>1 DEF OneAtATime
  <2>5. CASE Crash
    BY <2>5 DEF Crash, OneAtATime
  <2>6. CASE UNCHANGED archiveVars
    BY <1>2, <2>6 DEF archiveVars, loaderVars, saverVars, OneAtATime
  <2> QED BY <1>2, <2>1, <2>2, <2>3, <2>4, <2>5, <2>6 DEF Next
<1> QED BY <1>1, <1>2, PTL DEF Spec

(* Whatever the text, the goroutines that loadFrom has read are the        *)
(* sections of the lines it has scanned, and in the end those of the text. *)
THEOREM LoadsTheText == Spec => []LoadsWhatItSays
<1>1. LoadInv => LoadsWhatItSays
  BY DEF LoadInv, Reading, LoadsWhatItSays
<1> QED BY <1>1, LoadInvariant, PTL

(* Whatever the text, a goroutine of the dump stays there, and as it is    *)
(* from Freeze on: AddLine and Freeze reach only the open one.             *)
THEOREM FrozenStays == Spec => FrozenForGood
<1> DEFINE Keeps == \A i \in DOMAIN dump :
             i \in DOMAIN dump' /\ (dump[i].isFrozen => dump'[i] = dump[i])
<1>1. ASSUME LoadInv, OneAtATime, [Next]_archiveVars,
             loading = "scanning", loading' # "failed"
      PROVE  Keeps \/ UNCHANGED loaderVars
  <2>1. /\ IsDump(dump) /\ OnlyOpen(dump, goroutine)
        /\ Len(dump) \in Nat /\ DOMAIN dump = 1..Len(dump)
    BY <1>1, InDump DEF LoadInv
  <2> DEFINE gs == FreezeCurrent(dump, goroutine)
  <2>2. /\ IsDump(gs) /\ Len(gs) = Len(dump) /\ DOMAIN gs = DOMAIN dump
        /\ \A i \in DOMAIN dump : dump[i].isFrozen => gs[i] = dump[i]
    BY <2>1, FrozenCurrent, Zenon
  <2>3. ASSUME ScanHeader PROVE Keeps
    <3> DEFINE new == NewGoroutine(Line)
    <3>1. dump' = Append(gs, new) /\ IsGoroutine(new)
      BY <2>3, NewIsGoroutine, Zenon DEF ScanHeader
    <3> HIDE DEF new, gs
    <3>2. /\ IsDump(dump') /\ Len(dump') = Len(gs) + 1
          /\ \A i \in 1..Len(gs) : dump'[i] = gs[i]
      BY <2>2, <3>1, DumpWith, Zenon
    <3>3. DOMAIN dump' = 1..(Len(dump) + 1)
      BY <2>2, <3>2, InDump
    <3>4. \A i \in DOMAIN dump : i \in DOMAIN dump' /\ dump'[i] = gs[i]
      BY <2>1, <2>2, <3>2, <3>3
    <3> QED BY <2>2, <3>4, Zenon
  <2>4. ASSUME ScanBlank \/ EndOfText PROVE Keeps
    <3>1. dump' = gs
      BY <2>4 DEF ScanBlank, EndOfText
    <3> QED BY <2>2, <3>1, Zenon
  <2>5. ASSUME ScanLine PROVE Keeps
    <3> DEFINE h == AddLine(dump[goroutine], Line)
    <3>1. goroutine # 0 /\ dump' = [dump EXCEPT ![goroutine] = h]
      BY <2>5 DEF ScanLine
    <3>2. goroutine \in DOMAIN dump /\ ~dump[goroutine].isFrozen
      BY <2>1, <3>1, OpenIsIn
    <3> HIDE DEF h
    <3>3. /\ DOMAIN dump' = DOMAIN dump
          /\ \A i \in DOMAIN dump : i # goroutine => dump'[i] = dump[i]
      BY <3>1
    <3> QED BY <3>2, <3>3, Zenon
  <2>6. ASSUME ScanStrayLine PROVE Keeps
    BY <2>6 DEF ScanStrayLine
  <2>7. ASSUME ScanTooLong \/ ScanHeaderOutOfRange \/ ScanLineOutOfRange
        PROVE  FALSE
    BY <1>1, <2>7 DEF ScanTooLong, ScanHeaderOutOfRange, ScanLineOutOfRange,
                      FailToLoad
  <2>8. ASSUME ScanFile PROVE Keeps
    BY <2>3, <2>4, <2>5, <2>6, <2>7, <2>8 DEF ScanFile, Scan
  <2>9. ASSUME Load \/ SaveDump \/ ExportDump \/ Crash PROVE FALSE
    BY <1>1, <2>9
       DEF Load, SaveDump, ExportDump, Idle, Crash, DieWriting, OneAtATime
  <2>10. ASSUME WriteFile \/ UNCHANGED archiveVars PROVE UNCHANGED loaderVars
    BY <2>10 DEF WriteFile, archiveVars
  <2> QED BY <1>1, <2>8, <2>9, <2>10, Zenon DEF Next
<1>2. LoadInv /\ OneAtATime /\ [Next]_archiveVars =>
        [loading = "scanning" /\ loading' # "failed" => Keeps]_loaderVars
  BY <1>1
<1> QED BY <1>2, LoadInvariant, OneAtATimeInvariant, PTL DEF Spec, FrozenForGood

=============================================================================
