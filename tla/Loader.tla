------------------------------- MODULE Loader -------------------------------
(***************************************************************************)
(* The loader (load.go): one step per line that the scanner returns, with  *)
(* what NewGoroutineFromMatch, AddLine and Freeze of goroutines.go do.     *)
(*                                                                         *)
(* The variable goroutine points into dump, as the pointer in the program  *)
(* does: a goroutine is in the dump from its header on, although its trace *)
(* and its hash are there only once it is frozen.                          *)
(***************************************************************************)
EXTENDS DumpText

CONSTANT MaxInt   \* the largest number strconv.Atoi accepts

ASSUME LoaderAssumption == MaxInt \in Nat

VARIABLES
  loading,    \* "none", "scanning", or how loadFrom returned: "loaded", "failed"
  input,      \* the lines of the reader
  scanned,    \* how many of them were scanned
  goroutine,  \* the place in dump of the goroutine being read, 0 for nil
  dump        \* the goroutines added

loaderVars == <<loading, input, scanned, goroutine, dump>>

LoaderInit ==
  /\ loading = "none" /\ input = <<>> /\ scanned = 0
  /\ goroutine = 0 /\ dump = <<>>

-----------------------------------------------------------------------------
(* Goroutines.  buf and hasher are what was read so far; trace and hash    *)
(* are zero before Freeze.                                                 *)
HeaderInRange(line) ==
  line[1].id <= MaxInt /\ line[Len(line)].duration <= MaxInt

(* On a line of several headers the status reaches from the first bracket  *)
(* of all to the last (if at most one of them has labels, as in the texts  *)
(* that are checked).                                                      *)
Status(line) ==
  [i \in DOMAIN line |-> IF line[i].kind = "header" THEN line[i].state ELSE "text"]

(* NewGoroutineFromMatch.                                                  *)
NewGoroutine(line) ==
  [header |-> line,
   id |-> line[1].id,
   state |-> Status(line),
   duration |-> line[Len(line)].duration,
   labels |-> ParseLabels(line[Len(line)].labels),
   createdBy |-> 0, lineCount |-> 1,
   buf |-> <<>>, hasher |-> <<>>, trace |-> <<>>, hash |-> <<>>,
   isFrozen |-> FALSE]

LineInRange(line) == IsCreated(line) => ParentOn(line) <= MaxInt

AddLine(g, line) ==
  IF g.isFrozen THEN g
  ELSE [g EXCEPT
         !.lineCount = @ + 1,
         !.buf = Append(@, line),
         !.createdBy = IF IsCreated(line) THEN ParentOn(line) ELSE @,
         !.hasher = IF IsLocation(line) THEN Append(@, line[1].spec) ELSE @]

Freeze(g) ==
  IF g.isFrozen THEN g
  ELSE [g EXCEPT !.isFrozen = TRUE, !.trace = g.buf, !.buf = <<>>,
                 !.hash = g.hasher]

\* Mutant: the goroutine being read stays open.
LeaveOpen(gs, i) == gs

(* The dump once its goroutine i is frozen, if there is one.               *)
FreezeCurrent(gs, i) == IF i = 0 THEN gs ELSE [gs EXCEPT ![i] = Freeze(gs[i])]

-----------------------------------------------------------------------------
Scans == loading = "scanning" /\ scanned < Len(input)
Line  == Clean(input[scanned + 1])

NextLine == scanned' = scanned + 1 /\ UNCHANGED <<loading, input>>

(* loadFrom returns nil and an error.                                      *)
FailToLoad ==
  /\ loading' = "failed" /\ dump' = <<>> /\ goroutine' = 0
  /\ UNCHANGED <<input, scanned>>

LoadFrom(lines) ==
  /\ loading # "scanning"
  /\ loading' = "scanning" /\ input' = lines /\ scanned' = 0
  /\ goroutine' = 0 /\ dump' = <<>>

(* Scan returns false; what was read so far is lost with the error.        *)
ScanTooLong ==
  /\ Scans /\ IsTooLong(input[scanned + 1])
  /\ FailToLoad

\* Mutant: a goroutine takes the place of one with the same id.
ScanHeaderOverSameID ==
  /\ Scans /\ ~IsTooLong(input[scanned + 1]) /\ IsHeader(Line)
  /\ HeaderInRange(Line)
  /\ LET gs   == FreezeCurrent(dump, goroutine)
         same == {i \in DOMAIN gs : gs[i].id = Line[1].id}
         at   == IF same = {} THEN Len(gs) + 1 ELSE CHOOSE i \in same : TRUE
     IN  /\ dump' = IF same = {} THEN Append(gs, NewGoroutine(Line))
                    ELSE [gs EXCEPT ![at] = NewGoroutine(Line)]
         /\ goroutine' = at
  /\ NextLine

ScanHeader ==
  /\ Scans /\ ~IsTooLong(input[scanned + 1]) /\ IsHeader(Line)
  /\ HeaderInRange(Line)
  /\ dump' = Append(FreezeCurrent(dump, goroutine), NewGoroutine(Line))
  /\ goroutine' = Len(dump) + 1
  /\ NextLine

ScanHeaderOutOfRange ==
  /\ Scans /\ ~IsTooLong(input[scanned + 1]) /\ IsHeader(Line)
  /\ ~HeaderInRange(Line)
  /\ FailToLoad

\* Mutant: a blank line is skipped.
ScanBlankSkipped ==
  /\ Scans /\ ~IsTooLong(input[scanned + 1]) /\ Line = <<>>
  /\ UNCHANGED <<goroutine, dump>>
  /\ NextLine

ScanBlank ==
  /\ Scans /\ ~IsTooLong(input[scanned + 1]) /\ Line = <<>>
  /\ dump' = FreezeCurrent(dump, goroutine)
  /\ goroutine' = 0
  /\ NextLine

IsText(line) == line # <<>> /\ ~IsHeader(line)

ScanLine ==
  /\ Scans /\ ~IsTooLong(input[scanned + 1]) /\ IsText(Line)
  /\ goroutine # 0 /\ LineInRange(Line)
  /\ dump' = [dump EXCEPT ![goroutine] = AddLine(dump[goroutine], Line)]
  /\ UNCHANGED goroutine
  /\ NextLine

ScanLineOutOfRange ==
  /\ Scans /\ ~IsTooLong(input[scanned + 1]) /\ IsText(Line)
  /\ goroutine # 0 /\ ~LineInRange(Line)
  /\ FailToLoad

(* A line that belongs to no goroutine is skipped.                         *)
ScanStrayLine ==
  /\ Scans /\ ~IsTooLong(input[scanned + 1]) /\ IsText(Line)
  /\ goroutine = 0
  /\ UNCHANGED <<goroutine, dump>>
  /\ NextLine

EndOfText ==
  /\ loading = "scanning" /\ scanned = Len(input)
  /\ loading' = "loaded"
  /\ dump' = FreezeCurrent(dump, goroutine)
  /\ goroutine' = 0
  /\ UNCHANGED <<input, scanned>>

Scan ==
  \/ ScanTooLong \/ ScanHeader \/ ScanHeaderOutOfRange \/ ScanBlank
  \/ ScanLine \/ ScanLineOutOfRange \/ ScanStrayLine \/ EndOfText

-----------------------------------------------------------------------------
(* Which line goroutine i of the dump starts on, how many lines follow and *)
(* belong to it, and what a goroutine that starts there says.              *)
Body(g) == IF g.isFrozen THEN g.trace ELSE g.buf

(* Who created a goroutine with this trace: the last line that says it.    *)
IsParentIn(trace, id) ==
  \/ id = 0 /\ \A k \in DOMAIN trace : ~IsCreated(trace[k])
  \/ \E k \in DOMAIN trace :
       /\ IsCreated(trace[k]) /\ id = ParentOn(trace[k])
       /\ \A j \in DOMAIN trace : j > k => ~IsCreated(trace[j])

LineOf(text, n) == Clean(text[n])

(* g is the goroutine whose header is on line n: its fields are those of   *)
(* the header, its body the lines after it, and its creator the last one   *)
(* that these name.                                                        *)
IsSection(g, text, n) ==
  LET new == NewGoroutine(LineOf(text, n))
  IN  /\ IsHeader(LineOf(text, n)) /\ HeaderInRange(LineOf(text, n))
      /\ g.header = new.header /\ g.id = new.id /\ g.state = new.state
      /\ g.duration = new.duration /\ g.labels = new.labels
      /\ g.lineCount = Len(Body(g)) + 1
      /\ \A k \in DOMAIN Body(g) :
           Body(g)[k] = LineOf(text, n + k) /\ IsText(LineOf(text, n + k))
      /\ IsParentIn(Body(g), g.createdBy)

(* The line after the last one of goroutine g, whose header is on line n.  *)
AfterBody(g, n) == n + Len(Body(g)) + 1

(* The goroutines gs are the sections of the first m lines of the text,    *)
(* one for each header and in their order; at tells the lines of the       *)
(* headers.  A section goes on to the next header, to a blank line or to   *)
(* line m.                                                                 *)
AreSections(gs, at, text, m) ==
  /\ \A i, j \in DOMAIN gs : i < j => at[i] < at[j]
  /\ \A n \in 1..m : IsHeader(LineOf(text, n)) => \E i \in DOMAIN gs : at[i] = n
  /\ \A i \in DOMAIN gs :
       /\ IsSection(gs[i], text, at[i])
       /\ AfterBody(gs[i], at[i]) <= m + 1
       /\ AfterBody(gs[i], at[i]) <= m =>
            ~IsText(LineOf(text, AfterBody(gs[i], at[i])))

(* The dump is what the lines scanned so far say: a goroutine for each     *)
(* header and no other, each with the lines that follow up to a blank one  *)
(* or a header, and in the end that is all of the text (loadFrom, AddLine  *)
(* and Freeze).                                                            *)
LoadsWhatItSays ==
  loading \in {"scanning", "loaded"} =>
    \E at \in [DOMAIN dump -> 1..scanned] : AreSections(dump, at, input, scanned)

(* What loadFrom returns has a trace, and a hash made of the locations in  *)
(* it, for every goroutine: none is handed out before it was frozen.       *)
ReturnedIsFrozen ==
  loading = "loaded" =>
    \A i \in DOMAIN dump :
      /\ dump[i].isFrozen /\ dump[i].buf = <<>>
      /\ dump[i].hash = Places(dump[i].trace)

(* "once a goroutine is frozen, we never add to it again"                  *)
(* (goroutines.go:230), although loadFrom holds a pointer to it and the    *)
(* dump has it before: a scan only appends to the dump and changes the     *)
(* goroutine that is open.                                                 *)
FrozenForGood ==
  [][loading = "scanning" /\ loading' # "failed" =>
       \A i \in DOMAIN dump :
         i \in DOMAIN dump' /\ (dump[i].isFrozen => dump'[i] = dump[i])]_loaderVars

=============================================================================
