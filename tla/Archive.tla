------------------------------ MODULE Archive -------------------------------
(***************************************************************************)
(* A dump that is loaded from a file, saved to it, and loaded again, maybe *)
(* by the program's next run: the loader and the writer take turns in one  *)
(* thread, and the process may die while it writes.                        *)
(***************************************************************************)
EXTENDS Loader, Saver

CONSTANTS
  Texts,    \* the texts the file may have to begin with
  MaxSaves  \* how many times the file is written

ASSUME ArchiveAssumption == MaxSaves \in Nat /\ Texts \subseteq Seq(Token)

VARIABLES
  saved,  \* the goroutines given to the last Save, for the properties
  saves   \* how many times the file was written

archiveVars == <<loaderVars, saverVars, saved, saves>>

ArchiveInit ==
  /\ LoaderInit /\ SaverInit
  /\ file \in Texts
  /\ saved = <<>> /\ saves = 0

-----------------------------------------------------------------------------
Idle == loading # "scanning" /\ saving # "writing"

Load ==
  /\ Idle
  /\ LoadFrom(Lines(file))
  /\ UNCHANGED <<saverVars, saved, saves>>

ScanFile == Scan /\ UNCHANGED <<saverVars, saved, saves>>

SaveDump ==
  /\ Idle /\ loading = "loaded"
  /\ saves < MaxSaves
  /\ Save(dump)
  /\ saved' = dump /\ saves' = saves + 1
  /\ UNCHANGED loaderVars

ExportDump ==
  /\ Idle /\ loading = "loaded"
  /\ saves < MaxSaves
  /\ \E text \in Exports : Export(text)
  /\ saves' = saves + 1
  /\ UNCHANGED <<loaderVars, saved>>

WriteFile == Write /\ UNCHANGED <<loaderVars, saved, saves>>

(* What was in memory is lost, and the file has what was written.          *)
Crash ==
  /\ DieWriting
  /\ loading' = "none" /\ dump' = <<>> /\ goroutine' = 0
  /\ UNCHANGED <<input, scanned, saved, saves>>

Next == Load \/ ScanFile \/ SaveDump \/ ExportDump \/ WriteFile \/ Crash

Spec == ArchiveInit /\ [][Next]_archiveVars

-----------------------------------------------------------------------------
(* Types.                                                                  *)
TypeOK ==
  /\ loading \in {"none", "scanning", "loaded", "failed"}
  /\ saving \in {"none", "writing", "saved", "failed", "crashed"}
  /\ scanned \in 0..Len(input)
  /\ goroutine \in 0..Len(dump)
  /\ failures \in 0..MaxFailures
  /\ \A i \in DOMAIN pieces : pieces[i] # <<>>

(* What a dump shows of a goroutine.                                       *)
Contents(g) ==
  [header |-> g.header, id |-> g.id, state |-> g.state,
   duration |-> g.duration, labels |-> g.labels, createdBy |-> g.createdBy,
   lineCount |-> g.lineCount, trace |-> g.trace, hash |-> g.hash]

(* A dump that Save has written, with all its writes and without a crash,  *)
(* loads as what it was: Print writes nothing that loadFrom reads as       *)
(* something else, and leaves nothing out that loadFrom needs.             *)
RoundTrip ==
  saving = "saved" /\ ~checked /\ failures = 0 =>
    /\ loading # "failed"
    /\ loading = "loaded" =>
         /\ DOMAIN dump = DOMAIN saved
         /\ \A i \in DOMAIN dump : Contents(dump[i]) = Contents(saved[i])

(* The line is the whole one, or stops after or inside one of its tokens.  *)
IsCut(line, whole) ==
  \/ line = whole
  \/ \E n \in 0..(Len(whole) - 1) :
       LET kept == SubSeq(whole, 1, n)
       IN  line \in {kept} \cup {Append(kept, t) : t \in Torn(whole[n + 1])}

NoHeaderWithin(gs) ==
  \A i \in DOMAIN gs : \A k \in DOMAIN gs[i].trace :
    gs[i].trace[k][1].kind # "header"

(* Of several headers or creators on one line the loader looks at the last *)
(* one, and a crash may make any of them the last.                         *)
NumbersInRange(gs) ==
  \A i \in DOMAIN gs :
    /\ \A n \in DOMAIN gs[i].header :
         LET t == gs[i].header[n] IN t.kind = "header" => t.duration <= MaxInt
    /\ \A k \in DOMAIN gs[i].trace : \A n \in DOMAIN gs[i].trace[k] :
         LET t == gs[i].trace[k][n] IN t.kind = "created" => t.parent <= MaxInt

(* gs is what is left of the goroutines saved: those saved first, and only *)
(* the trace of the last may be shorter, or end in a line cut short, or    *)
(* its header if that was several on one line.                             *)
IsCutOf(gs, whole) ==
  /\ Len(gs) <= Len(whole)
  /\ \A i \in 1..(Len(gs) - 1) : Contents(gs[i]) = Contents(whole[i])
  /\ gs # <<>> =>
       LET g == gs[Len(gs)]
           h == whole[Len(gs)]
       IN  /\ IsPrefix(g.header, h.header)
           /\ g.header # h.header => g.trace = <<>>
           /\ Len(g.trace) <= Len(h.trace)
           /\ \A k \in DOMAIN g.trace :
                IF k < Len(g.trace) THEN g.trace[k] = h.trace[k]
                ELSE IsCut(g.trace[k], h.trace[k])

(* A dump that the process died in saving still loads, and gives a prefix  *)
(* of what was saved (Save and loadFrom, which takes a text without a last *)
(* newline).  A trace with a line that is more than a header, but begins   *)
(* with one, may turn into two goroutines; and if a number that is too     *)
(* large comes to be looked at, the file does not load.                    *)
CutShort ==
  saving = "crashed" /\ ~checked /\ failures = 0
    /\ NoHeaderWithin(saved) /\ NumbersInRange(saved) =>
      loading # "failed" /\ (loading = "loaded" => IsCutOf(dump, saved))

(* The label that a header gives key: the last one.                        *)
WrittenLabels(pairs) ==
  [key \in {pairs[i][1].text : i \in DOMAIN pairs} |->
     LET i == CHOOSE i \in DOMAIN pairs :
                /\ pairs[i][1].text = key
                /\ \A j \in (i + 1)..Len(pairs) : pairs[j][1].text # key
     IN  pairs[i][2].text]

(* parseLabels finds the labels of a header, if their values are words or  *)
(* strings.                                                                *)
LabelsAsWritten ==
  \A i \in DOMAIN dump :
    LET pairs == dump[i].header[Len(dump[i].header)].labels
    IN  (\A j \in DOMAIN pairs : pairs[j][2].form \in {"word", "string"}) =>
          dump[i].labels = WrittenLabels(pairs)

=============================================================================
