------------------------------ MODULE DumpText ------------------------------
(***************************************************************************)
(* The text of a goroutine dump, and what one line of it says.             *)
(*                                                                         *)
(* A text is a sequence of tokens: NewLine, and the stretches between two  *)
(* newlines that the program tells apart:                                  *)
(*   header    "goroutine 7 [select, 2 minutes] {key: value}:"             *)
(*   created   "created by f in goroutine 7"                               *)
(*   location  a line of white space and the place of a call               *)
(*   text      any other text, "main.main()" for one                       *)
(*   control   characters that the loader strips                           *)
(*   long      more characters than bufio.Scanner has room for in a line   *)
(* A line is a sequence of tokens too: normally of one, of none when it is *)
(* blank, and of several when a write that failed lost a newline.          *)
(***************************************************************************)
EXTENDS Integers, Sequences, SequencesExt

NewLine == [kind |-> "newline"]

Header(id, state, duration, labels) ==
  [kind |-> "header", id |-> id, state |-> state, duration |-> duration,
   labels |-> labels]
CreatedBy(parent) == [kind |-> "created", parent |-> parent]
Location(spec) == [kind |-> "location", spec |-> spec]
Text(text) == [kind |-> "text", text |-> text]
Control == [kind |-> "control"]
Long == [kind |-> "long"]

(* The pairs of a key and a value that a header may have as labels.        *)
Label ==
  [form : {"word", "string"}, text : STRING]
    \X [form : {"word", "string", "number"}, text : STRING]

(* What a place or a text may be: "torn" is what a write that stops inside *)
(* of a token leaves of it.                                                *)
Words == STRING \cup {"torn"}

Token ==
  {NewLine, Control, Long}
    \cup [kind : {"header"}, id : Nat, state : STRING, duration : Nat,
          labels : Seq(Label)]
    \cup [kind : {"created"}, parent : Nat]
    \cup [kind : {"location"}, spec : Words]
    \cup [kind : {"text"}, text : Words]

-----------------------------------------------------------------------------
(* bufio.ScanLines: a newline ends a line, and so does the end of the text *)
(* if anything is left.                                                    *)
Read(text) ==
  FoldLeft(LAMBDA r, t :
             IF t = NewLine
             THEN [lines |-> Append(r.lines, r.line), line |-> <<>>]
             ELSE [lines |-> r.lines, line |-> Append(r.line, t)],
           [lines |-> <<>>, line |-> <<>>], text)

Lines(text) ==
  IF Read(text).line = <<>> THEN Read(text).lines
  ELSE Append(Read(text).lines, Read(text).line)

(* The line without its control characters.                                *)
Clean(line) ==
  FoldLeft(LAMBDA kept, t : IF t.kind = "control" THEN kept ELSE Append(kept, t),
           <<>>, line)

IsTooLong(line) == \E i \in DOMAIN line : line[i].kind = "long"

(* headerPatt: the status between the brackets may be any text at all.     *)
IsHeader(line) ==
  line # <<>> /\ line[1].kind = "header" /\ line[Len(line)].kind = "header"

(* createdByPattern finds the last "in goroutine" of the line.             *)
IsCreated(line) == line # <<>> /\ line[1].kind = "created"
ParentOn(line) ==
  LET last == CHOOSE i \in DOMAIN line :
                /\ line[i].kind = "created"
                /\ \A j \in (i + 1)..Len(line) : line[j].kind # "created"
  IN  line[last].parent

(* The lines whose first word goes into the hash of the goroutine.         *)
IsLocation(line) == line # <<>> /\ line[1].kind = "location"

(* The locations of a trace.                                               *)
Places(trace) ==
  FoldLeft(LAMBDA places, line :
             IF IsLocation(line) THEN Append(places, line[1].spec) ELSE places,
           <<>>, trace)

-----------------------------------------------------------------------------
(* The labels of a header are a sequence of pairs of a key and a value,    *)
(* each a [form, text]: a word, a string in quotes, or a number.           *)
Comma == [form |-> "comma", text |-> ","]
Colon == [form |-> "colon", text |-> ":"]

LabelTokens(pairs) ==
  FoldLeft(LAMBDA tokens, pair :
             (IF tokens = <<>> THEN tokens ELSE Append(tokens, Comma))
               \o <<pair[1], Colon, pair[2]>>,
           <<>>, pairs)

NoLabel == [k \in {} |-> ""]
SetLabel(labels, key, value) ==
  [k \in DOMAIN labels \cup {key} |-> IF k = key THEN value ELSE labels[k]]

\* Mutant: a value does not make the next word a key, and no comma does.
ScanLabelByTurns(s, t) ==
  CASE t.form \in {"word", "string"} ->
         IF s.openKey THEN [s EXCEPT !.key = t.text, !.openKey = FALSE]
         ELSE [s EXCEPT !.value = t.text]
    [] t.form = "comma" ->
         [s EXCEPT !.labels = SetLabel(s.labels, s.key, s.value)]
    [] OTHER -> s

(* parseLabels: words and strings are keys and values by turns, a comma    *)
(* ends a pair, and nothing else is looked at, numbers included.           *)
ScanLabel(s, t) ==
  CASE t.form \in {"word", "string"} ->
         IF s.openKey THEN [s EXCEPT !.key = t.text, !.openKey = FALSE]
         ELSE [s EXCEPT !.value = t.text, !.openKey = TRUE]
    [] t.form = "comma" ->
         [s EXCEPT !.labels = SetLabel(s.labels, s.key, s.value), !.openKey = TRUE]
    [] OTHER -> s

ScanLabels(tokens) ==
  FoldLeft(ScanLabel, [key |-> "", value |-> "", openKey |-> TRUE,
                       labels |-> NoLabel], tokens)

ParseLabels(pairs) ==
  LET end == ScanLabels(LabelTokens(pairs))
  IN  IF pairs = <<>> THEN NoLabel ELSE SetLabel(end.labels, end.key, end.value)

-----------------------------------------------------------------------------
(* Goroutine.Print: the header goes out in one write, the trace, between   *)
(* the end of the header's line and a blank line, in another.              *)
TraceText(trace) ==
  FoldLeft(LAMBDA text, line : text \o line \o <<NewLine>>, <<>>, trace)

BodyText(trace) == <<NewLine>> \o TraceText(trace) \o <<NewLine>>

\* Mutant: no blank line and no newline after the header.
PrintsUnterminated(gs) ==
  FoldLeft(LAMBDA writes, g : writes \o <<g.header, Tail(BodyText(g.trace))>>,
           <<>>, gs)

Prints(gs) ==
  FoldLeft(LAMBDA writes, g : writes \o <<g.header, BodyText(g.trace)>>, <<>>, gs)

(* What is left of a token when a write stops inside of it: a number may   *)
(* lose its last digits.                                                   *)
Torn(token) ==
  CASE token.kind = "location" -> {Location("torn")}
    [] token.kind = "created" ->
         {Text("torn")} \cup {CreatedBy(n) : n \in {token.parent \div 10} \ {0}}
    [] token.kind \in {"header", "text"} -> {Text("torn")}
    [] OTHER -> {}

=============================================================================
