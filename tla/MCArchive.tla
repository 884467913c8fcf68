----------------------------- MODULE MCArchive ------------------------------
(* Small instances of Archive: every text of up to MCLength lines, and     *)
(* some that are longer.                                                   *)
EXTENDS Archive

CONSTANT MCLength

W(text) == [form |-> "word", text |-> text]
S(text) == [form |-> "string", text |-> text]
N(text) == [form |-> "number", text |-> text]

Plain    == Header(1, "running", 0, <<>>)
Labelled == Header(12, "select", 3, <<<<W("a"), S("x")>>, <<W("b"), W("y")>>>>)
Numbered == Header(12, "select", 3, <<<<W("a"), S("x")>>, <<W("b"), N("7")>>>>)
Huge     == Header(99, "running", 0, <<>>)
Slow     == Header(1, "running", 99, <<>>)

MCLines ==
  {<<>>, <<Plain>>, <<Labelled>>, <<Huge>>, <<Control, Text("f")>>, <<Control>>,
   <<Location("p")>>, <<CreatedBy(12)>>, <<CreatedBy(99)>>, <<Long>>}

TextOf(lines) == FoldLeft(LAMBDA text, l : text \o l \o <<NewLine>>, <<>>, lines)

MCLongTexts ==
  {<<Plain, NewLine, Location("p"), NewLine, Location("q"), NewLine,
     Numbered, NewLine, Text("f"), NewLine, CreatedBy(1), NewLine,
     CreatedBy(12)>>,
   <<NewLine, Labelled, NewLine, CreatedBy(12), Location("p"), NewLine,
     Plain, Text("f"), NewLine, Plain, NewLine, NewLine, NewLine, Plain>>,
   <<Plain, Slow, Plain, NewLine, CreatedBy(99), CreatedBy(1)>>}

OnceLabelled(lines) ==
  \A i, j \in DOMAIN lines :
    lines[i] = <<Labelled>> /\ lines[j] = <<Labelled>> => i = j

MCTexts ==
  {TextOf(lines) : lines \in
     {ls \in UNION {[1..n -> MCLines] : n \in 0..MCLength} : OnceLabelled(ls)}}
    \cup MCLongTexts

MCExports == {<<Text("graph")>>}
=============================================================================
