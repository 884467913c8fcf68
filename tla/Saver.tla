------------------------------- MODULE Saver --------------------------------
(***************************************************************************)
(* What writes a dump to a file: GoroutineDump.Save of goroutines.go, and  *)
(* the Writer of writer.go under it and under writeToFile, which json and  *)
(* dot use.  The file is truncated first and then written in many pieces;  *)
(* the disk may be full, and the process may die, between any two tokens   *)
(* and inside of one.                                                      *)
(***************************************************************************)
EXTENDS DumpText

CONSTANTS
  Exports,      \* the texts that json and dot may write
  MaxFailures   \* how many writes may fail

ASSUME SaverAssumption ==
  /\ Exports \subseteq Seq(Token) \ {<<>>}
  /\ MaxFailures \in Nat

VARIABLES
  file,      \* the text of the file
  saving,    \* "none", "writing", or what the call returned: "saved" or
             \* "failed"; "crashed" when the process died in it
  pieces,    \* what is left to write, each piece the argument of one Write
  checked,   \* whether the caller looks at the error of a Write
  meant,     \* the text that the file is to have
  failures   \* how many writes failed

saverVars == <<file, saving, pieces, checked, meant, failures>>

SaverInit ==
  /\ saving = "none" /\ pieces = <<>> /\ checked = FALSE
  /\ meant = <<>> /\ failures = 0

-----------------------------------------------------------------------------
Writing == saving = "writing" /\ pieces # <<>>
Rest    == Head(pieces)   \* what writeImpl has still to write

\* Mutant: the file is opened for appending.
CreateWithoutTruncating(writes, looks) ==
  \/ /\ saving' = "failed"
     /\ UNCHANGED <<file, pieces, checked, meant, failures>>
  \/ /\ saving' = "writing"
     /\ UNCHANGED file
     /\ pieces' = writes /\ checked' = looks
     /\ meant' = FlattenSeq(writes)
     /\ failures' = 0

(* os.Create, which may fail, truncates the file.                          *)
Create(writes, looks) ==
  \/ /\ saving' = "failed"
     /\ UNCHANGED <<file, pieces, checked, meant, failures>>
  \/ /\ saving' = "writing"
     /\ file' = <<>>
     /\ pieces' = writes /\ checked' = looks
     /\ meant' = FlattenSeq(writes)
     /\ failures' = 0

(* Save: two writes for each goroutine, and Print drops their errors.      *)
Save(gs) == saving # "writing" /\ Create(Prints(gs), FALSE)

(* writeToFile.                                                            *)
Export(text) == saving # "writing" /\ Create(<<text, <<NewLine>>>>, TRUE)

\* Mutant: a write that came to its end is tried once more.
WriteLeavesEmpty ==
  /\ Writing
  /\ \E n \in 1..Len(Rest) :
       /\ file' = file \o SubSeq(Rest, 1, n)
       /\ pieces' = <<SubSeq(Rest, n + 1, Len(Rest))>> \o Tail(pieces)
  /\ UNCHANGED <<saving, checked, meant, failures>>

\* Mutant: writeImpl is content with a short write.
WriteOnce ==
  /\ Writing
  /\ \E n \in 1..Len(Rest) : file' = file \o SubSeq(Rest, 1, n)
  /\ pieces' = Tail(pieces)
  /\ UNCHANGED <<saving, checked, meant, failures>>

(* writeImpl: the inner writer takes some of what is left, and it goes on  *)
(* until nothing is.                                                       *)
WriteSome ==
  /\ Writing
  /\ \E n \in 1..Len(Rest) :
       /\ file' = file \o SubSeq(Rest, 1, n)
       /\ pieces' = IF n = Len(Rest) THEN Tail(pieces)
                    ELSE <<SubSeq(Rest, n + 1, Len(Rest))>> \o Tail(pieces)
  /\ UNCHANGED <<saving, checked, meant, failures>>

(* The text with some of the next token, or nothing, added to it.          *)
Stopped == {file} \cup {Append(file, t) : t \in Torn(Rest[1])}

(* The inner writer returns an error: the rest of this write is dropped,   *)
(* and all that follows if somebody looks at the error.                    *)
WriteFails ==
  /\ Writing /\ failures < MaxFailures
  /\ file' \in Stopped
  /\ failures' = failures + 1
  /\ pieces' = IF checked THEN <<>> ELSE Tail(pieces)
  /\ saving' = IF checked THEN "failed" ELSE "writing"
  /\ UNCHANGED <<checked, meant>>

(* File.Sync is what Save and writeToFile return.                          *)
Sync ==
  /\ saving = "writing" /\ pieces = <<>>
  /\ saving' \in {"saved", "failed"}
  /\ UNCHANGED <<file, pieces, checked, meant, failures>>

(* The process dies while it writes: what was written stays.               *)
DieWriting ==
  /\ saving = "writing"
  /\ saving' = "crashed"
  /\ file' \in IF pieces = <<>> THEN {file} ELSE Stopped
  /\ pieces' = <<>>
  /\ UNCHANGED <<checked, meant, failures>>

Write == WriteSome \/ WriteFails \/ Sync

-----------------------------------------------------------------------------
(* Save and writeToFile return nil only when the whole text is in the      *)
(* file: "It tries to always write the entire contents" (writer.go:90-91), *)
(* as long as no write failed or its error is looked at.                   *)
SavedUnlessDropped ==
  saving = "saved" /\ (checked \/ failures = 0) => file = meant

(* "Save saves the goroutine dump to the given file" (goroutines.go:201):  *)
(* when it returns nil the file has the dump.                              *)
SaveReports == saving = "saved" => file = meant

=============================================================================
