------------------------------- MODULE Values -------------------------------
(***************************************************************************)
(* The values of the machine (values.go) and the code it runs (chunk.go).  *)
(* A value carries its tag; so does a constant of the code.  The packing   *)
(* of an instruction into one word is left out: an operand is an index or  *)
(* an address, far below the 48 bits it has.                               *)
(***************************************************************************)
EXTENDS Integers, Sequences

Bool(b)       == [tag |-> "bool", bool |-> b]
Number(n)     == [tag |-> "number", num |-> n]
Str(s)        == [tag |-> "string", str |-> s]
Map(ls)       == [tag |-> "map", labels |-> ls]
Goroutine(g)  == [tag |-> "goroutine", goroutine |-> g]
Dump(ref)     == [tag |-> "dump", ref |-> ref]
Diff(l, c, r) == [tag |-> "diff", left |-> l, common |-> c, right |-> r]

(* A MultiAssignment: the indices, 0-based, of the names assigned to.      *)
Multi(targets) == [tag |-> "multi", targets |-> targets]

Op(op, arg) == [op |-> op, arg |-> arg]

Code(chunks, constants) == [chunks |-> chunks, constants |-> constants]

Jumps == {"JumpIfFalse", "JumpIfTrue", "JumpTo", "NextGoroutine"}

=============================================================================
