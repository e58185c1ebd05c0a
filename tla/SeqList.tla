------------------------------ MODULE SeqList ------------------------------
(***************************************************************************)
(* What a caller of Linkedlist may rely on: the list is a sequence of      *)
(* values.  A value is read and replaced by its position, counted from 0;  *)
(* a position outside the sequence reads as NoValue; values are added at   *)
(* the end and taken from the front.                                       *)
(***************************************************************************)
EXTENDS Naturals, Sequences

CONSTANTS Items, NoValue, Positions

VARIABLES
  contents,  \* the values in the list
  answer     \* the position the last call was about, and its value there

ListInit == contents = <<>> /\ answer = [at |-> 0, value |-> NoValue]

Add(v) == contents' = Append(contents, v) /\ UNCHANGED answer

Read(pos) ==
  /\ answer' = [at |-> pos,
                value |-> IF pos < Len(contents) THEN contents[pos + 1] ELSE NoValue]
  /\ UNCHANGED contents

Write(pos, v) ==
  /\ pos < Len(contents)
  /\ contents' = [contents EXCEPT ![pos + 1] = v]
  /\ answer' = [at |-> pos, value |-> v]

Take ==
  /\ contents # <<>>
  /\ contents' = Tail(contents)
  /\ answer' = [at |-> 0, value |-> Head(contents)]

TakeNothing == contents = <<>> /\ Read(0)

Clear == contents' = <<>> /\ UNCHANGED answer

ListNext ==
  \/ \E v \in Items : Add(v)
  \/ \E pos \in Positions : Read(pos)
  \/ \E pos \in Positions, v \in Items : Write(pos, v)
  \/ Take \/ TakeNothing \/ Clear

ListSpec == ListInit /\ [][ListNext]_<<contents, answer>>
=============================================================================
