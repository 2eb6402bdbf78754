------------------------------ MODULE AppendList ------------------------------
(***************************************************************************)
(* What BlockArray promises: a sequence that grows at its end and is       *)
(* emptied as a whole.  What is in it does not change in between.          *)
(***************************************************************************)
EXTENDS Sequences

CONSTANT Values

VARIABLE list

Init == list = <<>>

PushBack(v) == list' = Append(list, v)

Clear == list' = <<>>

Next == Clear \/ \E v \in Values : PushBack(v)

Spec == Init /\ [][Next]_list

=============================================================================
