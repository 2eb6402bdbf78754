------------------------------ MODULE ArrayStore ------------------------------
(***************************************************************************)
(* What SliceArrays promise: sequences that do not touch each other, each  *)
(* changed by the calls on it and to what the last call says.              *)
(***************************************************************************)
EXTENDS Sequences, Integers

CONSTANTS Arrays, Values, MaxCount

VARIABLES
  lists,
  call    \* the last call

vars == <<lists, call>>

Contents == UNION { [1 .. n -> Values] : n \in 0 .. MaxCount }

Calls ==
  [op : {"assign"}, at : Arrays, list : Contents]
    \cup [op : {"resize"}, at : Arrays, count : 0 .. MaxCount, value : Values]
    \cup [op : {"clear", "forget", "lose", "fail"}, at : Arrays]
    \cup [op : {"reset"}]

Init == lists = [a \in Arrays |-> << >>] /\ call = [op |-> "none"]

\* Everything is replaced by what is assigned.
Assign(k) == k.op = "assign" /\ lists' = [lists EXCEPT ![k.at] = k.list]

\* The first elements stay, and those that are more get the value.
Resize(k) ==
  /\ k.op = "resize"
  /\ lists' = [lists EXCEPT ![k.at] =
                 [i \in 1 .. k.count |-> IF i <= Len(@) THEN @[i] ELSE k.value]]

\* An assignment that failed after the old elements were given up, and an array
\* that is told to forget them.
Lose(k) == k.op \in {"lose", "forget"} /\ lists' = [lists EXCEPT ![k.at] = << >>]

\* A call that failed before it changed anything.
Fail(k) == k.op = "fail" /\ UNCHANGED lists

\* Nothing says whether elements are left.
Clear(k) ==
  /\ k.op = "clear"
  /\ UNCHANGED lists \/ lists' = [lists EXCEPT ![k.at] = << >>]

\* The memory of all of them is taken at once.
Reset(k) == k.op = "reset" /\ lists' = [a \in Arrays |-> << >>]

Do(k) == Assign(k) \/ Resize(k) \/ Lose(k) \/ Fail(k) \/ Clear(k) \/ Reset(k)

Next == call' \in Calls /\ Do(call')

Spec == Init /\ [][Next]_vars

=============================================================================
