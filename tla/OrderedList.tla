------------------------------ MODULE OrderedList ------------------------------
(***************************************************************************)
(* What the tree of redblack_tree.hpp promises its client: a sequence of   *)
(* distinct nodes, edited at the place a call names.  A call takes effect  *)
(* once, either in the step in which it is made or, when a search comes    *)
(* first, in a later step; nothing else changes the sequence.              *)
(***************************************************************************)
EXTENDS SequencesExt

CONSTANTS
  Nodes,
  NULL,
  Request  \* the calls, with their arguments

VARIABLES
  list,     \* the nodes in iteration order
  req,      \* the last call
  pending   \* whether it has yet to take effect

vars == <<list, req, pending>>

Place(l, n) == SelectInSeq(l, LAMBDA x : x = n)
Before(l, n, ins) == InsertAt(l, Place(l, n), ins)
After(l, n, ins) == InsertAt(l, Place(l, n) + 1, ins)

\* end() is after the last element, and as a position to insert after it is
\* also before the first.
Result(l, r) ==
  CASE r.op = "insert_root" -> <<r.node>>
    [] r.op = "insert_before" /\ r.at = NULL -> Append(l, r.node)
    [] r.op = "insert_before" /\ r.at # NULL -> Before(l, r.at, r.node)
    [] r.op = "insert_after" /\ r.at = NULL -> <<r.node>> \o l
    [] r.op = "insert_after" /\ r.at # NULL -> After(l, r.at, r.node)
    [] r.op = "insert_leaf_node" ->
         IF r.i = 0 THEN Before(l, r.at, r.node) ELSE After(l, r.at, r.node)
    [] r.op = "erase" -> RemoveAt(l, Place(l, r.node))
    [] r.op = "clear" -> <<>>

Elements == ToSet(list)

Legal(r) ==
  CASE r.op = "insert_root" -> list = <<>> /\ r.node \in Nodes
    [] r.op = "insert_leaf_node" -> r.at \in Elements /\ r.node \in Nodes \ Elements
    [] r.op \in {"insert_before", "insert_after"} ->
         r.at \in Elements \cup {NULL} /\ r.node \in Nodes \ Elements
    [] r.op = "erase" -> r.node \in Elements
    [] r.op = "clear" -> TRUE
    [] OTHER -> FALSE

Init ==
  /\ list = <<>>
  /\ req \in Request
  /\ pending = FALSE

Do ==
  /\ ~ pending /\ ~ pending'
  /\ req' \in Request
  /\ Legal(req')
  /\ list' = Result(list, req')

Begin ==
  /\ ~ pending /\ pending'
  /\ req' \in Request
  /\ Legal(req')
  /\ UNCHANGED list

Finish ==
  /\ pending /\ ~ pending'
  /\ list' = Result(list, req)
  /\ UNCHANGED req

Next == Do \/ Begin \/ Finish

Spec == Init /\ [][Next]_vars

=============================================================================
