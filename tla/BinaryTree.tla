------------------------------ MODULE BinaryTree ------------------------------
(***************************************************************************)
(* The pointer operations of mary_tree.hpp (with M = 2) and                *)
(* binary_tree.hpp, as operators on a heap record.  A heap is what the     *)
(* C++ object graph is: for every node its parent, its two children and    *)
(* the colour bit that redblack_tree_node adds, and the tree's own root    *)
(* pointer and size.  Every operator below is one member function and      *)
(* returns the heap after the call, so that a caller's statements are      *)
(* composed in the order in which the source executes them.                *)
(***************************************************************************)
EXTENDS Integers

CONSTANTS
  Nodes,  \* the node objects a client owns
  NULL    \* nullptr

ASSUME NullNotNode == NULL \notin Nodes

NodeOrNull == Nodes \cup {NULL}

\* Child indices; `id^1' of the source is Opp(id).
Side == {0, 1}
Opp(i) == 1 - i

Heap == [root   : NodeOrNull,
         size   : Int,
         parent : [Nodes -> NodeOrNull],
         child  : [Nodes -> [Side -> NodeOrNull]],
         red    : [Nodes -> BOOLEAN]]

NoChildren == [i \in Side |-> NULL]

\* mary_tree_base(): an empty tree; the links of nodes that were never
\* inserted are not read before insertion writes them.
EmptyHeap ==
  [root   |-> NULL,
   size   |-> 0,
   parent |-> [n \in Nodes |-> NULL],
   child  |-> [n \in Nodes |-> NoChildren],
   red    |-> [n \in Nodes |-> FALSE]]

-----------------------------------------------------------------------------
(* mary_tree_node *)

ConnectChild(h, p, c, i) ==
  [h EXCEPT !.parent[c] = p, !.child[p][i] = c]

ConnectNone(h, p, i) ==
  [h EXCEPT !.child[p][i] = NULL]

ConnectChildAuto(h, p, c, i) ==
  IF c = NULL THEN ConnectNone(h, p, i) ELSE ConnectChild(h, p, c, i)

MakeRoot(h, n) ==
  [h EXCEPT !.parent[n] = NULL]

(* binary_tree_node *)

\* Which child of p is c; the source asserts that it is one of them.
GetChildId(h, p, c) == IF h.child[p][0] # c THEN 1 ELSE 0

\* The source makes the same choice by or-ing the two pointers of a node
\* that is not of degree two.
Single(h, n) == IF h.child[n][0] = NULL THEN h.child[n][1] ELSE h.child[n][0]

IsDeg2(h, n) == h.child[n][0] # NULL /\ h.child[n][1] # NULL

\* replace_child leaves the parent pointer of the new child alone.
ReplaceChild(h, p, old, new) ==
  [h EXCEPT !.child[p][GetChildId(h, p, old)] = new]

\* binary_tree_node::rotate_id: child Opp(i) of n rises above n and n
\* becomes its child i; the node above n is not touched.
NodeRotate(h, n, i) ==
  LET r == h.child[n][Opp(i)]
  IN  ConnectChild(ConnectChildAuto(h, n, h.child[r][i], Opp(i)), r, n, i)

(* binary_tree_base *)

\* binary_tree_base::rotate_id: the node rotation, and the node (or the
\* root pointer) that pointed at n now points at the node that rose.
TreeRotate(h, n, i) ==
  LET p == h.parent[n]
      r == h.child[n][Opp(i)]
      u == [NodeRotate(h, n, i) EXCEPT !.parent[r] = p]
  IN  IF p = NULL THEN [u EXCEPT !.root = r] ELSE ReplaceChild(u, p, n, r)

-----------------------------------------------------------------------------
(***************************************************************************)
(* The read-only walks.  Each loop of the source is a recursive function,  *)
(* which is defined because the links form a tree (RedBlackTreeProofs).    *)
(***************************************************************************)

\* Follow child links i from n to the end: front() and back() from the
\* root, trace_inorder_id from a child of the node.
Extreme(h, n, i) ==
  LET walk[x \in Nodes] ==
        IF h.child[x][i] = NULL THEN x ELSE walk[h.child[x][i]]
  IN  walk[n]

\* A bug: the climb ends at the first parent, whichever side it comes from.
FindInorderNoClimb(h, n, id) ==
  IF h.child[n][Opp(id)] # NULL
  THEN Extreme(h, h.child[n][Opp(id)], id)
  ELSE h.parent[n]

\* find_inorder_id: the in-order successor (id = 0) or predecessor (id = 1).
FindInorder(h, n, id) ==
  LET climb[x \in Nodes] ==
        LET p == h.parent[x]
        IN  IF p = NULL THEN NULL
            ELSE IF h.child[p][id] = x THEN p ELSE climb[p]
  IN  IF h.child[n][Opp(id)] # NULL
      THEN Extreme(h, h.child[n][Opp(id)], id)
      ELSE climb[n]

-----------------------------------------------------------------------------
(***************************************************************************)
(* What it is for the links of the nodes M to form one tree.  sub gives    *)
(* each node the set of the nodes of its subtree, itself included; no tree *)
(* has more than one such function.                                        *)
(***************************************************************************)

Linked(h, M) ==
  /\ h.root \in M \cup {NULL}
  /\ \A n \in M :
       /\ h.parent[n] = NULL <=> n = h.root
       /\ h.parent[n] # NULL =>
            h.parent[n] \in M /\ \E i \in Side : h.child[h.parent[n]][i] = n
       /\ \A i \in Side : h.child[n][i] # NULL =>
            h.child[n][i] \in M /\ h.parent[h.child[n][i]] = n

Sub(sub, n) == IF n = NULL THEN {} ELSE sub[n]

\* The subtrees, from above and from below: a node is in the subtree of n if
\* it is n or its parent is in it.
Subtrees(h, M, sub) ==
  /\ M = Sub(sub, h.root)
  /\ \A n \in M :
       /\ sub[n] \subseteq M
       /\ sub[n] = {n} \cup Sub(sub, h.child[n][0]) \cup Sub(sub, h.child[n][1])
       /\ Sub(sub, h.child[n][0]) \cap Sub(sub, h.child[n][1]) = {}
       /\ \A i \in Side : n \notin Sub(sub, h.child[n][i])
  /\ \A m, n \in M :
       m \in sub[n] <=> m = n \/ (h.parent[m] # NULL /\ h.parent[m] \in sub[n])

\* Heap h links the nodes M as one tree with the subtrees sub.
Tree(h, M, sub) ==
  /\ M \in SUBSET Nodes
  /\ sub \in [Nodes -> SUBSET Nodes]
  /\ Linked(h, M)
  /\ Subtrees(h, M, sub)

=============================================================================
