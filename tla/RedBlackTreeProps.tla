--------------------------- MODULE RedBlackTreeProps ---------------------------
(***************************************************************************)
(* What makes the tree of RedBlackTree a red-black tree that keeps its     *)
(* nodes in the client's order: properties of every state, of every loop   *)
(* pass, and the refinement of OrderedList.                                *)
(***************************************************************************)
EXTENDS RedBlackTreeInv, Sequences

\* The node sequence of the subtree at each node; k bounds the depth on a bad
\* heap.
InOrderBelow(h) ==
  LET walk[k \in 0..Cardinality(Nodes)] ==
        [n \in NodeOrNull |->
           IF n = NULL \/ k = 0 THEN <<>>
           ELSE walk[k - 1][h.child[n][0]] \o <<n>> \o walk[k - 1][h.child[n][1]]]
  IN  walk[Cardinality(Nodes)]

InOrder(h) == InOrderBelow(h)[h.root]

\* The numbers of black nodes on the paths down from a node to its null
\* children.  The missing black node below cur counts as if it were there.
BlackCounts(h) ==
  LET credit(n, i) == IF pc = "eraseNormalise" /\ n = cur /\ i = side THEN 1 ELSE 0
      own(n) == IF h.red[n] THEN 0 ELSE 1
      count[k \in 0..Cardinality(Nodes)] ==
        [n \in NodeOrNull |->
           IF n = NULL \/ k = 0 THEN {0}
           ELSE UNION { { b + own(n) + credit(n, i) : b \in count[k - 1][h.child[n][i]] }
                        : i \in Side }]
  IN  count[Cardinality(Nodes)][h.root]

\* Every path from the root to a null child has as many black nodes, where
\* the loop of eraseNodeNormalise is one short on exactly one side of P: "P is
\* inbalanced, where the number of blacks on side is 1 less than on the
\* other", the comment at its head says.
Balanced == \A a, b \in BlackCounts(t) : a = b

-----------------------------------------------------------------------------
(* Iterators and searches, between calls *)

\* ++ and -- of an iterator at n, NULL being end(): one walks the sequence
\* forward into end(), the other back from end(), and out at the front.
IteratorsWalk ==
  Idle =>
    LET l == InOrder(t)
    IN  /\ \A j \in DOMAIN l :
             /\ Increment(t, l[j]) = IF j < Len(l) THEN l[j + 1] ELSE NULL
             /\ Decrement(t, l[j]) = IF j > 1 THEN l[j - 1] ELSE NULL
        /\ l # <<>> => Begin(t) = l[1] /\ Decrement(t, NULL) = l[Len(l)]
        /\ l = <<>> => Begin(t) = NULL

\* The node at position j of the tree, NULL past its end.
At(l, j) == IF j \in DOMAIN l THEN l[j] ELSE NULL

\* In a tree whose keys ascend, with equal keys next to each other, the
\* searches find the ends of the run of equal keys: lower_bound its first
\* node, upper_bound the first node after it.  `run' is the length of the runs,
\* so that key k is that of the positions run * k + 1 to run * (k + 1).
BoundsCorrect ==
  Idle =>
    LET l == InOrder(t)
        place == [n \in members |-> CHOOSE j \in DOMAIN l : l[j] = n]
    IN  \A run \in 1..3 :
          LET key == [n \in members |-> (place[n] - 1) \div run]
          IN  \A k \in 0..Size :
                /\ LowerBound(t, key, k) = At(l, run * k + 1)
                /\ UpperBound(t, key, k) = At(l, run * (k + 1) + 1)

-----------------------------------------------------------------------------
(* Progress *)

\* The number of nodes above n; k bounds it on a bad heap.
Depth(h, n) ==
  LET up[k \in 0..Cardinality(Nodes)] ==
        [x \in NodeOrNull |->
           IF x = NULL \/ k = 0 THEN 0 ELSE 1 + up[k - 1][h.parent[x]]]
  IN  up[Cardinality(Nodes)][h.parent[n]]

\* What a running call has left to do: a search goes down, and the repair
\* after it goes up.
Remaining ==
  CASE Idle -> 0
    [] pc = "search" -> 3 * Cardinality(Nodes) - Depth(t, cur)
    [] OTHER -> 1 + Depth(t, cur)

\* Every pass of a loop brings its call nearer to its end, so that no loop
\* runs for ever, whatever the tree.
PassesProgress == [][~ Idle => Remaining' < Remaining]_vars

\* Every call returns: again and again no call is running.
CallsReturn == []<>Idle

-----------------------------------------------------------------------------

\* The tree implements the list: the links are its order, and while a call
\* searches it has not yet taken effect.
List == INSTANCE OrderedList WITH
          list <- InOrder(t), pending <- (pc = "search")

\* Each call edits the order of the nodes exactly as its name says and once,
\* and the rotations, the recolouring and the node swap of the repairs leave
\* the order alone.
ImplementsList == List!Spec

=============================================================================
