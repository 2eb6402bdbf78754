---------------------------- MODULE RedBlackTreeInv ----------------------------
(***************************************************************************)
(* The invariants of RedBlackTree, and the inductive invariant from which  *)
(* RedBlackTreeProofs derives them.                                        *)
(***************************************************************************)
EXTENDS RedBlackTree, FiniteSets

Idle == pc = "idle"
Erasing == req.op = "erase"
Size == Cardinality(members)

\* Parent and child links say the same thing: the nodes of the tree are those
\* the client put there, each but the root is a child of its parent, no node
\* is both children, and no link leads out of the tree.  The rotations,
\* swap_node and the three ways to unlink a node have to keep this with
\* pointers that are, part of the time, stale.
LinksConsistent ==
  /\ t.root = NULL <=> members = {}
  /\ t.root # NULL => t.root \in members /\ t.parent[t.root] = NULL
  /\ \A n \in members \ {t.root} :
       /\ t.parent[n] \in members
       /\ \E i \in Side : t.child[t.parent[n]][i] = n
  /\ \A n \in members, i \in Side :
       t.child[n][i] # NULL =>
         /\ t.child[n][i] \in members
         /\ t.parent[t.child[n][i]] = n
         /\ t.child[n][Opp(i)] # t.child[n][i]

\* The loops' locals are nodes of the tree, and so is the node that an erase
\* will swap and unlink when its search ends, while the node to be inserted is
\* not in the tree before that.
LocalsInTree ==
  /\ pc # "idle" => cur \in members
  /\ pc = "search" /\ req.op = "erase" =>
       req.node \in members /\ req.node # cur /\ IsDeg2(t, req.node)
  /\ pc = "search" /\ req.op # "erase" => req.node \in Nodes \ members
  /\ pc = "insertNormalise" => t.red[cur]

\* m_size counts the nodes of the tree, except that eraseNode takes the node
\* off the count before it searches for the node to swap it with.
SizeMatches ==
  t.size = IF pc = "search" /\ req.op = "erase" THEN Size - 1 ELSE Size

\* The colours at every loop head: the root is black and no red node has a
\* red child, except for the one red pair that insertNormalise has at hand,
\* which may be at the root.
Coloured ==
  LET repaired(n) == pc = "insertNormalise" /\ n = cur
  IN  \A n \in members :
        t.red[n] /\ ~ repaired(n) => t.parent[n] # NULL /\ ~ t.red[t.parent[n]]

-----------------------------------------------------------------------------
(* The assertions of the source, each where the loop head decides it. *)

IsLeaf(h, n) == h.child[n] = NoChildren

\* insertRootNode: what has no root has no size.
RootAsserts == t.root = NULL => t.size = 0

\* insertNormalise: a red parent is not the root.
NormaliseAsserts == Parent # NULL /\ t.red[Parent] => Grandparent # NULL

\* eraseNodeNormalise: P and the sibling of the missing node exist, below a red
\* sibling the parent is black, and case 5 leaves a red outer nephew.
NormaliseEraseAsserts ==
  /\ cur # NULL
  /\ Sibling(t) # NULL
  /\ t.red[Sibling(t)] => ~ t.red[cur]
  /\ S # NULL /\ ~ Levelled.red[S]
  /\ ~ BlackNephews =>
       LET u == RedOuterNephew(Levelled, S)
       IN  u.parent[Sibling(u)] = cur /\ IsRed(u, u.child[Sibling(u)][Opp(side)])

\* mary_tree_node::children_connected.
Connected(h, n) ==
  \A i \in Side : h.child[n][i] # NULL => h.parent[h.child[n][i]] = n

\* swap_node, after it: both nodes are linked both ways where they now are.
SwapAsserts(h, a, b) ==
  \A n \in {a, b} :
    /\ h.parent[n] = NULL <=> h.root = n
    /\ h.parent[n] # NULL => Connected(h, h.parent[n])
    /\ Connected(h, n)

\* eraseNode, once the node n has at most one child.
UnlinkAsserts(h, n) ==
  LET c == Single(h, n)
  IN  /\ ~ IsDeg2(h, n)
      /\ h.parent[n] = NULL =>
           /\ h.root = n /\ ~ h.red[n]
           /\ IsLeaf(h, n) => h.size = 0
           /\ c # NULL => h.size = 1 /\ IsLeaf(h, c) /\ h.red[c]
      /\ h.parent[n] # NULL /\ c # NULL => h.red[n] # h.red[c]

\* Every assert of redblack_tree.hpp holds, whatever calls a client makes:
\* of a pass about to be made, of the first insertion, and of the erasure of any
\* node.
AssertionsHold ==
  /\ pc = "insertNormalise" => NormaliseAsserts
  /\ pc = "eraseNormalise" => NormaliseEraseAsserts
  /\ Idle => RootAsserts
  /\ Idle => \A n \in members : IsDeg2(t, n) \/ UnlinkAsserts(Shrink(t), n)
  /\ pc = "search" /\ req.op = "erase" /\ t.child[cur][side] = NULL =>
       LET h == SwapNode(t, req.node, cur)
       IN  req.node # cur /\ SwapAsserts(h, req.node, cur) /\ UnlinkAsserts(h, req.node)

-----------------------------------------------------------------------------
(***************************************************************************)
(* The inductive invariant.  LinksConsistent holds of a ring of nodes too, *)
(* and a rotation in a short ring breaks it, so that the links have to     *)
(* form a tree, whose subtrees sub gives.  That the sibling in             *)
(* eraseNodeNormalise exists follows from the number of black nodes on the *)
(* paths down from each node, bh.                                          *)
(***************************************************************************)

\* No red node but x is at the root or below another red one.
NoRedPair(h, M, x) ==
  \A n \in M \ {x} :
    h.red[n] => h.parent[n] # NULL /\ ~ h.red[h.parent[n]]

\* bh counts the black nodes on every path down, if the side s of c is given
\* one more than it has.
Own(h, n) == IF h.red[n] THEN 0 ELSE 1
Height(bh, n) == IF n = NULL THEN 0 ELSE bh[n]
Credit(n, i, c, s) == IF n = c /\ i = s THEN 1 ELSE 0

Heights(h, M, bh, c, s) ==
  /\ bh \in [Nodes -> Nat]
  /\ \A n \in M, i \in Side :
       bh[n] = Own(h, n) + Height(bh, h.child[n][i]) + Credit(n, i, c, s)

RedBlack(h, M, sub, bh, x, c, s) ==
  /\ Tree(h, M, sub)
  /\ NoRedPair(h, M, x)
  /\ Heights(h, M, bh, c, s)

\* What is known at the head of each loop.
IdleInv(sub, bh) ==
  RedBlack(t, members, sub, bh, NULL, NULL, 0)

SearchInv(sub, bh) ==
  /\ RedBlack(t, members, sub, bh, NULL, NULL, 0)
  /\ cur \in members
  /\ Erasing =>
       /\ req.node \in members /\ IsDeg2(t, req.node)
       /\ cur \in sub[t.child[req.node][0]]
       /\ side = 1
  /\ ~ Erasing => req.node \in Nodes \ members

InsertInv(sub, bh) ==
  /\ RedBlack(t, members, sub, bh, cur, NULL, 0)
  /\ cur \in members /\ t.red[cur]

EraseInv(sub, bh) ==
  /\ RedBlack(t, members, sub, bh, NULL, cur, side)
  /\ cur \in members
  /\ ~ IsRed(t, t.child[cur][side])

LoopInv(sub, bh) ==
  /\ Idle => IdleInv(sub, bh)
  /\ pc = "search" => SearchInv(sub, bh)
  /\ pc = "insertNormalise" => InsertInv(sub, bh)
  /\ pc = "eraseNormalise" => EraseInv(sub, bh)

SizeInv ==
  /\ IsFiniteSet(members)
  /\ SizeMatches

Inv ==
  /\ TypeOK
  /\ SizeInv
  /\ \E sub \in [Nodes -> SUBSET Nodes], bh \in [Nodes -> Nat] : LoopInv(sub, bh)

\* A program has finitely many nodes; their number bounds the depth to which the
\* definitions from here on look into a heap, which may be a bad one.
ASSUME NodesFinite == IsFiniteSet(Nodes)

\* The inductive invariant, with the one candidate that there is for the
\* subtrees and the counts of black nodes along the leftmost paths.
Subtree ==
  LET below[k \in 0..Cardinality(Nodes)] ==
        [n \in NodeOrNull |->
           IF n = NULL \/ k = 0 THEN {}
           ELSE {n} \cup below[k - 1][t.child[n][0]] \cup below[k - 1][t.child[n][1]]]
  IN  [n \in Nodes |-> below[Cardinality(Nodes)][n]]

BlackHeight ==
  LET credit(n) == IF pc = "eraseNormalise" THEN Credit(n, 0, cur, side) ELSE 0
      count[k \in 0..Cardinality(Nodes)] ==
        [n \in NodeOrNull |->
           IF n = NULL \/ k = 0 THEN 0
           ELSE Own(t, n) + credit(n) + count[k - 1][t.child[n][0]]]
  IN  [n \in Nodes |-> count[Cardinality(Nodes)][n]]

\* Inv, on which the proofs rest: at the head of every loop the links form one
\* tree with one number of black nodes below each node, but for the exceptions
\* that the loop is there to repair.
LoopInvariants == SizeInv /\ LoopInv(Subtree, BlackHeight)

=============================================================================
