----------------------------- MODULE RedBlackTree -----------------------------
(***************************************************************************)
(* redblack_tree.hpp: an intrusive red-black tree.  The client owns the    *)
(* nodes and says where each goes; there is no key.                        *)
(*                                                                         *)
(* A call is an action, and so is every pass of a loop of the source that  *)
(* changes the tree or searches in it: pc names the loop that is running,  *)
(* cur and side are its local variables, req the arguments of the call.    *)
(* Nothing else can happen between the passes of a call (every call needs  *)
(* pc = "idle"), so that the states at pc # "idle" are the loop heads of   *)
(* one sequential call and the invariants there are loop invariants.       *)
(*                                                                         *)
(* The definitions commented "A bug:" are used by no specification here:   *)
(* each is a plausible mistake in the definition that follows it, which    *)
(* one of the properties finds.                                            *)
(***************************************************************************)
EXTENDS BinaryTree

VARIABLES
  t,        \* the heap: links, colours, m_root and m_size
  members,  \* what the client knows: the nodes it has put in the tree
  pc,       \* the loop of the running call, or "idle"
  cur,      \* `ans' of a search, `node' of insertNormalise, `P' of eraseNodeNormalise
  side,     \* the direction of a search, `side' of eraseNodeNormalise
  req       \* the arguments of the running call (of the last one when idle)

vars == <<t, members, pc, cur, side, req>>

InsertOps == {"insert_root", "insert_leaf_node", "insert_before", "insert_after"}

Request == [op   : InsertOps \cup {"none", "erase", "clear"},
            at   : NodeOrNull,   \* the neighbour; NULL is the end iterator
            i    : Side,         \* the child index of insert_leaf_node
            node : NodeOrNull]

Call(op, at, i, node) == [op |-> op, at |-> at, i |-> i, node |-> node]

Init ==
  /\ t = EmptyHeap
  /\ members = {}
  /\ pc = "idle"
  /\ cur = NULL
  /\ side = 0
  /\ req = Call("none", NULL, 0, NULL)

IsRed(h, n) == n # NULL /\ h.red[n]

\* The call returns.
Return ==
  /\ pc' = "idle"
  /\ cur' = NULL
  /\ side' = 0

\* Enter a loop, or go round it again.
Loop(loop, node, i) ==
  /\ pc' = loop
  /\ cur' = node
  /\ side' = i

-----------------------------------------------------------------------------
(* Insertion *)

\* A bug: the first node is not counted.
RootOnlyUncounted(h, ins) ==
  [h EXCEPT !.root = ins, !.parent[ins] = NULL,
            !.child[ins] = NoChildren, !.red[ins] = FALSE]

RootOnly(h, ins) ==
  [h EXCEPT !.root = ins, !.size = @ + 1, !.parent[ins] = NULL,
            !.child[ins] = NoChildren, !.red[ins] = FALSE]

LinkLeaf(h, leaf, i, ins) ==
  [ConnectChild(h, leaf, ins, i) EXCEPT
     !.size = @ + 1, !.child[ins] = NoChildren, !.red[ins] = TRUE]

InsertRootNode(ins) ==
  /\ t' = RootOnly(t, ins)
  /\ members' = members \cup {ins}
  /\ Return

InsertUnderLeafNode(leaf, i, ins) ==
  /\ t' = LinkLeaf(t, leaf, i, ins)
  /\ members' = members \cup {ins}
  /\ Loop("insertNormalise", ins, 0)

\* The search for the leaf starts at node n and follows the children i.
Search(n, i) ==
  /\ Loop("search", n, i)
  /\ UNCHANGED <<t, members>>

\* A bug: the search for the neighbour goes on in the direction it started in.
InsertBesideSameSide(k, at, ins) ==
  IF t.child[at][k] = NULL
  THEN InsertUnderLeafNode(at, k, ins)
  ELSE Search(t.child[at][k], k)

\* The part of insert_before (k = 0) and insert_after (k = 1) that they share.
InsertBeside(k, at, ins) ==
  IF t.child[at][k] = NULL
  THEN InsertUnderLeafNode(at, k, ins)
  ELSE Search(t.child[at][k], Opp(k))

InsertRoot(ins) ==
  /\ pc = "idle"
  /\ t.size = 0 /\ t.root = NULL
  /\ req' = Call("insert_root", NULL, 0, ins)
  /\ InsertRootNode(ins)

InsertLeafNode(leaf, i, ins) ==
  /\ pc = "idle"
  /\ t.child[leaf][i] = NULL
  /\ req' = Call("insert_leaf_node", leaf, i, ins)
  /\ InsertUnderLeafNode(leaf, i, ins)

InsertBefore(before, ins) ==
  /\ pc = "idle"
  /\ req' = Call("insert_before", before, 0, ins)
  /\ InsertBeside(0, before, ins)

InsertAfter(after, ins) ==
  /\ pc = "idle"
  /\ req' = Call("insert_after", after, 0, ins)
  /\ InsertBeside(1, after, ins)

\* insert_before(end()): after back(); insert(end(), ins) is the same call.
InsertBeforeEnd(ins) ==
  /\ pc = "idle"
  /\ req' = Call("insert_before", NULL, 0, ins)
  /\ IF t.root = NULL THEN InsertRootNode(ins) ELSE Search(t.root, 1)

\* insert_after(end()): before front().
InsertAfterEnd(ins) ==
  /\ pc = "idle"
  /\ req' = Call("insert_after", NULL, 0, ins)
  /\ IF t.root = NULL THEN InsertRootNode(ins) ELSE Search(t.root, 0)

\* A bug: the search does not move on.
SearchPassStuck ==
  /\ pc = "search"
  /\ t.child[cur][side] # NULL
  /\ UNCHANGED vars

\* One pass of the loop of trace_inorder_id, front() or back().
SearchPass ==
  /\ pc = "search"
  /\ t.child[cur][side] # NULL
  /\ cur' = t.child[cur][side]
  /\ UNCHANGED <<t, members, pc, side, req>>

\* The leaf is found: insert_before puts the node right of the in-order
\* predecessor, insert_after left of the successor, which is the side that
\* the search followed.
SearchInsert ==
  /\ pc = "search" /\ req.op # "erase"
  /\ t.child[cur][side] = NULL
  /\ InsertUnderLeafNode(cur, side, req.node)
  /\ UNCHANGED req

(* insertNormalise: the four ways through a pass of its loop *)

NormaliseRoot ==
  /\ pc = "insertNormalise"
  /\ t.parent[cur] = NULL
  /\ t' = [t EXCEPT !.red[cur] = FALSE]
  /\ Return
  /\ UNCHANGED <<members, req>>

NormaliseUnderBlack ==
  /\ pc = "insertNormalise"
  /\ t.parent[cur] # NULL /\ ~ t.red[t.parent[cur]]
  /\ Return
  /\ UNCHANGED <<t, members, req>>

\* Parent, grandparent and uncle of the node under repair.
Parent == t.parent[cur]
Grandparent == t.parent[Parent]
ParentId == GetChildId(t, Grandparent, Parent)
Uncle == t.child[Grandparent][Opp(ParentId)]

\* A bug: the uncle stays red.
RecolourParentOnly(h, p, u, gp) ==
  [h EXCEPT !.red[p] = FALSE, !.red[gp] = TRUE]

Recolour(h, p, u, gp) ==
  [h EXCEPT !.red[p] = FALSE, !.red[u] = FALSE, !.red[gp] = TRUE]

\* A bug: the repair goes on at the node it has just repaired.
NormaliseRecolourSameNode ==
  /\ pc = "insertNormalise"
  /\ Parent # NULL /\ t.red[Parent] /\ IsRed(t, Uncle)
  /\ t' = Recolour(t, Parent, Uncle, Grandparent)
  /\ Loop("insertNormalise", cur, 0)
  /\ UNCHANGED <<members, req>>

NormaliseRecolour ==
  /\ pc = "insertNormalise"
  /\ Parent # NULL /\ t.red[Parent] /\ IsRed(t, Uncle)
  /\ t' = Recolour(t, Parent, Uncle, Grandparent)
  /\ Loop("insertNormalise", Grandparent, 0)
  /\ UNCHANGED <<members, req>>

\* An inner grandchild n is first rotated above p, which its own rotate_id
\* leaves gp to be told of.
OuterGrandchild(h, n, p, gp, pid) ==
  IF GetChildId(h, p, n) # pid
  THEN ConnectChild(NodeRotate(h, p, pid), gp, h.child[p][Opp(pid)], pid)
  ELSE h

RotateGrandparent(h, n, p, gp, pid) ==
  LET top == IF GetChildId(h, p, n) # pid THEN n ELSE p
  IN  [TreeRotate(OuterGrandchild(h, n, p, gp, pid), gp, Opp(pid)) EXCEPT
         !.red[top] = FALSE, !.red[gp] = TRUE]

NormaliseRotate ==
  /\ pc = "insertNormalise"
  /\ Parent # NULL /\ t.red[Parent] /\ ~ IsRed(t, Uncle)
  /\ t' = RotateGrandparent(t, cur, Parent, Grandparent, ParentId)
  /\ Return
  /\ UNCHANGED <<members, req>>

-----------------------------------------------------------------------------
(* Erasure *)

\* One round of the loop of swap_node, for the children i of a and b.
SwapChildren(h, a, b, i) ==
  ConnectChildAuto(ConnectChildAuto(h, a, h.child[b][i], i), b, h.child[a][i], i)

\* What points at `old' from above, the root pointer when p is null.
Repoint(h, p, old, new) ==
  IF p = NULL THEN [h EXCEPT !.root = new] ELSE ReplaceChild(h, p, old, new)

\* swap_node: exchange the places and colours of two nodes, which may be
\* parent and child (then b is, for a moment, its own parent).
SwapNode(h, a, b) ==
  LET s == SwapChildren(SwapChildren(h, a, b, 0), a, b, 1)
      u == [s EXCEPT !.red[a] = s.red[b], !.red[b] = s.red[a],
                     !.parent[a] = s.parent[b], !.parent[b] = s.parent[a]]
  IN  Repoint(Repoint(u, s.parent[a], a, b), s.parent[b], b, a)

\* Bugs: the new root still points at the erased one; it keeps its colour.
ReplaceRootLinked(h, c) ==
  IF c = NULL THEN [h EXCEPT !.root = NULL]
              ELSE [h EXCEPT !.root = c, !.red[c] = FALSE]

ReplaceRootUncoloured(h, c) ==
  IF c = NULL THEN [h EXCEPT !.root = NULL]
              ELSE [MakeRoot(h, c) EXCEPT !.root = c]

\* The new root after the root n of degree at most one is removed.
ReplaceRoot(h, c) ==
  IF c = NULL THEN [h EXCEPT !.root = NULL]
              ELSE [MakeRoot(h, c) EXCEPT !.root = c, !.red[c] = FALSE]

\* eraseNode once `n' has at most one child: heap h is the tree after the
\* swap, if there was one.
Unlink(h, n) ==
  LET c == Single(h, n)
      p == h.parent[n]
      nid == GetChildId(h, p, n)
  IN  /\ members' = members \ {n}
      /\ \/ /\ p = NULL
            /\ t' = ReplaceRoot(h, c)
            /\ Return
         \/ /\ p # NULL /\ c = NULL /\ h.red[n]
            /\ t' = ConnectNone(h, p, nid)
            /\ Return
         \/ /\ p # NULL /\ c # NULL /\ h.red[n] # h.red[c]
            /\ t' = [ConnectChild(h, p, c, nid) EXCEPT !.red[c] = FALSE]
            /\ Return
         \/ /\ p # NULL
            /\ IF c = NULL THEN ~ h.red[n] ELSE h.red[n] = h.red[c]
            /\ t' = ConnectNone(h, p, nid)
            /\ Loop("eraseNormalise", p, nid)

Shrink(h) == [h EXCEPT !.size = @ - 1]

\* The predecessor of a node of degree two is found by trace_inorder_id(1).
EraseDeg2(n) ==
  /\ pc = "idle"
  /\ IsDeg2(t, n)
  /\ req' = Call("erase", NULL, 0, n)
  /\ t' = Shrink(t)
  /\ Loop("search", t.child[n][0], 1)
  /\ UNCHANGED members

EraseDeg1(n) ==
  /\ pc = "idle"
  /\ ~ IsDeg2(t, n)
  /\ req' = Call("erase", NULL, 0, n)
  /\ Unlink(Shrink(t), n)

SearchErase ==
  /\ pc = "search" /\ req.op = "erase"
  /\ t.child[cur][side] = NULL
  /\ Unlink(SwapNode(t, req.node, cur), req.node)
  /\ UNCHANGED req

(* eraseNodeNormalise *)

Sibling(h) == h.child[cur][Opp(side)]

\* A bug: case 2 is left out.
BlackSiblingUnrotated(h) == h

\* Case 2: a red sibling is rotated above the parent; its inner child, which
\* is black, is the sibling from here on.
BlackSibling(h) ==
  IF h.red[Sibling(h)]
  THEN [TreeRotate(h, cur, side) EXCEPT
          !.red[cur] = TRUE, !.red[Sibling(h)] = FALSE]
  ELSE h

\* The heap on which cases 3 to 6 decide, and the sibling in it.
Levelled == BlackSibling(t)
S == Sibling(Levelled)
BlackNephews ==
  \A i \in Side : ~ IsRed(Levelled, Levelled.child[S][i])

\* A bug: the side is not found anew for the parent.
NormaliseErase3SameSide ==
  /\ pc = "eraseNormalise"
  /\ BlackNephews /\ ~ Levelled.red[cur]
  /\ t' = [Levelled EXCEPT !.red[S] = TRUE]
  /\ LET gp == Levelled.parent[cur]
     IN  IF gp = NULL THEN Return ELSE Loop("eraseNormalise", gp, side)
  /\ UNCHANGED <<members, req>>

\* Case 3: everything below the parent is one short; carry on above it.
NormaliseErase3 ==
  /\ pc = "eraseNormalise"
  /\ BlackNephews /\ ~ Levelled.red[cur]
  /\ t' = [Levelled EXCEPT !.red[S] = TRUE]
  /\ LET gp == Levelled.parent[cur]
     IN  IF gp = NULL
         THEN Return
         ELSE Loop("eraseNormalise", gp, GetChildId(Levelled, gp, cur))
  /\ UNCHANGED <<members, req>>

NormaliseErase4 ==
  /\ pc = "eraseNormalise"
  /\ BlackNephews /\ Levelled.red[cur]
  /\ t' = [Levelled EXCEPT !.red[cur] = FALSE, !.red[S] = TRUE]
  /\ Return
  /\ UNCHANGED <<members, req>>

\* Case 5: a red inner nephew is rotated above the sibling.
RedOuterNephew(h, s) ==
  LET near == h.child[s][side]
  IN  IF IsRed(h, near)
      THEN [TreeRotate(h, s, Opp(side)) EXCEPT !.red[s] = TRUE, !.red[near] = FALSE]
      ELSE h

\* Case 6, where one of the nephews was red and now the outer one is.
RotateParent(h) ==
  LET s == Sibling(h)
  IN  [TreeRotate(h, cur, side) EXCEPT
         !.red[s] = h.red[cur], !.red[cur] = FALSE,
         !.red[h.child[s][Opp(side)]] = FALSE]

NormaliseErase56 ==
  /\ pc = "eraseNormalise"
  /\ ~ BlackNephews
  /\ t' = RotateParent(RedOuterNephew(Levelled, S))
  /\ Return
  /\ UNCHANGED <<members, req>>

\* clear() forgets the nodes without touching them.
Clear ==
  /\ pc = "idle"
  /\ req' = Call("clear", NULL, 0, NULL)
  /\ t' = [t EXCEPT !.root = NULL, !.size = 0]
  /\ members' = {}
  /\ UNCHANGED <<pc, cur, side>>

-----------------------------------------------------------------------------

(* Iterators and searches; NULL is the end iterator. *)

Begin(h) == IF h.root = NULL THEN NULL ELSE Extreme(h, h.root, 0)

Increment(h, n) == FindInorder(h, n, 0)

Decrement(h, n) ==
  IF n = NULL THEN Extreme(h, h.root, 1) ELSE FindInorder(h, n, 1)

\* The first node outside the set `yes' of those the predicate holds for, which
\* are a prefix of the nodes.
PartitionPoint(h, yes) ==
  LET descend[at \in NodeOrNull \X NodeOrNull] ==
        LET n  == at[1]
            pt == at[2]
        IN  IF n = NULL THEN pt
            ELSE IF n \in yes THEN descend[<<h.child[n][1], pt>>]
                              ELSE descend[<<h.child[n][0], n>>]
  IN  descend[<<h.root, NULL>>]

LowerBound(h, key, k) == PartitionPoint(h, {n \in DOMAIN key : key[n] < k})

\* A bug: upper_bound stops at the keys equal to k.
UpperBoundStrict(h, key, k) == PartitionPoint(h, {n \in DOMAIN key : key[n] < k})

UpperBound(h, key, k) == PartitionPoint(h, {n \in DOMAIN key : ~ (k < key[n])})

-----------------------------------------------------------------------------

\* A loop pass of the running call.
Pass ==
  \/ SearchPass \/ SearchInsert \/ SearchErase
  \/ NormaliseRoot \/ NormaliseUnderBlack \/ NormaliseRecolour \/ NormaliseRotate
  \/ NormaliseErase3 \/ NormaliseErase4 \/ NormaliseErase56

\* The client inserts nodes that are not in the tree next to nodes that are,
\* and erases nodes that are.
ClientCall ==
  \/ \E ins \in Nodes \ members :
       \/ InsertRoot(ins) \/ InsertBeforeEnd(ins) \/ InsertAfterEnd(ins)
       \/ \E at \in members :
            \/ InsertBefore(at, ins) \/ InsertAfter(at, ins)
            \/ \E i \in Side : InsertLeafNode(at, i, ins)
  \/ \E n \in members : EraseDeg2(n) \/ EraseDeg1(n)
  \/ Clear

Next == ClientCall \/ Pass

Spec == Init /\ [][Next]_vars

\* A call that has started runs: C++ gives the thread of a call no way to
\* pause between two passes of a loop.
FairSpec == Spec /\ WF_vars(Pass)

-----------------------------------------------------------------------------

\* Types of the variables: of the links, of the unsigned size, which never goes
\* below zero, and of the locals and arguments of a running call.
TypeOK ==
  /\ t \in Heap /\ t.size \in Nat
  /\ members \in SUBSET Nodes
  /\ pc \in {"idle", "search", "insertNormalise", "eraseNormalise"}
  /\ cur \in NodeOrNull
  /\ side \in Side
  /\ req \in Request

=============================================================================
