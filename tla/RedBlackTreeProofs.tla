--------------------------- MODULE RedBlackTreeProofs ---------------------------
(***************************************************************************)
(* The inductive invariant of RedBlackTree holds for every set of nodes,   *)
(* and with it the invariants that the runs check on small ones.  There    *)
(* are four parts:                                                         *)
(*   1. trees      what each operator of BinaryTree does field by field,   *)
(*                 and that a tree stays a tree when it is rotated         *)
(*                 (RotateTree), when a leaf is added to it (GraftTree),   *)
(*                 when a node with at most one child is taken out of it   *)
(*                 (PruneTree) and when two of its nodes exchange their    *)
(*                 places (ExchangeTree).  Each of these names the         *)
(*                 subtrees after the change, from which part 2 reads the  *)
(*                 colours and the heights;                                *)
(*   2. heaps      each heap operator of RedBlackTree takes a heap on      *)
(*                 which RedBlack holds, with at most one red pair and at  *)
(*                 most one missing black node, to a heap on which it      *)
(*                 holds with the exceptions that the next loop head, or   *)
(*                 the end of the call, allows;                            *)
(*   3. actions    they put those facts together;                          *)
(*   4. walks      the functions that follow links to a bounded depth are  *)
(*                 defined, by induction on the depth, and on a tree they  *)
(*                 find what part 1 speaks of: the subtrees, the one       *)
(*                 number of black nodes below a node, the number of nodes *)
(*                 above it.  That the tree is balanced and that every     *)
(*                 pass makes progress follow.                             *)
(***************************************************************************)
EXTENDS RedBlackTreeProps, FiniteSetTheorems, WellFoundedInduction,
        NaturalsInduction, TLAPS

(***************************************************************************)
(* Part 1: trees                                                           *)
(***************************************************************************)

\* The two child indices, and that Opp swaps them.
LEMMA SideFacts ==
  \A i \in Side : Opp(i) \in Side /\ Opp(i) # i /\ Opp(Opp(i)) = i /\ Side = {i, Opp(i)}
  BY DEF Side, Opp

\* The types of the fields of a heap.
LEMMA HeapFacts ==
  ASSUME NEW h \in Heap
  PROVE  /\ h.root \in NodeOrNull
         /\ \A n \in Nodes : h.parent[n] \in NodeOrNull /\ h.red[n] \in BOOLEAN
         /\ \A n \in Nodes, i \in Side : h.child[n][i] \in NodeOrNull
  BY DEF Heap

\* connect_child, field by field.
LEMMA ConnectChildFacts ==
  ASSUME NEW h \in Heap, NEW p \in Nodes, NEW c \in Nodes, NEW i \in Side
  PROVE  LET g == ConnectChild(h, p, c, i)
         IN  /\ g \in Heap
             /\ g.root = h.root /\ g.size = h.size /\ g.red = h.red
             /\ \A m \in Nodes : g.parent[m] = IF m = c THEN p ELSE h.parent[m]
             /\ \A m \in Nodes, j \in Side :
                  g.child[m][j] = IF m = p /\ j = i THEN c ELSE h.child[m][j]
  BY DEF ConnectChild, Heap, NodeOrNull

\* connect_child_auto, field by field, with a child that may be null.
LEMMA ConnectChildAutoFacts ==
  ASSUME NEW h \in Heap, NEW p \in Nodes, NEW c \in NodeOrNull, NEW i \in Side
  PROVE  LET g == ConnectChildAuto(h, p, c, i)
         IN  /\ g \in Heap
             /\ g.root = h.root /\ g.size = h.size /\ g.red = h.red
             /\ \A m \in Nodes : g.parent[m] = IF m = c THEN p ELSE h.parent[m]
             /\ \A m \in Nodes, j \in Side :
                  g.child[m][j] = IF m = p /\ j = i THEN c ELSE h.child[m][j]
<1>1. CASE c = NULL
  BY <1>1, NullNotNode DEF ConnectChildAuto, ConnectNone, Heap, NodeOrNull
<1>2. CASE c # NULL
  BY <1>2, ConnectChildFacts DEF ConnectChildAuto, NodeOrNull
<1> QED BY <1>1, <1>2

\* Writing one child pointer, field by field.
LEMMA SetChildFacts ==
  ASSUME NEW h \in Heap, NEW p \in Nodes, NEW c \in NodeOrNull, NEW i \in Side
  PROVE  LET g == [h EXCEPT !.child[p][i] = c]
         IN  /\ g \in Heap
             /\ g.root = h.root /\ g.size = h.size /\ g.red = h.red /\ g.parent = h.parent
             /\ \A m \in Nodes, j \in Side :
                  g.child[m][j] = IF m = p /\ j = i THEN c ELSE h.child[m][j]
  BY DEF Heap

\* A child of p that is not its other child as well.
LEMMA ReplaceChildFacts ==
  ASSUME NEW h \in Heap, NEW p \in Nodes, NEW old \in Nodes, NEW new \in NodeOrNull,
         \E i \in Side : h.child[p][i] = old /\ h.child[p][Opp(i)] # old
  PROVE  LET g == ReplaceChild(h, p, old, new)
         IN  /\ g \in Heap
             /\ g.root = h.root /\ g.size = h.size /\ g.red = h.red /\ g.parent = h.parent
             /\ \A m \in Nodes, j \in Side :
                  g.child[m][j] = IF m = p /\ h.child[m][j] = old THEN new
                                  ELSE h.child[m][j]
<1> DEFINE k == GetChildId(h, p, old)
           g == ReplaceChild(h, p, old, new)
<1>1. k \in Side /\ h.child[p][k] = old /\ h.child[p][Opp(k)] # old
  BY DEF GetChildId, Side, Opp
<1>2. g = [h EXCEPT !.child[p][k] = new]
  BY DEF ReplaceChild
<1> HIDE DEF k, g
<1>3. /\ g \in Heap
      /\ g.root = h.root /\ g.size = h.size /\ g.red = h.red /\ g.parent = h.parent
      /\ \A m \in Nodes, j \in Side :
           g.child[m][j] = IF m = p /\ j = k THEN new ELSE h.child[m][j]
  BY <1>1, <1>2, SetChildFacts
<1>4. \A j \in Side : j = k <=> h.child[p][j] = old
  BY <1>1, SideFacts
<1> QED BY <1>3, <1>4 DEF g

\* binary_tree_node::rotate_id, field by field.
LEMMA NodeRotateFacts ==
  ASSUME NEW h \in Heap, NEW n \in Nodes, NEW i \in Side,
         h.child[n][Opp(i)] \in Nodes,
         h.child[n][Opp(i)] # n
  PROVE  LET g == NodeRotate(h, n, i)
             r == h.child[n][Opp(i)]
             x == h.child[r][i]
         IN  /\ g \in Heap
             /\ g.root = h.root /\ g.size = h.size /\ g.red = h.red
             /\ \A m \in Nodes :
                  g.parent[m] = IF m = n THEN r ELSE IF m = x THEN n ELSE h.parent[m]
             /\ \A m \in Nodes, j \in Side :
                  g.child[m][j] = IF m = r /\ j = i THEN n
                                  ELSE IF m = n /\ j = Opp(i) THEN x
                                  ELSE h.child[m][j]
<1> DEFINE r == h.child[n][Opp(i)]
           x == h.child[r][i]
           f == ConnectChildAuto(h, n, x, Opp(i))
           g == ConnectChild(f, r, n, i)
<1>1. x \in NodeOrNull /\ Opp(i) \in Side /\ r \in Nodes
  BY HeapFacts, SideFacts
<1>2. g = NodeRotate(h, n, i)
  BY DEF NodeRotate
<1> HIDE DEF r, x, f, g
<1>3. /\ f \in Heap
      /\ f.root = h.root /\ f.size = h.size /\ f.red = h.red
      /\ \A m \in Nodes : f.parent[m] = IF m = x THEN n ELSE h.parent[m]
      /\ \A m \in Nodes, j \in Side :
           f.child[m][j] = IF m = n /\ j = Opp(i) THEN x ELSE h.child[m][j]
  BY <1>1, ConnectChildAutoFacts DEF f
<1>4. /\ g \in Heap
      /\ g.root = f.root /\ g.size = f.size /\ g.red = f.red
      /\ \A m \in Nodes : g.parent[m] = IF m = n THEN r ELSE f.parent[m]
      /\ \A m \in Nodes, j \in Side :
           g.child[m][j] = IF m = r /\ j = i THEN n ELSE f.child[m][j]
  <2>1. f \in Heap /\ r \in Nodes
    BY <1>1, <1>3
  <2>2. g \in Heap /\ g.root = f.root /\ g.size = f.size /\ g.red = f.red
    BY <2>1, ConnectChildFacts DEF g
  <2>3. \A m \in Nodes : g.parent[m] = IF m = n THEN r ELSE f.parent[m]
    BY <2>1, ConnectChildFacts DEF g
  <2>4. \A m \in Nodes, j \in Side :
           g.child[m][j] = IF m = r /\ j = i THEN n ELSE f.child[m][j]
    BY <2>1, ConnectChildFacts DEF g
  <2> QED BY <2>2, <2>3, <2>4
<1> QED BY <1>2, <1>3, <1>4 DEF r, x


\* The links that TreeRotate(h, n, i) leaves, where r rises above n.
Rotated(g, h, n, i, r) ==
  /\ g \in Heap
  /\ g.size = h.size /\ g.red = h.red
  /\ g.root = IF h.parent[n] = NULL THEN r ELSE h.root
  /\ \A m \in Nodes :
       g.parent[m] = IF m = r THEN h.parent[n]
                     ELSE IF m = n THEN r
                     ELSE IF m = h.child[r][i] THEN n
                     ELSE h.parent[m]
  /\ \A m \in Nodes, j \in Side :
       g.child[m][j] = IF m = r /\ j = i THEN n
                       ELSE IF m = n /\ j = Opp(i) THEN h.child[r][i]
                       ELSE IF m = h.parent[n] /\ h.child[m][j] = n THEN r
                       ELSE h.child[m][j]

\* binary_tree_base::rotate_id, field by field: the heap after it is Rotated.
LEMMA TreeRotateFacts ==
  ASSUME NEW h \in Heap, NEW n \in Nodes, NEW i \in Side, NEW r \in Nodes,
         h.child[n][Opp(i)] = r,
         r # n, h.parent[n] # n, h.parent[n] # r,
         h.parent[n] # NULL => 
            \E j \in Side : h.child[h.parent[n]][j] = n /\ h.child[h.parent[n]][Opp(j)] # n
  PROVE  Rotated(TreeRotate(h, n, i), h, n, i, r)
<1> DEFINE x == h.child[r][i]
           p == h.parent[n]
           f == NodeRotate(h, n, i)
           u == [f EXCEPT !.parent[r] = p]
           g == ReplaceChild(u, p, n, r)
<1>1. x \in NodeOrNull /\ p \in NodeOrNull /\ Opp(i) \in Side
  BY HeapFacts, SideFacts
<1>2. TreeRotate(h, n, i) = IF p = NULL THEN [u EXCEPT !.root = r] ELSE g
  BY DEF TreeRotate
<1> HIDE DEF x, p, f, u, g
<1>3. /\ f \in Heap
      /\ f.root = h.root /\ f.size = h.size /\ f.red = h.red
      /\ \A m \in Nodes :
           f.parent[m] = IF m = n THEN r ELSE IF m = x THEN n ELSE h.parent[m]
      /\ \A m \in Nodes, j \in Side :
           f.child[m][j] = IF m = r /\ j = i THEN n
                           ELSE IF m = n /\ j = Opp(i) THEN x
                           ELSE h.child[m][j]
  BY NodeRotateFacts, SMTT(30) DEF f, x
<1>4. /\ u \in Heap
      /\ u.root = f.root /\ u.size = f.size /\ u.red = f.red /\ u.child = f.child
      /\ \A m \in Nodes : u.parent[m] = IF m = r THEN p ELSE f.parent[m]
  BY <1>1, <1>3 DEF u, Heap
<1>5. CASE p = NULL
  <2>1. /\ [u EXCEPT !.root = r] \in Heap
        /\ [u EXCEPT !.root = r].root = r
        /\ [u EXCEPT !.root = r].size = u.size
        /\ [u EXCEPT !.root = r].red = u.red
        /\ [u EXCEPT !.root = r].parent = u.parent
        /\ [u EXCEPT !.root = r].child = u.child
    BY <1>4 DEF Heap, NodeOrNull
  <2> QED BY <1>2, <1>3, <1>4, <1>5, <2>1, NullNotNode, SMTT(30) DEF Rotated, x, p
<1>6. CASE p # NULL
  <2>1. p \in Nodes
    BY <1>1, <1>6 DEF NodeOrNull
  <2>2. \E j \in Side : u.child[p][j] = n /\ u.child[p][Opp(j)] # n
    BY <2>1, <1>3, <1>4, <1>6, SideFacts DEF p
  <2>3. /\ g \in Heap
        /\ g.root = u.root /\ g.size = u.size /\ g.red = u.red /\ g.parent = u.parent
        /\ \A m \in Nodes, j \in Side :
             g.child[m][j] = IF m = p /\ u.child[m][j] = n THEN r ELSE u.child[m][j]
    BY <1>4, <2>1, <2>2, ReplaceChildFacts, SMTT(30) DEF g, NodeOrNull
  <2>4. g.root = IF p = NULL THEN r ELSE h.root
    BY <1>3, <1>4, <1>6, <2>3
  <2>5. ASSUME NEW m \in Nodes
        PROVE  g.parent[m] = IF m = r THEN p
                     ELSE IF m = n THEN r
                     ELSE IF m = x THEN n
                     ELSE h.parent[m]
    BY <1>3, <1>4, <2>3
  <2>6. ASSUME NEW m \in Nodes, NEW j \in Side
        PROVE  g.child[m][j] = IF m = r /\ j = i THEN n
                       ELSE IF m = n /\ j = Opp(i) THEN x
                       ELSE IF m = p /\ h.child[m][j] = n THEN r
                       ELSE h.child[m][j]
    BY <1>3, <1>4, <2>3 DEF p
  <2> QED BY <1>2, <1>3, <1>4, <1>6, <2>3, <2>4, <2>5, <2>6 DEF Rotated, x, p
<1> QED BY <1>5, <1>6

-----------------------------------------------------------------------------

\* Near a node of a tree no two of the links that differ by name are the same.
LEMMA TreeLocal ==
  ASSUME NEW h \in Heap, NEW M, NEW sub, Tree(h, M, sub), NEW n \in M
  PROVE  /\ n \in Nodes /\ n \in sub[n] /\ n # NULL
         /\ h.parent[n] # n
         /\ \A i \in Side : h.child[n][i] # NULL =>
              /\ h.child[n][i] \in M
              /\ h.parent[h.child[n][i]] = n
              /\ h.child[n][i] # n
              /\ h.child[n][Opp(i)] # h.child[n][i]
              /\ h.child[n][i] # h.parent[n]
         /\ h.parent[n] # NULL =>
              /\ h.parent[n] \in M
              /\ \E j \in Side : /\ h.child[h.parent[n]][j] = n
                                 /\ h.child[h.parent[n]][Opp(j)] # n
<1>1. n \in Nodes /\ n # NULL /\ M \in SUBSET Nodes
  BY NullNotNode DEF Tree
<1>2. \A m \in M : m \in sub[m]
  BY DEF Tree, Subtrees
<1>3. \A m \in M, i \in Side : h.child[m][i] # NULL =>
        /\ h.child[m][i] \in M
        /\ h.parent[h.child[m][i]] = m
        /\ h.child[m][i] # m
  BY <1>2, NullNotNode DEF Tree, Linked, Subtrees, Sub
<1>4. \A m \in M, i \in Side : h.child[m][i] # NULL => h.child[m][Opp(i)] # h.child[m][i]
  <2> SUFFICES ASSUME NEW m \in M, h.child[m][0] # NULL, h.child[m][1] = h.child[m][0]
               PROVE  FALSE
    BY DEF Side, Opp
  <2>1. h.child[m][0] \in Sub(sub, h.child[m][0]) \cap Sub(sub, h.child[m][1])
    BY <1>2, <1>3 DEF Sub, Side
  <2> QED BY <2>1 DEF Tree, Subtrees
<1>5. h.parent[n] # NULL =>
        /\ h.parent[n] \in M
        /\ \E j \in Side : h.child[h.parent[n]][j] = n
  BY DEF Tree, Linked
<1>6. h.parent[n] # n
  BY <1>1, <1>3, <1>5
<1>7. \A i \in Side : h.child[n][i] # NULL => h.child[n][i] # h.parent[n]
  <2> SUFFICES ASSUME NEW i \in Side, h.child[n][i] # NULL, h.child[n][i] = h.parent[n]
               PROVE  FALSE
    OBVIOUS
  <2>1. PICK j \in Side : h.child[h.parent[n]][j] = n
    BY <1>5
  <2>2. n \notin sub[h.parent[n]]
    BY <1>1, <1>5 DEF Tree, Subtrees, Sub
  <2>3. sub[n] \subseteq sub[h.parent[n]]
    BY <1>1, <1>5, <2>1 DEF Tree, Subtrees, Sub, Side
  <2> QED BY <1>2, <2>2, <2>3
<1> QED BY <1>1, <1>2, <1>3, <1>4, <1>5, <1>6, <1>7, SideFacts

\* The equations of Subtrees at a node of a tree.
LEMMA SubtreesAt ==
  ASSUME NEW h, NEW M, NEW sub, Tree(h, M, sub), NEW n \in M, NEW i \in Side
  PROVE  /\ sub[n] = {n} \cup Sub(sub, h.child[n][i]) \cup Sub(sub, h.child[n][Opp(i)])
         /\ Sub(sub, h.child[n][i]) \cap Sub(sub, h.child[n][Opp(i)]) = {}
         /\ n \notin Sub(sub, h.child[n][i])
         /\ n \notin Sub(sub, h.child[n][Opp(i)])
<1>1. CASE i = 0
  BY <1>1, SideFacts DEF Tree, Subtrees, Side, Opp
<1>2. CASE i = 1
  BY <1>2, SideFacts DEF Tree, Subtrees, Side, Opp
<1> QED BY <1>1, <1>2 DEF Side

\* The subtrees after TreeRotate(h, n, i).
RotateSub(h, n, i, sub) ==
  LET r == h.child[n][Opp(i)]
  IN  [sub EXCEPT ![r] = sub[n],
                  ![n] = {n} \cup Sub(sub, h.child[n][i]) \cup Sub(sub, h.child[r][i])]

\* rotate_id keeps a tree a tree of the same nodes; only the subtrees of the
\* two rotated nodes change.
LEMMA RotateTree ==
  ASSUME NEW h \in Heap, NEW M, NEW sub, Tree(h, M, sub),
         NEW n \in M, NEW i \in Side, h.child[n][Opp(i)] # NULL
  PROVE  /\ Rotated(TreeRotate(h, n, i), h, n, i, h.child[n][Opp(i)])
         /\ Tree(TreeRotate(h, n, i), M, RotateSub(h, n, i, sub))
<1> DEFINE r == h.child[n][Opp(i)]
           p == h.parent[n]
           x == h.child[r][i]
           y == h.child[n][i]
           z == h.child[r][Opp(i)]
           g == TreeRotate(h, n, i)
           s == RotateSub(h, n, i, sub)
<1>1. Opp(i) \in Side /\ Opp(i) # i /\ Side = {i, Opp(i)} /\ Opp(Opp(i)) = i
  BY SideFacts
<1>2. /\ n \in Nodes /\ n # NULL /\ n \in sub[n] /\ p # n
      /\ r \in M /\ h.parent[r] = n /\ r # n /\ r # p /\ y # r
      /\ y # NULL => y \in M /\ y # n /\ y # p /\ h.parent[y] = n
      /\ p # NULL => /\ p \in M
                     /\ \E j \in Side : h.child[p][j] = n /\ h.child[p][Opp(j)] # n
  BY <1>1, TreeLocal
<1>3. /\ r \in Nodes /\ r # NULL /\ r \in sub[r]
      /\ x # NULL => x \in M /\ x # r /\ x # n /\ x # z /\ h.parent[x] = r
      /\ z # NULL => z \in M /\ z # r /\ z # n /\ h.parent[z] = r
  BY <1>1, <1>2, TreeLocal
<1>4. Rotated(g, h, n, i, r)
  BY <1>2, <1>3, TreeRotateFacts
<1> HIDE DEF r, p, x, y, z, g, s
<1>5. /\ s \in [Nodes -> SUBSET Nodes]
      /\ s[r] = sub[n]
      /\ s[n] = {n} \cup Sub(sub, y) \cup Sub(sub, x)
      /\ \A k \in Nodes \ {n, r} : s[k] = sub[k]
  BY <1>1, <1>2, <1>3, SMTT(30) DEF RotateSub, s, Tree, Sub, r, x, y
<1>6. /\ g.root = IF p = NULL THEN r ELSE h.root
      /\ \A m \in Nodes :
           g.parent[m] = IF m = r THEN p ELSE IF m = n THEN r
                         ELSE IF m = x THEN n ELSE h.parent[m]
      /\ \A m \in Nodes, j \in Side :
           g.child[m][j] = IF m = r /\ j = i THEN n
                           ELSE IF m = n /\ j = Opp(i) THEN x
                           ELSE IF m = p /\ h.child[m][j] = n THEN r
                           ELSE h.child[m][j]
  BY <1>4 DEF Rotated, p, x
<1>7. M \in SUBSET Nodes /\ Linked(h, M)
  BY DEF Tree
<1>8. Linked(g, M)
  <2>1. g.root \in M \cup {NULL}
    BY <1>2, <1>6, <1>7 DEF Linked
  <2>2. ASSUME NEW m \in M
        PROVE  g.parent[m] = NULL <=> m = g.root
    <3>1. h.parent[m] = NULL <=> m = h.root
      BY <1>7 DEF Linked
    <3>2. p = NULL <=> n = h.root
      BY <1>7 DEF Linked, p
    <3>3. m \in Nodes /\ m # NULL /\ r # NULL
      BY <1>3, <1>7, NullNotNode
    <3> QED BY <1>2, <1>3, <1>6, <3>1, <3>2, <3>3
  <2>3. ASSUME NEW m \in M, g.parent[m] # NULL
        PROVE  g.parent[m] \in M /\ \E j \in Side : g.child[g.parent[m]][j] = m
    <3>1. CASE m = r
      BY <1>1, <1>2, <1>3, <1>6, <1>7, <2>3, <3>1
    <3>2. CASE m = n
      BY <1>1, <1>2, <1>3, <1>6, <1>7, <3>2
    <3>3. CASE m = x /\ m # n /\ m # r
      BY <1>1, <1>2, <1>3, <1>6, <1>7, <3>3
    <3>4. CASE m # x /\ m # n /\ m # r
      <4>1. g.parent[m] = h.parent[m] /\ h.parent[m] \in M
        BY <1>6, <1>7, <2>3, <3>4 DEF Linked
      <4>2. PICK j \in Side : h.child[h.parent[m]][j] = m
        BY <4>1, <1>7, NullNotNode DEF Linked
      <4>3. g.child[h.parent[m]][j] = m
        BY <1>1, <1>2, <1>3, <1>6, <1>7, <3>4, <4>1, <4>2 DEF r, x
      <4> QED BY <4>1, <4>3
    <3> QED BY <3>1, <3>2, <3>3, <3>4
  <2>4. ASSUME NEW m \in M, NEW j \in Side, g.child[m][j] # NULL
        PROVE  g.child[m][j] \in M /\ g.parent[g.child[m][j]] = m
    <3>1. h.child[m][j] # NULL => h.child[m][j] \in M /\ h.parent[h.child[m][j]] = m
      BY <1>7 DEF Linked
    <3>2. CASE m = r
      BY <1>1, <1>2, <1>3, <1>6, <1>7, <2>4, <3>1, <3>2 DEF z, x
    <3>3. CASE m = n
      BY <1>1, <1>2, <1>3, <1>6, <1>7, <2>4, <3>1, <3>3 DEF y
    <3>4. CASE m # n /\ m # r
      <4> DEFINE c == h.child[m][j]
      <4>1. m \in Nodes /\ g.child[m][j] = IF m = p /\ c = n THEN r ELSE c
        BY <1>6, <1>7, <3>4
      <4>2. CASE c = n
        BY <1>2, <1>3, <1>6, <2>4, <3>1, <4>1, <4>2 DEF p
      <4>3. CASE c # n
        <5>1. c \in M /\ h.parent[c] = m /\ g.child[m][j] = c
          BY <2>4, <3>1, <4>1, <4>3
        <5>2. c # r /\ c # x
          BY <1>2, <1>3, <2>4, <3>4, <5>1
        <5> QED BY <1>6, <1>7, <4>3, <5>1, <5>2
      <4> QED BY <4>2, <4>3
    <3> QED BY <3>2, <3>3, <3>4
  <2> QED BY <2>1, <2>2, <2>3, <2>4 DEF Linked
<1>9. /\ sub[n] = {n} \cup Sub(sub, y) \cup sub[r]
      /\ Sub(sub, y) \cap sub[r] = {}
      /\ n \notin Sub(sub, y) /\ n \notin sub[r]
  BY <1>1, <1>3, SubtreesAt DEF r, y, Sub
<1>10. /\ sub[r] = {r} \cup Sub(sub, x) \cup Sub(sub, z)
       /\ Sub(sub, x) \cap Sub(sub, z) = {}
       /\ r \notin Sub(sub, x) /\ r \notin Sub(sub, z)
  BY <1>1, <1>2, SubtreesAt DEF x, z
<1>11. \A k \in NodeOrNull \ {n, r} : Sub(s, k) = Sub(sub, k)
  BY <1>5 DEF Sub, NodeOrNull
<1>12. M = Sub(s, g.root)
  BY <1>2, <1>3, <1>5, <1>6, <1>7 DEF Tree, Subtrees, Linked, Sub, p
<1>13. ASSUME NEW k \in M
       PROVE  \E j \in Side :
                /\ s[k] = {k} \cup Sub(s, g.child[k][j]) \cup Sub(s, g.child[k][Opp(j)])
                /\ Sub(s, g.child[k][j]) \cap Sub(s, g.child[k][Opp(j)]) = {}
                /\ k \notin Sub(s, g.child[k][j])
                /\ k \notin Sub(s, g.child[k][Opp(j)])
  <2>1. CASE k = n
    <3>1. g.child[n][i] = y /\ g.child[n][Opp(i)] = x
      BY <1>1, <1>2, <1>6 DEF y
    <3>2. Sub(s, y) = Sub(sub, y) /\ Sub(s, x) = Sub(sub, x)
      BY <1>2, <1>3, <1>5, <1>7, NullNotNode DEF Sub
    <3> QED BY <1>5, <1>9, <1>10, <2>1, <3>1, <3>2
  <2>2. CASE k = r
    <3>1. g.child[r][i] = n /\ g.child[r][Opp(i)] = z
      BY <1>1, <1>2, <1>3, <1>6 DEF z
    <3>2. Sub(s, z) = Sub(sub, z) /\ Sub(s, n) = s[n]
      BY <1>2, <1>3, <1>5, <1>7, NullNotNode DEF Sub
    <3> QED BY <1>5, <1>9, <1>10, <2>2, <3>1, <3>2
  <2>3. CASE k = p
    <3>1. PICK j \in Side : h.child[p][j] = n /\ h.child[p][Opp(j)] # n
      BY <1>2, <1>7, <2>3, NullNotNode
    <3> DEFINE c == h.child[p][Opp(j)]
    <3>2. Opp(j) \in Side /\ Opp(j) # j
      BY SideFacts
    <3>3. c # r
      BY <1>2, <1>3, <2>3, <3>2, TreeLocal
    <3>4. c \in NodeOrNull
      BY <1>7, <2>3, <3>2, HeapFacts
    <3>5. g.child[p][j] = r /\ g.child[p][Opp(j)] = c
      BY <1>2, <1>6, <1>7, <2>3, <3>1, <3>2
    <3>6. Sub(s, r) = Sub(sub, n) /\ Sub(s, c) = Sub(sub, c) /\ s[p] = sub[p]
      BY <1>2, <1>3, <1>5, <1>7, <1>11, <2>3, <3>1, <3>3, <3>4 DEF Sub
    <3> QED BY <2>3, <3>1, <3>5, <3>6, SubtreesAt
  <2>4. CASE k # n /\ k # r /\ k # p
    <3>1. ASSUME NEW j \in Side
          PROVE  /\ h.child[k][j] \in NodeOrNull \ {n, r}
                 /\ g.child[k][j] = h.child[k][j]
      <4>1. h.child[k][j] \in NodeOrNull /\ k \in Nodes
        BY <1>7, HeapFacts
      <4>2. h.child[k][j] # n /\ h.child[k][j] # r
        BY <1>2, <1>3, <2>4, TreeLocal DEF p
      <4> QED BY <1>6, <2>4, <4>1, <4>2
    <3>2. ASSUME NEW j \in Side
          PROVE  Sub(s, g.child[k][j]) = Sub(sub, h.child[k][j])
      BY <1>11, <3>1
    <3>3. s[k] = sub[k]
      BY <1>5, <1>7, <2>4
    <3> QED BY <1>1, <3>2, <3>3, SubtreesAt
  <2> QED BY <2>1, <2>2, <2>3, <2>4
<1>14. ASSUME NEW k \in M
       PROVE  /\ s[k] \subseteq M
              /\ s[k] = {k} \cup Sub(s, g.child[k][0]) \cup Sub(s, g.child[k][1])
              /\ Sub(s, g.child[k][0]) \cap Sub(s, g.child[k][1]) = {}
              /\ \A j \in Side : k \notin Sub(s, g.child[k][j])
  <2>1. \A q \in M : sub[q] \subseteq M
    BY DEF Tree, Subtrees
  <2>2. s[k] \subseteq M
    BY <1>2, <1>3, <1>5, <1>7, <2>1 DEF Sub
  <2> QED BY <1>13, <2>2 DEF Side, Opp
<1>15. ASSUME NEW m \in M, NEW k \in M
       PROVE  m \in s[k] <=> m = k \/ (g.parent[m] # NULL /\ g.parent[m] \in s[k])
  <2> DEFINE above(l, q) == l \in sub[q] <=> l = q \/ (h.parent[l] # NULL /\ h.parent[l] \in sub[q])
  <2>1. \A l, q \in M : above(l, q)
    BY DEF Tree, Subtrees
  <2>2. /\ m \in Nodes /\ k \in Nodes /\ n \in M
        /\ k # n /\ k # r => s[k] = sub[k]
        /\ \A l \in M : l \in sub[l]
    BY <1>5, <1>7, TreeLocal
  <2>3. CASE m = r
    <3>1. g.parent[m] = p
      BY <1>6, <2>2, <2>3
    <3>2. p # NULL => p \notin sub[n]
      BY <1>2, <1>7, NullNotNode DEF Tree, Subtrees, Sub
    <3>3. k \in M /\ k # r => (r \in sub[k] <=> p # NULL /\ p \in sub[k]) \/ k = n
      BY <1>2, <2>1 DEF p
    <3> QED BY <1>2, <1>3, <1>5, <1>9, <1>10, <2>2, <2>3, <3>1, <3>2, <3>3
  <2>4. CASE m = n
    <3>1. g.parent[m] = r /\ r # NULL
      BY <1>2, <1>3, <1>6, <2>2, <2>4
    <3>2. r \in sub[k] <=> r = k \/ n \in sub[k]
      BY <1>2, <2>1
    <3> QED BY <1>2, <1>3, <1>5, <1>9, <2>2, <2>4, <3>1, <3>2
  <2>5. CASE m = x /\ m # n /\ m # r
    <3>1. g.parent[m] = n /\ h.parent[m] = r
      BY <1>2, <1>3, <1>6, <2>2, <2>5, NullNotNode
    <3>2. /\ m \in sub[k] <=> m = k \/ r \in sub[k]
          /\ r \in sub[k] <=> r = k \/ n \in sub[k]
      BY <1>2, <1>3, <2>1, <3>1
    <3>3. m \in Sub(sub, x)
      BY <2>2, <2>5, NullNotNode DEF Sub
    <3> QED BY <1>2, <1>5, <1>9, <1>10, <2>2, <2>5, <3>1, <3>2, <3>3
  <2>6. CASE m # x /\ m # n /\ m # r
    <3>1. g.parent[m] = h.parent[m]
      BY <1>6, <2>2, <2>6
    <3>2. CASE k # n
      BY <1>5, <2>1, <2>2, <2>6, <3>1, <3>2
    <3>3. CASE k = n
      <4>1. h.parent[m] # NULL => h.parent[m] \in M
        BY <1>7 DEF Linked
      <4>2. h.parent[m] = n <=> m = y
        BY <1>1, <1>2, <1>7, <2>2, <2>6, NullNotNode DEF Linked, r, y
      <4>3. m \in Sub(sub, y) <=> m = y \/ (h.parent[m] # NULL /\ h.parent[m] \in Sub(sub, y))
        BY <1>2, <2>1, <2>2, <4>2, NullNotNode DEF Sub
      <4>4. m \in Sub(sub, x) <=> h.parent[m] # NULL /\ h.parent[m] \in Sub(sub, x)
        BY <1>3, <2>1, <2>2, <2>6, NullNotNode DEF Sub
      <4> QED BY <1>2, <1>5, <2>6, <3>1, <3>3, <4>1, <4>2, <4>3, <4>4, NullNotNode, <1>7
    <3> QED BY <3>2, <3>3
  <2> QED BY <2>3, <2>4, <2>5, <2>6
<1>16. Tree(g, M, s)
  BY <1>5, <1>7, <1>8, <1>12, <1>14, <1>15 DEF Tree, Subtrees
<1> QED BY <1>4, <1>16 DEF g, s, r
-----------------------------------------------------------------------------
\* The links after a new leaf `ins' is hung under a node.
Grafted(g, h, leaf, i, ins) ==
  /\ g \in Heap
  /\ g.root = h.root
  /\ \A m \in Nodes : g.parent[m] = IF m = ins THEN leaf ELSE h.parent[m]
  /\ \A m \in Nodes, j \in Side :
       g.child[m][j] = IF m = ins THEN NULL
                       ELSE IF m = leaf /\ j = i THEN ins ELSE h.child[m][j]

GraftSub(sub, leaf, ins) ==
  [n \in Nodes |-> IF n = ins THEN {ins}
                   ELSE IF leaf \in sub[n] THEN sub[n] \cup {ins} ELSE sub[n]]

\* Linking a new leaf below a null child of a tree gives a tree.
LEMMA GraftTree ==
  ASSUME NEW h \in Heap, NEW M, NEW sub, Tree(h, M, sub), NEW leaf \in M, NEW i \in Side,
         h.child[leaf][i] = NULL, NEW ins \in Nodes \ M, NEW g, Grafted(g, h, leaf, i, ins)
  PROVE  Tree(g, M \cup {ins}, GraftSub(sub, leaf, ins))
<1> DEFINE s == GraftSub(sub, leaf, ins)
<1>1. /\ M \in SUBSET Nodes /\ Linked(h, M)
      /\ leaf # NULL /\ ins # NULL /\ leaf # ins
      /\ \A k \in M : k \in sub[k] /\ sub[k] \subseteq M
  BY TreeLocal, NullNotNode DEF Tree, Subtrees
<1>2. \A m, k \in M :
        m \in sub[k] <=> m = k \/ (h.parent[m] # NULL /\ h.parent[m] \in sub[k])
  BY DEF Tree, Subtrees
<1>3. /\ s \in [Nodes -> SUBSET Nodes]
      /\ s[ins] = {ins}
      /\ \A k \in M : s[k] = IF leaf \in sub[k] THEN sub[k] \cup {ins} ELSE sub[k]
  BY <1>1 DEF GraftSub, Tree
<1> HIDE DEF s
<1>4. \A k \in M, j \in Side :
        h.child[k][j] # NULL => h.child[k][j] \in M /\ h.parent[h.child[k][j]] = k
  BY <1>1 DEF Linked
<1>5. /\ g.root = h.root
      /\ g.parent[ins] = leaf /\ \A m \in M : g.parent[m] = h.parent[m]
      /\ \A j \in Side : g.child[ins][j] = NULL
      /\ g.child[leaf][i] = ins
      /\ \A m \in M, j \in Side : m # leaf \/ j # i => g.child[m][j] = h.child[m][j]
  BY <1>1 DEF Grafted
<1>6. Linked(g, M \cup {ins})
  <2>1. ASSUME NEW m \in M, h.parent[m] # NULL
        PROVE  \E j \in Side : g.child[h.parent[m]][j] = m
    <3>1. PICK j \in Side : h.parent[m] \in M /\ h.child[h.parent[m]][j] = m
      BY <1>1, <2>1 DEF Linked
    <3>2. m # NULL
      BY <1>1, NullNotNode
    <3> QED BY <1>5, <3>1, <3>2
  <2>2. g.root \in M
    BY <1>1, <1>5 DEF Linked, Tree, Subtrees, Sub
  <2> QED BY <1>1, <1>4, <1>5, <2>1, <2>2 DEF Linked
<1>7. ASSUME NEW k \in M
      PROVE  \E j \in Side :
               /\ s[k] = {k} \cup Sub(s, g.child[k][j]) \cup Sub(s, g.child[k][Opp(j)])
               /\ Sub(s, g.child[k][j]) \cap Sub(s, g.child[k][Opp(j)]) = {}
               /\ k \notin Sub(s, g.child[k][j])
               /\ k \notin Sub(s, g.child[k][Opp(j)])
  <2>1. ASSUME NEW j \in Side
        PROVE  Sub(s, h.child[k][j]) = IF leaf \in Sub(sub, h.child[k][j])
                                       THEN Sub(sub, h.child[k][j]) \cup {ins}
                                       ELSE Sub(sub, h.child[k][j])
    BY <1>3, <1>4 DEF Sub
  <2>2. /\ sub[k] \subseteq M
        /\ sub[k] = {k} \cup Sub(sub, h.child[k][i]) \cup Sub(sub, h.child[k][Opp(i)])
        /\ Sub(sub, h.child[k][i]) \cap Sub(sub, h.child[k][Opp(i)]) = {}
        /\ k \notin Sub(sub, h.child[k][i])
        /\ k \notin Sub(sub, h.child[k][Opp(i)])
    BY <1>1, SubtreesAt
  <2>3. Opp(i) \in Side /\ Opp(i) # i
    BY SideFacts
  <2>4. CASE k = leaf
    <3>1. g.child[k][i] = ins /\ g.child[k][Opp(i)] = h.child[k][Opp(i)]
      BY <1>5, <2>3, <2>4
    <3>2. /\ Sub(sub, h.child[k][i]) = {}
          /\ Sub(s, g.child[k][i]) = {ins}
          /\ Sub(s, g.child[k][Opp(i)]) = Sub(sub, h.child[k][Opp(i)])
          /\ s[k] = sub[k] \cup {ins}
      BY <1>1, <1>3, <2>1, <2>2, <2>3, <2>4, <3>1 DEF Sub
    <3> QED BY <2>2, <2>4, <3>2
  <2>5. CASE k # leaf
    <3>1. \A j \in Side : g.child[k][j] = h.child[k][j]
      BY <1>5, <2>5
    <3> DEFINE A == Sub(sub, h.child[k][i])
               B == Sub(sub, h.child[k][Opp(i)])
    <3>2. /\ Sub(s, g.child[k][i]) = IF leaf \in A THEN A \cup {ins} ELSE A
          /\ Sub(s, g.child[k][Opp(i)]) = IF leaf \in B THEN B \cup {ins} ELSE B
      BY <2>1, <2>3, <3>1
    <3>3. ins \notin A /\ ins \notin B /\ k # ins
      BY <2>2
    <3>4. s[k] = IF leaf \in A \/ leaf \in B THEN sub[k] \cup {ins} ELSE sub[k]
      BY <1>3, <2>2, <2>5
    <3> HIDE DEF A, B
    <3>5. /\ sub[k] = {k} \cup A \cup B /\ A \cap B = {} /\ k \notin A /\ k \notin B
      BY <2>2 DEF A, B
    <3>6. CASE leaf \in A
      BY <3>2, <3>3, <3>4, <3>5, <3>6
    <3>7. CASE leaf \in B
      BY <3>2, <3>3, <3>4, <3>5, <3>7
    <3>8. CASE leaf \notin A /\ leaf \notin B
      BY <3>2, <3>3, <3>4, <3>5, <3>8
    <3> QED BY <3>6, <3>7, <3>8
  <2> QED BY <2>4, <2>5
<1>8. ASSUME NEW k \in M
      PROVE  /\ s[k] \subseteq M \cup {ins}
             /\ s[k] = {k} \cup Sub(s, g.child[k][0]) \cup Sub(s, g.child[k][1])
             /\ Sub(s, g.child[k][0]) \cap Sub(s, g.child[k][1]) = {}
             /\ \A j \in Side : k \notin Sub(s, g.child[k][j])
  <2>1. s[k] \subseteq M \cup {ins}
    BY <1>1, <1>3
  <2> QED BY <1>7, <2>1 DEF Side, Opp
<1>9. ASSUME NEW m \in M \cup {ins}, NEW k \in M \cup {ins}
      PROVE  m \in s[k] <=> m = k \/ (g.parent[m] # NULL /\ g.parent[m] \in s[k])
  <2>1. m \in M => h.parent[m] = NULL \/ h.parent[m] \in M
    BY <1>1 DEF Linked
  <2>2. CASE k = ins
    BY <1>1, <1>3, <1>5, <2>1, <2>2
  <2>3. CASE k # ins /\ m = ins
    BY <1>1, <1>3, <1>5, <2>3
  <2>4. CASE k # ins /\ m # ins
    <3>1. \A q \in M : q \in s[k] <=> q \in sub[k]
      BY <1>3, <2>4
    <3> QED BY <1>2, <1>5, <2>1, <2>4, <3>1
  <2> QED BY <2>2, <2>3, <2>4
<1>10. M \cup {ins} = Sub(s, g.root)
  <2>1. M = Sub(sub, h.root)
    BY DEF Tree, Subtrees
  <2>2. h.root \in M /\ h.root # NULL /\ M = sub[h.root]
    BY <1>1, <2>1 DEF Linked, Sub
  <2> QED BY <1>3, <1>5, <2>2 DEF Sub
<1>11. Subtrees(g, M \cup {ins}, s)
  <2>1. /\ s[ins] = {ins} \cup Sub(s, g.child[ins][0]) \cup Sub(s, g.child[ins][1])
        /\ Sub(s, g.child[ins][0]) \cap Sub(s, g.child[ins][1]) = {}
        /\ \A j \in Side : ins \notin Sub(s, g.child[ins][j])
    BY <1>3, <1>5 DEF Sub, Side
  <2> QED BY <1>3, <1>8, <1>9, <1>10, <2>1 DEF Subtrees
<1> QED BY <1>1, <1>3, <1>6, <1>11 DEF Tree, s

\* The links after node n, which has no child but perhaps c, is taken out.
Pruned(g, h, n, c) ==
  /\ g \in Heap
  /\ g.root = IF h.parent[n] = NULL THEN c ELSE h.root
  /\ \A m \in Nodes : m # n =>
       g.parent[m] = IF m = c THEN h.parent[n] ELSE h.parent[m]
  /\ \A m \in Nodes, j \in Side : m # n =>
       g.child[m][j] = IF m = h.parent[n] /\ h.child[m][j] = n THEN c
                       ELSE h.child[m][j]

PruneSub(sub, n) == [k \in Nodes |-> sub[k] \ {n}]

\* Linking the only child of a node, or nothing, in its place gives a tree of
\* the other nodes.
LEMMA PruneTree ==
  ASSUME NEW h \in Heap, NEW M, NEW sub, Tree(h, M, sub), NEW n \in M, NEW i \in Side,
         h.child[n][Opp(i)] = NULL, NEW g, Pruned(g, h, n, h.child[n][i])
  PROVE  Tree(g, M \ {n}, PruneSub(sub, n))
<1> DEFINE c == h.child[n][i]
           p == h.parent[n]
           s == PruneSub(sub, n)
<1>1. M \in SUBSET Nodes /\ n \in Nodes /\ n # NULL /\ Linked(h, M)
  BY NullNotNode DEF Tree
<1>2. /\ p # n /\ c # n
      /\ c # NULL => c \in M /\ h.parent[c] = n /\ c # p
      /\ p # NULL => p \in M /\ \E j \in Side : h.child[p][j] = n /\ h.child[p][Opp(j)] # n
  BY <1>1, TreeLocal
<1>3. sub[n] = {n} \cup Sub(sub, c) /\ n \notin Sub(sub, c)
  BY SubtreesAt DEF Sub
<1> HIDE DEF c, p, s
<1>4. /\ g.root = IF p = NULL THEN c ELSE h.root
      /\ \A m \in M \ {n} : g.parent[m] = IF m = c THEN p ELSE h.parent[m]
      /\ \A m \in M \ {n}, j \in Side :
           g.child[m][j] = IF m = p /\ h.child[m][j] = n THEN c ELSE h.child[m][j]
  BY <1>1 DEF Pruned, c, p
<1>5. /\ \A m \in M : /\ h.parent[m] = NULL <=> m = h.root
                      /\ h.parent[m] # NULL => h.parent[m] \in M
      /\ \A m \in M, j \in Side : h.child[m][j] # NULL =>
           h.child[m][j] \in M /\ h.parent[h.child[m][j]] = m
      /\ h.root \in M
  BY <1>1 DEF Linked, Tree, Subtrees, Sub
<1>6. Linked(g, M \ {n})
  <2>1. ASSUME NEW m \in M \ {n}, g.parent[m] # NULL
        PROVE  g.parent[m] \in M \ {n} /\ \E j \in Side : g.child[g.parent[m]][j] = m
    <3>1. CASE m = c
      <4>1. p # NULL /\ g.parent[m] = p
        BY <1>4, <2>1, <3>1
      <4>2. PICK j \in Side : h.child[p][j] = n
        BY <1>2, <4>1
      <4> QED BY <1>2, <1>4, <3>1, <4>1, <4>2
    <3>2. CASE m # c
      <4>1. g.parent[m] = h.parent[m] /\ h.parent[m] \in M
        BY <1>4, <1>5, <2>1, <3>2
      <4>2. PICK j \in Side : h.child[h.parent[m]][j] = m
        BY <1>1, <2>1, <4>1 DEF Linked
      <4>3. h.parent[m] # n
        <5> SUFFICES ASSUME h.parent[m] = n PROVE FALSE
          OBVIOUS
        <5>1. h.child[n][i] = m \/ h.child[n][Opp(i)] = m
          BY <4>2, SideFacts
        <5> QED BY <1>1, <3>2, <5>1, NullNotNode DEF c
      <4> QED BY <1>4, <4>1, <4>2, <4>3
    <3> QED BY <3>1, <3>2
  <2>2. ASSUME NEW m \in M \ {n}, NEW j \in Side, g.child[m][j] # NULL
        PROVE  g.child[m][j] \in M \ {n} /\ g.parent[g.child[m][j]] = m
    <3>1. CASE m = p /\ h.child[m][j] = n
      BY <1>2, <1>4, <2>2, <3>1
    <3>2. CASE ~ (m = p /\ h.child[m][j] = n)
      <4>1. g.child[m][j] = h.child[m][j] /\ h.child[m][j] # n
        BY <1>4, <1>5, <2>2, <3>2 DEF p
      <4> QED BY <1>2, <1>4, <1>5, <2>2, <4>1
    <3> QED BY <3>1, <3>2
  <2>3. ASSUME NEW m \in M \ {n}
        PROVE  g.parent[m] = NULL <=> m = g.root
    <3>1. p = NULL <=> n = h.root
      BY <1>5 DEF p
    <3> QED BY <1>1, <1>2, <1>4, <1>5, <3>1, NullNotNode
  <2>4. g.root \in (M \ {n}) \cup {NULL}
    BY <1>2, <1>4, <1>5 DEF p
  <2> QED BY <2>1, <2>2, <2>3, <2>4 DEF Linked
<1>7. /\ s \in [Nodes -> SUBSET Nodes]
      /\ \A k \in M : s[k] = sub[k] \ {n}
      /\ \A k \in M \cup {NULL} : Sub(s, k) = Sub(sub, k) \ {n}
  BY <1>1 DEF s, PruneSub, Tree, Sub
<1>8. ASSUME NEW k \in M \ {n}
      PROVE  \E j \in Side :
               /\ s[k] = {k} \cup Sub(s, g.child[k][j]) \cup Sub(s, g.child[k][Opp(j)])
               /\ Sub(s, g.child[k][j]) \cap Sub(s, g.child[k][Opp(j)]) = {}
               /\ k \notin Sub(s, g.child[k][j])
               /\ k \notin Sub(s, g.child[k][Opp(j)])
  <2>1. CASE k = p
    <3>1. PICK j \in Side : h.child[p][j] = n /\ h.child[p][Opp(j)] # n
      BY <1>1, <1>2, <2>1, NullNotNode
    <3>2. Opp(j) \in Side
      BY SideFacts
    <3> DEFINE o == h.child[p][Opp(j)]
    <3>3. g.child[p][j] = c /\ g.child[p][Opp(j)] = o
      BY <1>4, <2>1, <3>1, <3>2
    <3>4. Sub(s, o) = Sub(sub, o) \ {n} /\ Sub(s, c) = sub[n] \ {n}
      BY <1>2, <1>3, <1>5, <1>7, <2>1, <3>2
    <3>5. /\ sub[k] = {k} \cup sub[n] \cup Sub(sub, o)
          /\ sub[n] \cap Sub(sub, o) = {}
          /\ k \notin sub[n] /\ k \notin Sub(sub, o)
      BY <1>1, <2>1, <3>1, SubtreesAt DEF Sub
    <3> QED BY <1>7, <2>1, <3>3, <3>4, <3>5
  <2>2. CASE k # p
    <3>1. \A j \in Side : g.child[k][j] = h.child[k][j]
      BY <1>4, <2>2
    <3>2. \A j \in Side : Sub(s, g.child[k][j]) = Sub(sub, h.child[k][j]) \ {n}
      BY <1>5, <1>7, <3>1
    <3>3. Opp(i) \in Side
      BY SideFacts
    <3> QED BY <1>7, <3>2, <3>3, SubtreesAt
  <2> QED BY <2>1, <2>2
<1>9. ASSUME NEW m \in M \ {n}, NEW k \in M \ {n}
      PROVE  m \in s[k] <=> m = k \/ (g.parent[m] # NULL /\ g.parent[m] \in s[k])
  <2>1. /\ m \in sub[k] <=> m = k \/ (h.parent[m] # NULL /\ h.parent[m] \in sub[k])
        /\ n \in sub[k] <=> n = k \/ (p # NULL /\ p \in sub[k])
    BY DEF Tree, Subtrees, p
  <2>2. m \in s[k] <=> m \in sub[k]
    BY <1>7
  <2>3. CASE m = c
    BY <1>1, <1>2, <1>4, <1>7, <2>1, <2>2, <2>3, NullNotNode
  <2>4. CASE m # c
    <3>1. g.parent[m] = h.parent[m]
      BY <1>4, <2>4
    <3>2. h.parent[m] # n
      <4> SUFFICES ASSUME h.parent[m] = n PROVE FALSE
        OBVIOUS
      <4>1. PICK j \in Side : h.child[n][j] = m
        BY <1>1 DEF Linked
      <4>2. h.child[n][i] = m \/ h.child[n][Opp(i)] = m
        BY <4>1, SideFacts
      <4> QED BY <1>1, <2>4, <4>2, NullNotNode DEF c
    <3> QED BY <1>7, <2>1, <2>2, <3>1, <3>2
  <2> QED BY <2>3, <2>4
<1>10. M \ {n} = Sub(s, g.root)
  <2>1. M = Sub(sub, h.root)
    BY DEF Tree, Subtrees
  <2>2. CASE p = NULL
    <3>1. h.root = n
      BY <1>5, <2>2 DEF p
    <3> QED BY <1>1, <1>2, <1>3, <1>4, <1>7, <2>1, <2>2, <3>1 DEF Sub
  <2>3. CASE p # NULL
    BY <1>4, <1>5, <1>7, <2>1, <2>3
  <2> QED BY <2>2, <2>3
<1>11. Subtrees(g, M \ {n}, s)
  <2>1. ASSUME NEW k \in M \ {n}
        PROVE  /\ s[k] \subseteq M \ {n}
               /\ s[k] = {k} \cup Sub(s, g.child[k][0]) \cup Sub(s, g.child[k][1])
               /\ Sub(s, g.child[k][0]) \cap Sub(s, g.child[k][1]) = {}
               /\ \A j \in Side : k \notin Sub(s, g.child[k][j])
    <3>1. sub[k] \subseteq M
      BY DEF Tree, Subtrees
    <3> QED BY <1>7, <1>8, <3>1 DEF Side, Opp
  <2> QED BY <1>9, <1>10, <2>1 DEF Subtrees
<1> QED BY <1>1, <1>6, <1>7, <1>11 DEF Tree, s

-----------------------------------------------------------------------------
\* The links after two nodes have exchanged their places.
Exchange(a, b, x) == IF x = a THEN b ELSE IF x = b THEN a ELSE x

Exchanged(g, h, M, a, b) ==
  /\ g \in Heap
  /\ g.root = Exchange(a, b, h.root)
  /\ \A m \in M :
       /\ g.parent[m] = Exchange(a, b, h.parent[Exchange(a, b, m)])
       /\ \A j \in Side :
            g.child[m][j] = Exchange(a, b, h.child[Exchange(a, b, m)][j])

ExchangeSub(sub, a, b) ==
  [m \in Nodes |-> { x \in Nodes : Exchange(a, b, x) \in sub[Exchange(a, b, m)] }]

\* A heap in which two nodes have exchanged their places is a tree again, with
\* the two exchanged in every subtree.
LEMMA ExchangeTree ==
  ASSUME NEW h \in Heap, NEW M, NEW sub, Tree(h, M, sub),
         NEW a \in M, NEW b \in M, NEW g, Exchanged(g, h, M, a, b)
  PROVE  Tree(g, M, ExchangeSub(sub, a, b))
<1> DEFINE e(x) == Exchange(a, b, x)
           s == ExchangeSub(sub, a, b)
<1>1. /\ M \in SUBSET Nodes /\ a # NULL /\ b # NULL
      /\ \A x : e(e(x)) = x
      /\ \A x : e(x) \in M <=> x \in M
      /\ \A x : e(x) \in Nodes <=> x \in Nodes
      /\ \A x : e(x) = NULL <=> x = NULL
  BY NullNotNode DEF Tree, Exchange
<1> HIDE DEF e
<1>2. /\ g.root = e(h.root)
      /\ \A m \in M : g.parent[m] = e(h.parent[e(m)])
      /\ \A m \in M, j \in Side : g.child[m][j] = e(h.child[e(m)][j])
  BY DEF Exchanged, e
<1>3. /\ s \in [Nodes -> SUBSET Nodes]
      /\ \A m \in M : s[m] = { x \in Nodes : e(x) \in sub[e(m)] }
  BY <1>1 DEF ExchangeSub, s, e
<1> HIDE DEF s
<1>4. \A x, m \in M : x \in s[m] <=> e(x) \in sub[e(m)]
  BY <1>1, <1>3
<1>5. Linked(g, M)
  <2>1. g.root \in M \cup {NULL}
    BY <1>1, <1>2 DEF Tree, Linked
  <2>2. ASSUME NEW m \in M
        PROVE  /\ g.parent[m] = NULL <=> m = g.root
               /\ g.parent[m] # NULL =>
                    g.parent[m] \in M /\ \E i \in Side : g.child[g.parent[m]][i] = m
               /\ \A i \in Side : g.child[m][i] # NULL =>
                    g.child[m][i] \in M /\ g.parent[g.child[m][i]] = m
    <3>1. e(m) \in M
      BY <1>1
    <3>2. /\ h.parent[e(m)] = NULL <=> e(m) = h.root
          /\ h.parent[e(m)] # NULL =>
               h.parent[e(m)] \in M /\ \E i \in Side : h.child[h.parent[e(m)]][i] = e(m)
          /\ \A i \in Side : h.child[e(m)][i] # NULL =>
               h.child[e(m)][i] \in M /\ h.parent[h.child[e(m)][i]] = e(m)
      BY <3>1 DEF Tree, Linked
    <3>3. g.parent[m] = NULL <=> m = g.root
      BY <1>1, <1>2, <3>2
    <3>4. g.parent[m] # NULL =>
            g.parent[m] \in M /\ \E i \in Side : g.child[g.parent[m]][i] = m
      BY <1>1, <1>2, <3>2
    <3>5. \A i \in Side : g.child[m][i] # NULL =>
            g.child[m][i] \in M /\ g.parent[g.child[m][i]] = m
      BY <1>1, <1>2, <3>2
    <3> QED BY <3>3, <3>4, <3>5
  <2> QED BY <2>1, <2>2 DEF Linked
<1>6. ASSUME NEW x \in M, NEW m \in M \cup {NULL}
      PROVE  x \in Sub(s, m) <=> e(x) \in Sub(sub, e(m))
  BY <1>1, <1>4, NullNotNode DEF Sub
<1>7. \A m \in M \cup {NULL} : Sub(s, m) \subseteq M
  <2>1. \A m \in M : sub[m] \subseteq M
    BY DEF Tree, Subtrees
  <2> QED BY <1>1, <1>3, <2>1 DEF Sub
<1>8. ASSUME NEW m \in M
      PROVE  /\ s[m] \subseteq M
             /\ s[m] = {m} \cup Sub(s, g.child[m][0]) \cup Sub(s, g.child[m][1])
             /\ Sub(s, g.child[m][0]) \cap Sub(s, g.child[m][1]) = {}
             /\ \A i \in Side : m \notin Sub(s, g.child[m][i])
  <2>1. e(m) \in M /\ Sub(s, m) = s[m]
    BY <1>1, NullNotNode DEF Sub
  <2>2. /\ sub[e(m)] = {e(m)} \cup Sub(sub, h.child[e(m)][0]) \cup Sub(sub, h.child[e(m)][1])
        /\ Sub(sub, h.child[e(m)][0]) \cap Sub(sub, h.child[e(m)][1]) = {}
        /\ \A i \in Side : e(m) \notin Sub(sub, h.child[e(m)][i])
    BY <2>1 DEF Tree, Subtrees
  <2>3. \A i \in Side : g.child[m][i] \in M \cup {NULL}
    BY <1>5 DEF Linked
  <2>4. \A i \in Side : e(g.child[m][i]) = h.child[e(m)][i]
    BY <1>1, <1>2
  <2>5. \A x \in M, i \in Side :
          x \in Sub(s, g.child[m][i]) <=> e(x) \in Sub(sub, h.child[e(m)][i])
    BY <1>6, <2>3, <2>4
  <2>6. 0 \in Side /\ 1 \in Side
    BY DEF Side
  <2>7. \A x \in M : e(x) = e(m) <=> x = m
    BY <1>1
  <2>8. \A x \in M : x \in s[m] <=>
          x \in {m} \cup Sub(s, g.child[m][0]) \cup Sub(s, g.child[m][1])
    BY <1>4, <2>2, <2>5, <2>6, <2>7
  <2>9. s[m] = {m} \cup Sub(s, g.child[m][0]) \cup Sub(s, g.child[m][1])
    BY <1>7, <2>1, <2>3, <2>6, <2>8
  <2>10. Sub(s, g.child[m][0]) \cap Sub(s, g.child[m][1]) = {}
    BY <1>7, <2>2, <2>3, <2>5, <2>6
  <2> QED BY <1>7, <2>1, <2>2, <2>5, <2>9, <2>10
<1>9. ASSUME NEW x \in M, NEW m \in M
      PROVE  x \in s[m] <=> x = m \/ (g.parent[x] # NULL /\ g.parent[x] \in s[m])
  <2>1. e(x) \in sub[e(m)] <=>
          e(x) = e(m) \/ (h.parent[e(x)] # NULL /\ h.parent[e(x)] \in sub[e(m)])
    BY <1>1 DEF Tree, Subtrees
  <2>2. /\ g.parent[x] = NULL \/ g.parent[x] \in M
        /\ e(g.parent[x]) = h.parent[e(x)]
    BY <1>1, <1>2, <1>5 DEF Linked
  <2> QED BY <1>1, <1>4, <2>1, <2>2
<1>10. M = Sub(s, g.root)
  <2>1. M = Sub(sub, h.root) /\ e(g.root) = h.root /\ g.root \in M \cup {NULL}
    BY <1>1, <1>2, <1>5 DEF Tree, Subtrees, Linked
  <2> QED BY <1>1, <1>6, <1>7, <2>1
<1> QED BY <1>1, <1>3, <1>5, <1>8, <1>9, <1>10 DEF Tree, Subtrees, s

(***************************************************************************)
(* Part 2: heaps                                                           *)
(***************************************************************************)

\* One round of the loop of swap_node, field by field.
LEMMA SwapChildrenFacts ==
  ASSUME NEW h \in Heap, NEW a \in Nodes, NEW b \in Nodes, a # b, NEW i \in Side
  PROVE  LET g == SwapChildren(h, a, b, i)
         IN  /\ g \in Heap
             /\ g.root = h.root /\ g.size = h.size /\ g.red = h.red
             /\ \A m \in Nodes :
                  g.parent[m] = IF m = h.child[a][i] THEN b
                                ELSE IF m = h.child[b][i] THEN a ELSE h.parent[m]
             /\ \A m \in Nodes, j \in Side :
                  g.child[m][j] = IF j = i /\ m = a THEN h.child[b][i]
                                  ELSE IF j = i /\ m = b THEN h.child[a][i]
                                  ELSE h.child[m][j]
<1> DEFINE ca == h.child[a][i]
           cb == h.child[b][i]
           f == ConnectChildAuto(h, a, cb, i)
           g == ConnectChildAuto(f, b, ca, i)
<1>1. ca \in NodeOrNull /\ cb \in NodeOrNull
  BY HeapFacts
<1>2. g = SwapChildren(h, a, b, i)
  BY DEF SwapChildren
<1> HIDE DEF ca, cb, f, g
<1>3. f \in Heap /\ f.root = h.root /\ f.size = h.size /\ f.red = h.red
  BY <1>1, ConnectChildAutoFacts DEF f
<1>4. /\ \A m \in Nodes : f.parent[m] = IF m = cb THEN a ELSE h.parent[m]
      /\ \A m \in Nodes, j \in Side :
           f.child[m][j] = IF m = a /\ j = i THEN cb ELSE h.child[m][j]
  BY <1>1, ConnectChildAutoFacts DEF f
<1>5. g \in Heap /\ g.root = f.root /\ g.size = f.size /\ g.red = f.red
  BY <1>1, <1>3, ConnectChildAutoFacts DEF g
<1>6. \A m \in Nodes : g.parent[m] = IF m = ca THEN b ELSE f.parent[m]
  BY <1>1, <1>3, ConnectChildAutoFacts DEF g
<1>7. \A m \in Nodes, j \in Side :
        g.child[m][j] = IF m = b /\ j = i THEN ca ELSE f.child[m][j]
  BY <1>1, <1>3, ConnectChildAutoFacts DEF g
<1> QED BY <1>2, <1>3, <1>4, <1>5, <1>6, <1>7 DEF ca, cb

\* swap_node, field by field: the heap after it is Exchanged, colours included,
\* in the three cases of a being the parent of b or not, and the root or not.
LEMMA SwapNodeFacts ==
  ASSUME NEW h \in Heap, NEW M, NEW sub, Tree(h, M, sub),
         NEW a \in M, NEW b \in M, b # a, b \in sub[a]
  PROVE  LET g == SwapNode(h, a, b)
         IN  /\ Exchanged(g, h, M, a, b)
             /\ g.size = h.size
             /\ \A m \in Nodes : g.red[m] = h.red[Exchange(a, b, m)]
<1> DEFINE r == SwapChildren(h, a, b, 0)
           s == SwapChildren(r, a, b, 1)
           u == [s EXCEPT !.red[a] = s.red[b], !.red[b] = s.red[a],
                          !.parent[a] = s.parent[b], !.parent[b] = s.parent[a]]
           v == Repoint(u, s.parent[a], a, b)
           g == Repoint(v, s.parent[b], b, a)
           pa == h.parent[a]
           pb == h.parent[b]
<1>1. g = SwapNode(h, a, b)
  BY DEF SwapNode
<1>2. a \in Nodes /\ b \in Nodes /\ M \in SUBSET Nodes /\ a # NULL /\ b # NULL
  BY NullNotNode DEF Tree
<1> HIDE DEF r, s, u, v, g, pa, pb
<1>3. /\ r \in Heap /\ r.root = h.root /\ r.size = h.size /\ r.red = h.red
      /\ s \in Heap /\ s.root = r.root /\ s.size = r.size /\ s.red = r.red
  <2>1. r \in Heap /\ r.root = h.root /\ r.size = h.size /\ r.red = h.red
    BY <1>2, SwapChildrenFacts DEF r, Side
  <2> QED BY <1>2, <2>1, SwapChildrenFacts DEF s, Side
<1>4. /\ \A m \in Nodes :
           r.parent[m] = IF m = h.child[a][0] THEN b
                         ELSE IF m = h.child[b][0] THEN a ELSE h.parent[m]
      /\ \A m \in Nodes, j \in Side :
           r.child[m][j] = IF j = 0 /\ m = a THEN h.child[b][0]
                           ELSE IF j = 0 /\ m = b THEN h.child[a][0]
                           ELSE h.child[m][j]
  BY <1>2, SwapChildrenFacts DEF r, Side
<1>5. \A m \in Nodes :
        s.parent[m] = IF m = r.child[a][1] THEN b
                      ELSE IF m = r.child[b][1] THEN a ELSE r.parent[m]
  BY <1>2, <1>3, SwapChildrenFacts DEF s, Side
<1>6. \A m \in Nodes, j \in Side :
        s.child[m][j] = IF j = 1 /\ m = a THEN r.child[b][1]
                        ELSE IF j = 1 /\ m = b THEN r.child[a][1]
                        ELSE r.child[m][j]
  <2>1. r \in Heap /\ a \in Nodes /\ b \in Nodes /\ a # b /\ 1 \in Side
    BY <1>2, <1>3 DEF Side
  <2> QED BY <2>1, SwapChildrenFacts, SMTT(30) DEF s
<1>7. \A m \in Nodes, j \in Side :
        s.child[m][j] = IF m = a THEN h.child[b][j]
                        ELSE IF m = b THEN h.child[a][j]
                        ELSE h.child[m][j]
  BY <1>2, <1>4, <1>6 DEF Side
<1>8. \A m \in Nodes :
        s.parent[m] = IF \E j \in Side : m = h.child[a][j] THEN b
                      ELSE IF \E j \in Side : m = h.child[b][j] THEN a
                      ELSE h.parent[m]
  <2> SUFFICES ASSUME NEW m \in Nodes
               PROVE  s.parent[m] = IF \E j \in Side : m = h.child[a][j] THEN b
                                    ELSE IF \E j \in Side : m = h.child[b][j] THEN a
                                    ELSE h.parent[m]
    OBVIOUS
  <2>1. /\ \A j \in Side : m = h.child[a][j] => h.parent[m] = a
        /\ \A j \in Side : m = h.child[b][j] => h.parent[m] = b
    BY NullNotNode, TreeLocal
  <2>2. r.child[a][1] = h.child[a][1] /\ r.child[b][1] = h.child[b][1]
    BY <1>2, <1>4 DEF Side
  <2> QED BY <1>2, <1>4, <1>5, <2>1, <2>2 DEF Side
<1>9. /\ pa # b /\ pa # a /\ pb # b /\ pb # NULL /\ pb # pa
      /\ \E j \in Side : h.child[pb][j] = b /\ h.child[pb][Opp(j)] # b
      /\ pb \in M
      /\ pa # NULL => /\ pa \in M
                      /\ \E j \in Side : h.child[pa][j] = a /\ h.child[pa][Opp(j)] # a
  <2>1. /\ pa # a /\ pb # b
        /\ pb # NULL => /\ pb \in M
                        /\ \E j \in Side : h.child[pb][j] = b /\ h.child[pb][Opp(j)] # b
        /\ pa # NULL => /\ pa \in M
                        /\ \E j \in Side : h.child[pa][j] = a /\ h.child[pa][Opp(j)] # a
    BY TreeLocal DEF pa, pb
  <2>2. pb # NULL /\ pb \in sub[a]
    BY DEF Tree, Subtrees, pb
  <2>3. pa # NULL => pa \notin sub[a]
    BY <1>2, <2>1 DEF Tree, Subtrees, Sub
  <2> QED BY <1>2, <2>1, <2>2, <2>3
<1>10. /\ s.parent[a] = pa
       /\ s.parent[b] = IF pb = a THEN b ELSE pb
  <2>1. \A m \in M, j \in Side : h.child[m][j] # NULL => h.parent[h.child[m][j]] = m
    BY TreeLocal
  <2>2. (\E j \in Side : b = h.child[a][j]) <=> pb = a
    BY <1>2, <1>9, <2>1 DEF pb
  <2> QED BY <1>2, <1>8, <1>9, <2>1, <2>2 DEF pa, pb
<1>11. /\ u \in Heap /\ u.root = s.root /\ u.size = s.size /\ u.child = s.child
       /\ \A m \in Nodes : u.red[m] = h.red[Exchange(a, b, m)]
       /\ \A m \in Nodes : u.parent[m] = IF m = a THEN s.parent[b]
                                         ELSE IF m = b THEN s.parent[a] ELSE s.parent[m]
  <2>1. u \in Heap /\ u.root = s.root /\ u.size = s.size /\ u.child = s.child
    BY <1>2, <1>3 DEF u, Heap
  <2>2. \A m \in Nodes : u.red[m] = IF m = a THEN s.red[b] ELSE IF m = b THEN s.red[a] ELSE s.red[m]
    BY <1>2, <1>3 DEF u, Heap
  <2>3. \A m \in Nodes : u.parent[m] = IF m = a THEN s.parent[b]
                                         ELSE IF m = b THEN s.parent[a] ELSE s.parent[m]
    BY <1>2, <1>3 DEF u, Heap
  <2> QED BY <1>3, <2>1, <2>2, <2>3 DEF Exchange
<1>12. /\ v \in Heap /\ v.size = u.size /\ v.red = u.red /\ v.parent = u.parent
       /\ v.root = IF pa = NULL THEN b ELSE u.root
       /\ \A m \in Nodes, j \in Side :
            v.child[m][j] = IF m = pa /\ h.child[m][j] = a THEN b ELSE u.child[m][j]
  <2>1. CASE pa = NULL
    <3>1. v = [u EXCEPT !.root = b]
      BY <1>10, <2>1 DEF v, Repoint
    <3> QED BY <1>2, <1>11, <2>1, <3>1, NullNotNode DEF Heap, NodeOrNull
  <2>2. CASE pa # NULL
    <3>1. v = ReplaceChild(u, pa, a, b)
      BY <1>10, <2>2 DEF v, Repoint
    <3>2. pa \in Nodes /\ \A j \in Side : u.child[pa][j] = h.child[pa][j]
      BY <1>2, <1>7, <1>9, <1>11, <2>2
    <3>3. \E j \in Side : u.child[pa][j] = a /\ u.child[pa][Opp(j)] # a
      BY <1>9, <2>2, <3>2, SideFacts
    <3>4. b \in NodeOrNull /\ u \in Heap
      BY <1>2, <1>11 DEF NodeOrNull
    <3>5. /\ v \in Heap
          /\ v.root = u.root /\ v.size = u.size /\ v.red = u.red /\ v.parent = u.parent
      BY <1>2, <3>1, <3>2, <3>3, <3>4, ReplaceChildFacts
    <3>6. \A m \in Nodes, j \in Side :
            v.child[m][j] = IF m = pa /\ u.child[m][j] = a THEN b ELSE u.child[m][j]
      BY <1>2, <3>1, <3>2, <3>3, <3>4, ReplaceChildFacts
    <3> QED BY <2>2, <3>2, <3>5, <3>6
  <2> QED BY <2>1, <2>2
<1> DEFINE q == IF pb = a THEN b ELSE pb
<1>13. /\ g \in Heap /\ g.size = v.size /\ g.red = v.red /\ g.parent = v.parent
       /\ g.root = v.root
       /\ \A m \in Nodes, j \in Side :
            g.child[m][j] = IF m = q /\ v.child[m][j] = b THEN a ELSE v.child[m][j]
  <2>1. g = ReplaceChild(v, q, b, a)
    BY <1>2, <1>9, <1>10 DEF g, Repoint
  <2>2. q \in Nodes /\ \E j \in Side : v.child[q][j] = b /\ v.child[q][Opp(j)] # b
    <3>1. PICK j \in Side : h.child[pb][j] = b /\ h.child[pb][Opp(j)] # b
      BY <1>9
    <3>2. \A k \in Side : v.child[q][k] = h.child[pb][k]
      BY <1>2, <1>7, <1>9, <1>11, <1>12
    <3> QED BY <1>2, <1>9, <3>1, <3>2, SideFacts
  <2>3. v \in Heap /\ a \in NodeOrNull
    BY <1>2, <1>12 DEF NodeOrNull
  <2> HIDE DEF q
  <2>4. g \in Heap /\ g.size = v.size /\ g.red = v.red /\ g.parent = v.parent /\ g.root = v.root
    BY <1>2, <2>1, <2>2, <2>3, ReplaceChildFacts
  <2>5. \A m \in Nodes, j \in Side :
            g.child[m][j] = IF m = q /\ v.child[m][j] = b THEN a ELSE v.child[m][j]
    BY <1>2, <2>1, <2>2, <2>3, ReplaceChildFacts
  <2> QED BY <2>4, <2>5
<1>14. \A m \in M, j \in Side : h.child[m][j] # NULL => h.parent[h.child[m][j]] = m
  BY TreeLocal
<1>15. ASSUME NEW m \in M
       PROVE  g.parent[m] = Exchange(a, b, h.parent[Exchange(a, b, m)])
  <2>1. CASE m = a \/ m = b
    BY <1>2, <1>9, <1>10, <1>11, <1>12, <1>13, <2>1 DEF Exchange, pa, pb
  <2>2. CASE m # a /\ m # b
    <3>1. /\ (\E j \in Side : m = h.child[a][j]) <=> h.parent[m] = a
          /\ (\E j \in Side : m = h.child[b][j]) <=> h.parent[m] = b
      BY <1>2, <1>14, TreeLocal
    <3>2. g.parent[m] = s.parent[m]
      BY <1>2, <1>11, <1>12, <1>13, <2>2
    <3> QED BY <1>2, <1>8, <2>2, <3>1, <3>2 DEF Exchange
  <2> QED BY <2>1, <2>2
<1>16. ASSUME NEW m \in M, NEW j \in Side
       PROVE  g.child[m][j] = Exchange(a, b, h.child[Exchange(a, b, m)][j])
  <2>1. \A k \in M : /\ h.child[k][j] = a => k = pa
                     /\ h.child[k][j] = b => k = pb
    BY <1>2, <1>14 DEF pa, pb
  <2>2. m \in Nodes /\ a \in M /\ b \in M
    BY <1>2
  <2>3. CASE m = a
    <3>1. g.child[m][j] = h.child[b][j]
      BY <1>2, <1>7, <1>9, <1>11, <1>12, <1>13, <2>2, <2>3
    <3> QED BY <1>9, <2>1, <2>3, <3>1 DEF Exchange
  <2>4. CASE m = b
    <3>1. v.child[m][j] = h.child[a][j]
      BY <1>7, <1>9, <1>11, <1>12, <2>2, <2>4
    <3> QED BY <1>9, <1>13, <2>1, <2>2, <2>4, <3>1 DEF Exchange
  <2>5. CASE m # a /\ m # b
    <3>1. v.child[m][j] = IF m = pa /\ h.child[m][j] = a THEN b ELSE h.child[m][j]
      BY <1>7, <1>11, <1>12, <2>2, <2>5
    <3> QED BY <1>9, <1>13, <2>1, <2>2, <2>5, <3>1 DEF Exchange
  <2> QED BY <2>3, <2>4, <2>5
<1>17. g.root = Exchange(a, b, h.root)
  <2>1. /\ h.root = a <=> pa = NULL
        /\ h.root # b
    BY <1>9 DEF Tree, Linked, pa, pb
  <2> QED BY <1>3, <1>11, <1>12, <1>13, <2>1 DEF Exchange
<1> QED
  BY <1>1, <1>3, <1>11, <1>12, <1>13, <1>15, <1>16, <1>17 DEF Exchanged

-----------------------------------------------------------------------------
(* Insertion *)

\* What a red-black heap says of one of its nodes.
LEMMA RedBlackLocal ==
  ASSUME NEW h \in Heap, NEW M, NEW sub, NEW bh, NEW x, NEW c, NEW s,
         RedBlack(h, M, sub, bh, x, c, s), NEW n \in M
  PROVE  /\ h.red[n] \in BOOLEAN
         /\ bh \in [Nodes -> Nat] /\ bh[n] \in Nat
         /\ n # x /\ h.red[n] => h.parent[n] # NULL /\ ~ h.red[h.parent[n]]
         /\ \A i \in Side : /\ Height(bh, h.child[n][i]) \in Nat
                            /\ bh[n] = Own(h, n) + Height(bh, h.child[n][i]) + Credit(n, i, c, s)
<1>1. n \in Nodes
  BY TreeLocal DEF RedBlack
<1>2. \A i \in Side : h.child[n][i] \in NodeOrNull
  BY <1>1, HeapFacts
<1> QED
  BY <1>1, <1>2, HeapFacts DEF RedBlack, NoRedPair, Heights, Height, NodeOrNull

\* A red leaf below a null child keeps all but its own red pair.
LEMMA LinkLeafRedBlack ==
  ASSUME NEW h \in Heap, NEW M, NEW sub, NEW bh,
         RedBlack(h, M, sub, bh, NULL, NULL, 0),
         NEW leaf \in M, NEW i \in Side, h.child[leaf][i] = NULL, NEW ins \in Nodes \ M
  PROVE  LET g == LinkLeaf(h, leaf, i, ins)
         IN  /\ g \in Heap /\ g.size = h.size + 1 /\ g.red[ins]
             /\ Grafted(g, h, leaf, i, ins)
             /\ RedBlack(g, M \cup {ins}, GraftSub(sub, leaf, ins), [bh EXCEPT ![ins] = 0],
                         ins, NULL, 0)
<1> DEFINE f == ConnectChild(h, leaf, ins, i)
           g == LinkLeaf(h, leaf, i, ins)
           b == [bh EXCEPT ![ins] = 0]
<1>1. /\ Tree(h, M, sub) /\ M \in SUBSET Nodes /\ leaf \in Nodes /\ ins # NULL
      /\ bh \in [Nodes -> Nat]
  BY NullNotNode DEF RedBlack, Tree, Heights
<1>2. /\ f \in Heap /\ f.root = h.root /\ f.size = h.size /\ f.red = h.red
      /\ \A m \in Nodes : f.parent[m] = IF m = ins THEN leaf ELSE h.parent[m]
      /\ \A m \in Nodes, j \in Side :
           f.child[m][j] = IF m = leaf /\ j = i THEN ins ELSE h.child[m][j]
  BY <1>1, ConnectChildFacts
<1>3. g = [f EXCEPT !.size = @ + 1, !.child[ins] = NoChildren, !.red[ins] = TRUE]
  BY DEF LinkLeaf
<1> HIDE DEF f, g, b
<1>4. /\ g \in Heap /\ g.root = f.root /\ g.size = f.size + 1 /\ g.parent = f.parent
      /\ \A m \in Nodes : g.red[m] = IF m = ins THEN TRUE ELSE f.red[m]
      /\ \A m \in Nodes, j \in Side :
           g.child[m][j] = IF m = ins THEN NULL ELSE f.child[m][j]
  <2>1. f \in Heap
    BY <1>2
  <2>2. g \in Heap
    <3>1. NoChildren \in [Side -> NodeOrNull]
      BY DEF NoChildren, NodeOrNull
    <3>2. /\ [f.child EXCEPT ![ins] = NoChildren] \in [Nodes -> [Side -> NodeOrNull]]
          /\ [f.red EXCEPT ![ins] = TRUE] \in [Nodes -> BOOLEAN]
      BY <2>1, <3>1 DEF Heap
    <3>3. g = [root |-> f.root, size |-> f.size + 1, parent |-> f.parent,
               child |-> [f.child EXCEPT ![ins] = NoChildren],
               red |-> [f.red EXCEPT ![ins] = TRUE]]
      BY <1>3, <2>1 DEF Heap
    <3>4. f.root \in NodeOrNull /\ f.size + 1 \in Int /\ f.parent \in [Nodes -> NodeOrNull]
      BY <2>1 DEF Heap
    <3> QED BY <3>2, <3>3, <3>4 DEF Heap
  <2>3. g.root = f.root /\ g.size = f.size + 1 /\ g.parent = f.parent
    BY <1>3, <2>1 DEF Heap
  <2>4. \A m \in Nodes : g.red[m] = IF m = ins THEN TRUE ELSE f.red[m]
    BY <1>3, <2>1 DEF Heap
  <2>5. \A m \in Nodes, j \in Side : g.child[m][j] = IF m = ins THEN NULL ELSE f.child[m][j]
    BY <1>3, <2>1 DEF Heap, NoChildren
  <2> QED BY <2>2, <2>3, <2>4, <2>5
<1>5. Grafted(g, h, leaf, i, ins)
  BY <1>1, <1>2, <1>4 DEF Grafted
<1>6. Tree(g, M \cup {ins}, GraftSub(sub, leaf, ins))
  BY <1>1, <1>5, GraftTree
<1>7. /\ b \in [Nodes -> Nat] /\ b[ins] = 0
      /\ \A m \in M : b[m] = bh[m]
  BY <1>1 DEF b
<1>8. NoRedPair(g, M \cup {ins}, ins)
  <2> SUFFICES ASSUME NEW m \in M, g.red[m]
               PROVE  g.parent[m] # NULL /\ ~ g.red[g.parent[m]]
    BY DEF NoRedPair
  <2>1. h.parent[m] # NULL => h.parent[m] \in M
    BY <1>1, TreeLocal
  <2>2. m \in Nodes /\ m # NULL /\ m # ins
    BY <1>1, NullNotNode
  <2>3. h.red[m] /\ g.parent[m] = h.parent[m]
    BY <1>2, <1>4, <2>2
  <2>4. h.parent[m] # NULL /\ ~ h.red[h.parent[m]]
    BY <2>2, <2>3, RedBlackLocal
  <2> QED BY <1>1, <1>2, <1>4, <2>1, <2>3, <2>4
<1>9. Heights(g, M \cup {ins}, b, NULL, 0)
  <2> SUFFICES ASSUME NEW m \in M \cup {ins}, NEW j \in Side
               PROVE  b[m] = Own(g, m) + Height(b, g.child[m][j]) + Credit(m, j, NULL, 0)
    BY <1>7 DEF Heights
  <2>1. CASE m = ins
    <3>1. Own(g, ins) = 0 /\ Height(b, g.child[ins][j]) = 0 /\ Credit(ins, j, NULL, 0) = 0
      BY <1>1, <1>4 DEF Own, Height, Credit
    <3> QED BY <1>7, <2>1, <3>1
  <2>2. CASE m # ins
    <3>1. m \in M /\ m # NULL
      BY <1>1, <2>2, NullNotNode
    <3>2. h.child[m][j] # NULL => h.child[m][j] \in M
      BY <1>1, <3>1, TreeLocal
    <3>3. /\ bh[m] = Own(h, m) + Height(bh, h.child[m][j]) + Credit(m, j, NULL, 0)
          /\ Height(bh, h.child[m][j]) \in Nat
      BY <3>1, RedBlackLocal
    <3>4. Height(b, g.child[m][j]) = Height(bh, h.child[m][j])
      BY <1>1, <1>2, <1>4, <1>7, <2>2, <3>1, <3>2 DEF Height
    <3>5. Own(g, m) = Own(h, m)
      BY <1>1, <1>2, <1>4, <2>2, <3>1 DEF Own
    <3> QED BY <1>7, <3>1, <3>3, <3>4, <3>5
  <2> QED BY <2>1, <2>2
<1> QED BY <1>2, <1>4, <1>5, <1>6, <1>8, <1>9 DEF RedBlack, g, b

\* insertRootNode, field by field.
LEMMA RootOnlyFacts ==
  ASSUME NEW h \in Heap, NEW ins \in Nodes
  PROVE  LET g == RootOnly(h, ins)
         IN  /\ g \in Heap
             /\ g.root = ins /\ g.size = h.size + 1 /\ g.parent[ins] = NULL /\ ~ g.red[ins]
             /\ \A j \in Side : g.child[ins][j] = NULL
<1> DEFINE g == RootOnly(h, ins)
<1>1. NoChildren \in [Side -> NodeOrNull] /\ \A j \in Side : NoChildren[j] = NULL
  BY DEF NoChildren, NodeOrNull
<1>2. g \in Heap
  <2> DEFINE f == [h EXCEPT !.root = ins]
  <2>1. f \in Heap
    BY DEF Heap, NodeOrNull
  <2>2. g = [f EXCEPT !.size = @ + 1, !.parent[ins] = NULL,
                      !.child[ins] = NoChildren, !.red[ins] = FALSE]
    BY DEF RootOnly
  <2> HIDE DEF f, g
  <2>3. g = [root |-> f.root, size |-> f.size + 1,
             parent |-> [f.parent EXCEPT ![ins] = NULL],
             child |-> [f.child EXCEPT ![ins] = NoChildren],
             red |-> [f.red EXCEPT ![ins] = FALSE]]
    BY <2>1, <2>2 DEF Heap
  <2>4. /\ [f.parent EXCEPT ![ins] = NULL] \in [Nodes -> NodeOrNull]
        /\ [f.child EXCEPT ![ins] = NoChildren] \in [Nodes -> [Side -> NodeOrNull]]
        /\ [f.red EXCEPT ![ins] = FALSE] \in [Nodes -> BOOLEAN]
    BY <1>1, <2>1 DEF Heap, NodeOrNull
  <2>5. f.root \in NodeOrNull /\ f.size + 1 \in Int
    BY <2>1 DEF NodeOrNull, Heap
  <2> QED BY <2>3, <2>4, <2>5 DEF Heap
<1>3. g.root = ins /\ g.size = h.size + 1 /\ g.parent[ins] = NULL /\ ~ g.red[ins]
  BY DEF RootOnly, Heap
<1>4. \A j \in Side : g.child[ins][j] = NULL
  BY <1>1 DEF RootOnly, Heap
<1> QED BY <1>2, <1>3, <1>4

\* insertRootNode makes a red-black tree of one node.
LEMMA RootOnlyRedBlack ==
  ASSUME NEW h \in Heap, NEW sub \in [Nodes -> SUBSET Nodes], NEW bh \in [Nodes -> Nat],
         NEW ins \in Nodes
  PROVE  LET g == RootOnly(h, ins)
         IN  /\ g \in Heap /\ g.size = h.size + 1
             /\ RedBlack(g, {ins}, [sub EXCEPT ![ins] = {ins}], [bh EXCEPT ![ins] = 1],
                         NULL, NULL, 0)
<1> DEFINE g == RootOnly(h, ins)
           s == [sub EXCEPT ![ins] = {ins}]
           b == [bh EXCEPT ![ins] = 1]
<1>2. g \in Heap
  BY RootOnlyFacts
<1>3. g.root = ins /\ g.size = h.size + 1 /\ g.parent[ins] = NULL /\ ~ g.red[ins]
  BY RootOnlyFacts
<1>4. \A j \in Side : g.child[ins][j] = NULL
  BY RootOnlyFacts
<1>5. ins # NULL /\ s[ins] = {ins} /\ s \in [Nodes -> SUBSET Nodes]
      /\ b[ins] = 1 /\ b \in [Nodes -> Nat]
  BY NullNotNode
<1> HIDE DEF g, s, b
<1>6. Linked(g, {ins})
  BY <1>3, <1>4 DEF Linked
<1>7. Subtrees(g, {ins}, s)
  BY <1>3, <1>4, <1>5 DEF Subtrees, Sub, Side
<1>8. NoRedPair(g, {ins}, NULL)
  BY <1>3 DEF NoRedPair
<1>9. Heights(g, {ins}, b, NULL, 0)
  <2>1. Own(g, ins) = 1 /\ \A j \in Side : Credit(ins, j, NULL, 0) = 0
    BY <1>3, <1>5 DEF Own, Credit
  <2>2. \A j \in Side : Height(b, g.child[ins][j]) = 0
    BY <1>4 DEF Height
  <2> QED BY <1>5, <2>1, <2>2 DEF Heights
<1> QED BY <1>2, <1>3, <1>5, <1>6, <1>7, <1>8, <1>9 DEF RedBlack, Tree, g, s, b

\* A heap that differs from another only by its colours.
SameLinks(g, h) ==
  /\ g \in Heap
  /\ g.root = h.root /\ g.size = h.size /\ g.parent = h.parent /\ g.child = h.child

SetRed(h, n, v) == [h EXCEPT !.red[n] = v]

\* Setting one colour, field by field.
LEMMA SetRedFacts ==
  ASSUME NEW h \in Heap, NEW n \in Nodes, NEW v \in BOOLEAN
  PROVE  /\ SameLinks(SetRed(h, n, v), h)
         /\ \A m \in Nodes : SetRed(h, n, v).red[m] = IF m = n THEN v ELSE h.red[m]
  BY DEF Heap, SameLinks, SetRed

\* A heap with the links of a tree is that tree.
LEMMA SameTree ==
  ASSUME NEW h, NEW M, NEW sub, Tree(h, M, sub), NEW g, SameLinks(g, h)
  PROVE  Tree(g, M, sub)
<1>1. Linked(g, M)
  BY DEF Tree, Linked, SameLinks
<1>2. Subtrees(g, M, sub)
  BY DEF Tree, Subtrees, SameLinks
<1> QED BY <1>1, <1>2 DEF Tree

\* The end of insertNormalise at the root.
LEMMA BlackenRootRedBlack ==
  ASSUME NEW h \in Heap, NEW M, NEW sub, NEW bh, NEW n \in M,
         RedBlack(h, M, sub, bh, n, NULL, 0), h.red[n], h.parent[n] = NULL
  PROVE  LET g == [h EXCEPT !.red[n] = FALSE]
         IN  /\ g \in Heap /\ g.size = h.size
             /\ RedBlack(g, M, sub, [bh EXCEPT ![n] = bh[n] + 1], NULL, NULL, 0)
<1> DEFINE g == [h EXCEPT !.red[n] = FALSE]
           b == [bh EXCEPT ![n] = bh[n] + 1]
<1>1. Tree(h, M, sub) /\ M \in SUBSET Nodes /\ n \in Nodes /\ n # NULL
  BY NullNotNode DEF RedBlack, Tree
<1>2. SameLinks(g, h) /\ h.red[n] /\ \A m \in Nodes : g.red[m] = IF m = n THEN FALSE ELSE h.red[m]
  BY <1>1 DEF SameLinks, Heap
<1>3. bh \in [Nodes -> Nat] /\ b \in [Nodes -> Nat]
      /\ \A m \in Nodes : b[m] = IF m = n THEN bh[n] + 1 ELSE bh[m]
  BY <1>1 DEF RedBlack, Heights
<1> HIDE DEF g, b
<1>4. NoRedPair(g, M, NULL)
  <2> SUFFICES ASSUME NEW m \in M, g.red[m]
               PROVE  g.parent[m] # NULL /\ ~ g.red[g.parent[m]]
    BY DEF NoRedPair
  <2>1. m # n /\ h.red[m] /\ g.parent[m] = h.parent[m]
    BY <1>1, <1>2 DEF SameLinks
  <2>2. h.parent[m] # NULL /\ ~ h.red[h.parent[m]] /\ h.parent[m] \in Nodes
    BY <1>1, <2>1, RedBlackLocal, TreeLocal
  <2> QED BY <1>2, <2>1, <2>2
<1>5. Heights(g, M, b, NULL, 0)
  <2> SUFFICES ASSUME NEW m \in M, NEW j \in Side
               PROVE  b[m] = Own(g, m) + Height(b, g.child[m][j]) + Credit(m, j, NULL, 0)
    BY <1>3 DEF Heights
  <2>1. /\ bh[m] = Own(h, m) + Height(bh, h.child[m][j]) + Credit(m, j, NULL, 0)
        /\ Height(bh, h.child[m][j]) \in Nat
    BY RedBlackLocal
  <2>2. g.child[m][j] = h.child[m][j] /\ h.child[m][j] # n /\ h.child[m][j] \in NodeOrNull
    BY <1>1, <1>2, HeapFacts, TreeLocal DEF SameLinks
  <2>3. Height(b, g.child[m][j]) = Height(bh, h.child[m][j])
    BY <1>3, <2>2 DEF Height, NodeOrNull
  <2>4. m # NULL /\ Credit(m, j, NULL, 0) = 0
    BY <1>1, NullNotNode DEF Credit
  <2>5. Own(g, m) = IF m = n THEN Own(h, m) + 1 ELSE Own(h, m)
    <3>1. m \in Nodes /\ h.red[n]
      BY <1>1, <1>2
    <3>2. CASE m = n
      <4>1. ~ g.red[m] /\ h.red[m]
        BY <1>2, <3>1, <3>2
      <4> QED BY <3>2, <4>1 DEF Own
    <3>3. CASE m # n
      BY <1>2, <3>1, <3>3 DEF Own
    <3> QED BY <3>2, <3>3
  <2>6. Own(h, m) \in Nat
    BY DEF Own
  <2> QED BY <1>1, <1>3, <2>1, <2>3, <2>4, <2>5, <2>6
<1> QED BY <1>1, <1>2, <1>4, <1>5, SameTree DEF RedBlack, SameLinks, g, b

\* Its end below a black parent.
LEMMA UnderBlackRedBlack ==
  ASSUME NEW h, NEW M, NEW sub, NEW bh, NEW n \in M, RedBlack(h, M, sub, bh, n, NULL, 0),
         h.parent[n] # NULL, ~ h.red[h.parent[n]]
  PROVE  RedBlack(h, M, sub, bh, NULL, NULL, 0)
BY DEF RedBlack, NoRedPair

-----------------------------------------------------------------------------
(* Rotation *)

\* What a rotation of n below r makes of the heights bh, when nothing else
\* changes colour than those two and the missing black node, if there is one,
\* is on the side s of c before it and on the side s2 of c2 after it.
RotatedHeights(g, h, M, bh, c, s, n, i, r, b, c2, s2) ==
  /\ \A m \in M \ {n, r} :
       /\ g.red[m] = h.red[m]
       /\ b[m] = bh[m]
       /\ \A j \in Side : Credit(m, j, c2, s2) = Credit(m, j, c, s)
  /\ b \in [Nodes -> Nat]
  /\ b[r] = bh[n]
  /\ b[n] = Own(g, n) + Height(bh, h.child[n][i]) + Credit(n, i, c2, s2)
  /\ b[n] = Own(g, n) + Height(bh, h.child[r][i]) + Credit(n, Opp(i), c2, s2)
  /\ b[r] = Own(g, r) + b[n] + Credit(r, i, c2, s2)
  /\ b[r] = Own(g, r) + Height(bh, h.child[r][Opp(i)]) + Credit(r, Opp(i), c2, s2)

\* What a rotation makes of the black heights, with any one missing black node
\* before it (at side s of c) and after it (at side s2 of c2).
LEMMA RotateHeights ==
  ASSUME NEW h \in Heap, NEW M, NEW sub, Tree(h, M, sub),
         NEW bh, NEW c, NEW s, Heights(h, M, bh, c, s),
         NEW n \in M, NEW i \in Side, NEW r \in M, h.child[n][Opp(i)] = r,
         NEW u, Rotated(u, h, n, i, r), NEW g, SameLinks(g, u),
         NEW b, NEW c2, NEW s2, RotatedHeights(g, h, M, bh, c, s, n, i, r, b, c2, s2)
  PROVE  Heights(g, M, b, c2, s2)
<1>0. /\ \A m \in M \ {n, r} :
           /\ g.red[m] = h.red[m]
           /\ b[m] = bh[m]
           /\ \A j \in Side : Credit(m, j, c2, s2) = Credit(m, j, c, s)
      /\ b \in [Nodes -> Nat]
      /\ b[r] = bh[n]
      /\ b[n] = Own(g, n) + Height(bh, h.child[n][i]) + Credit(n, i, c2, s2)
      /\ b[n] = Own(g, n) + Height(bh, h.child[r][i]) + Credit(n, Opp(i), c2, s2)
      /\ b[r] = Own(g, r) + b[n] + Credit(r, i, c2, s2)
      /\ b[r] = Own(g, r) + Height(bh, h.child[r][Opp(i)]) + Credit(r, Opp(i), c2, s2)
  BY DEF RotatedHeights
<1>1. /\ M \in SUBSET Nodes /\ n \in Nodes /\ r \in Nodes /\ n # NULL /\ r # NULL /\ r # n
      /\ bh \in [Nodes -> Nat] /\ Opp(i) \in Side
      /\ h.parent[r] = n /\ h.parent[n] # r /\ h.child[n][i] # r
  BY NullNotNode, TreeLocal, SideFacts DEF Tree, Heights
<1>3. \A m \in M, j \in Side :
        g.child[m][j] = IF m = r /\ j = i THEN n
                        ELSE IF m = n /\ j = Opp(i) THEN h.child[r][i]
                        ELSE IF m = h.parent[n] /\ h.child[m][j] = n THEN r
                        ELSE h.child[m][j]
  BY <1>1 DEF Rotated, SameLinks
<1>4. \A m \in M, j \in Side : h.child[m][j] # NULL =>
        h.child[m][j] \in M /\ h.parent[h.child[m][j]] = m /\ h.child[m][j] # m
  BY TreeLocal
<1>5. ASSUME NEW k \in M \cup {NULL}, k # n, k # r
      PROVE  Height(b, k) = Height(bh, k)
  BY <1>0, <1>1, <1>5 DEF Height
<1>6. ASSUME NEW j \in Side
      PROVE  b[n] = Own(g, n) + Height(b, g.child[n][j]) + Credit(n, j, c2, s2)
  <2>1. CASE j = i
    <3>1. g.child[n][j] = h.child[n][i]
      BY <1>1, <1>3, <1>4, <2>1, SideFacts
    <3>2. Height(b, h.child[n][i]) = Height(bh, h.child[n][i])
      BY <1>1, <1>4, <1>5
    <3> QED BY <1>0, <2>1, <3>1, <3>2
  <2>2. CASE j = Opp(i)
    <3>1. g.child[n][j] = h.child[r][i]
      BY <1>1, <1>3, <2>2, SideFacts
    <3>2. h.child[r][i] # n /\ h.child[r][i] # r
      BY <1>1, <1>4
    <3>3. Height(b, h.child[r][i]) = Height(bh, h.child[r][i])
      BY <1>4, <1>5, <3>2
    <3> QED BY <1>0, <2>2, <3>1, <3>3
  <2> QED BY <2>1, <2>2, SideFacts
<1>7. ASSUME NEW j \in Side
      PROVE  b[r] = Own(g, r) + Height(b, g.child[r][j]) + Credit(r, j, c2, s2)
  <2>1. CASE j = i
    <3>1. g.child[r][j] = n
      BY <1>3, <2>1
    <3>2. Height(b, n) = b[n]
      BY <1>0, <1>1 DEF Height
    <3> QED BY <1>0, <2>1, <3>1, <3>2
  <2>2. CASE j = Opp(i)
    <3>1. g.child[r][j] = h.child[r][Opp(i)]
      BY <1>1, <1>3, <1>4, <2>2, SideFacts
    <3>2. h.child[r][Opp(i)] # n /\ h.child[r][Opp(i)] # r
      BY <1>1, <1>4
    <3>3. Height(b, h.child[r][Opp(i)]) = Height(bh, h.child[r][Opp(i)])
      BY <1>1, <1>4, <1>5, <3>2
    <3> QED BY <1>0, <2>2, <3>1, <3>3
  <2> QED BY <2>1, <2>2, SideFacts
<1>8. ASSUME NEW m \in M \ {n, r}, NEW j \in Side
      PROVE  b[m] = Own(g, m) + Height(b, g.child[m][j]) + Credit(m, j, c2, s2)
  <2>1. /\ b[m] = bh[m] /\ Own(g, m) = Own(h, m)
        /\ Credit(m, j, c2, s2) = Credit(m, j, c, s)
    BY <1>0, <1>1 DEF Own
  <2>2. Height(b, g.child[m][j]) = Height(bh, h.child[m][j])
    <3>1. CASE h.child[m][j] = n
      <4>1. g.child[m][j] = r
        BY <1>1, <1>3, <1>4, <3>1
      <4> QED BY <1>0, <1>1, <3>1, <4>1 DEF Height
    <3>2. CASE h.child[m][j] # n
      <4>1. g.child[m][j] = h.child[m][j] /\ h.child[m][j] # r
        BY <1>1, <1>3, <1>4, <3>2
      <4> QED BY <1>4, <1>5, <3>2, <4>1
    <3> QED BY <3>1, <3>2
  <2>3. bh[m] = Own(h, m) + Height(bh, h.child[m][j]) + Credit(m, j, c, s)
    BY DEF Heights
  <2> QED BY <2>1, <2>2, <2>3
<1> QED BY <1>0, <1>6, <1>7, <1>8 DEF Heights

\* What it makes of the red pairs.  Below r, as below n, only a red node that
\* the exceptions name may be red.
LEMMA RotateRedPairs ==
  ASSUME NEW h \in Heap, NEW M, NEW sub, Tree(h, M, sub), NEW x, NoRedPair(h, M, x),
         NEW n \in M, NEW i \in Side, NEW r \in M, h.child[n][Opp(i)] = r,
         NEW u, Rotated(u, h, n, i, r), NEW g, SameLinks(g, u),
         \A m \in M \ {n, r} : g.red[m] = h.red[m],
         NEW y, x \in M => x = y \/ x \in {n, r} \/ h.parent[x] \in {n, r} \/ ~ g.red[x],
         g.red[r] => h.red[n],
         n # y /\ g.red[n] => ~ g.red[r],
         h.child[n][i] # NULL /\ h.child[n][i] # y /\ g.red[n] => ~ g.red[h.child[n][i]],
         h.child[r][i] # NULL /\ h.child[r][i] # y /\ g.red[n] => ~ g.red[h.child[r][i]],
         h.child[r][Opp(i)] # NULL /\ h.child[r][Opp(i)] # y /\ g.red[r] =>
           ~ g.red[h.child[r][Opp(i)]],
         g.red[r] => n # x
  PROVE  NoRedPair(g, M, y)
<1>1. /\ M \in SUBSET Nodes /\ n \in Nodes /\ r \in Nodes /\ n # NULL /\ r # NULL /\ r # n
      /\ h.parent[r] = n /\ h.parent[n] # r /\ Opp(i) \in Side
  BY NullNotNode, TreeLocal, SideFacts DEF Tree
<1>2. \A m \in M : g.parent[m] = IF m = r THEN h.parent[n]
                     ELSE IF m = n THEN r
                     ELSE IF m = h.child[r][i] THEN n
                     ELSE h.parent[m]
  <2>1. g.parent = u.parent
    BY DEF SameLinks
  <2>2. \A m \in Nodes : u.parent[m] = IF m = r THEN h.parent[n]
                     ELSE IF m = n THEN r
                     ELSE IF m = h.child[r][i] THEN n
                     ELSE h.parent[m]
    BY Zenon DEF Rotated
  <2> QED BY <1>1, <2>1, <2>2
<1> SUFFICES ASSUME NEW m \in M, m # y, g.red[m]
             PROVE  g.parent[m] # NULL /\ ~ g.red[g.parent[m]]
  BY DEF NoRedPair
<1>3. /\ h.parent[m] # NULL =>
           h.parent[m] \in M /\ \E j \in Side : h.child[h.parent[m]][j] = m
      /\ h.parent[n] # NULL => h.parent[n] \in M /\ h.parent[n] # n
      /\ h.child[r][i] # NULL => h.parent[h.child[r][i]] = r
      /\ m # NULL /\ m \in Nodes
  BY <1>1, TreeLocal
<1>4. CASE m = r
  <2>1. h.red[n] /\ n # x
    BY <1>4
  <2>2. h.parent[n] # NULL /\ ~ h.red[h.parent[n]]
    BY <2>1 DEF NoRedPair
  <2> QED BY <1>1, <1>2, <1>3, <1>4, <2>2
<1>5. CASE m = n
  BY <1>1, <1>2, <1>5
<1>6. CASE m = h.child[r][i] /\ m # n /\ m # r
  <2>1. g.parent[m] = n
    BY <1>2, <1>6
  <2> QED BY <1>1, <1>3, <1>6, <2>1
<1>7. CASE m # h.child[r][i] /\ m # n /\ m # r
  <2>1. g.parent[m] = h.parent[m] /\ h.red[m]
    BY <1>2, <1>3, <1>7
  <2>2. /\ h.parent[m] # NULL
        /\ h.parent[m] \in {n, r} \/ ~ h.red[h.parent[m]]
    <3>1. CASE m = x
      BY <1>1, <1>7, <3>1
    <3>2. CASE m # x
      BY <2>1, <3>2 DEF NoRedPair
    <3> QED BY <3>1, <3>2
  <2>3. PICK j \in Side : h.child[h.parent[m]][j] = m
    BY <1>3, <2>2
  <2>4. CASE h.parent[m] = n
    <3>1. j = i
      BY <1>7, <2>3, <2>4, SideFacts
    <3> QED BY <1>1, <1>3, <2>1, <2>3, <2>4, <3>1
  <2>5. CASE h.parent[m] = r
    <3>1. j = Opp(i)
      BY <1>7, <2>3, <2>5, SideFacts
    <3> QED BY <1>1, <1>3, <2>1, <2>3, <2>5, <3>1
  <2>6. CASE h.parent[m] # n /\ h.parent[m] # r
    BY <1>3, <2>1, <2>2, <2>6
  <2> QED BY <2>4, <2>5, <2>6
<1> QED BY <1>4, <1>5, <1>6, <1>7

-----------------------------------------------------------------------------
(* insertNormalise *)

\* The grandparent of a red pair, and the node opposite the pair.
LEMMA RedPairFacts ==
  ASSUME NEW h \in Heap, NEW M, NEW sub, NEW bh, NEW n \in M,
         RedBlack(h, M, sub, bh, n, NULL, 0), h.red[n],
         NEW p, h.parent[n] = p, p # NULL, h.red[p],
         NEW gp, h.parent[p] = gp, NEW pid, GetChildId(h, gp, p) = pid
  PROVE  /\ p \in M /\ p # n /\ gp # NULL /\ gp \in M /\ gp # p /\ gp # n /\ ~ h.red[gp]
         /\ pid \in Side /\ h.child[gp][pid] = p /\ h.child[gp][Opp(pid)] # p
         /\ \E i \in Side : h.child[p][i] = n
<1>1. Tree(h, M, sub) /\ NoRedPair(h, M, n)
  BY DEF RedBlack
<1>2. p \in M /\ p # n /\ n # NULL /\ \E i \in Side : h.child[p][i] = n /\ h.child[p][Opp(i)] # n
  BY <1>1, TreeLocal
<1>3. gp # NULL /\ ~ h.red[gp]
  BY <1>1, <1>2 DEF NoRedPair
<1>4. gp \in M /\ \E i \in Side : h.child[gp][i] = p /\ h.child[gp][Opp(i)] # p
  BY <1>1, <1>2, <1>3, TreeLocal
<1>5. gp # p /\ gp # n
  BY <1>3
<1>6. pid \in Side /\ h.child[gp][pid] = p /\ h.child[gp][Opp(pid)] # p
  <2>1. pid = IF h.child[gp][0] # p THEN 1 ELSE 0
    BY DEF GetChildId
  <2> QED BY <1>4, <2>1 DEF Side, Opp
<1> QED BY <1>2, <1>3, <1>4, <1>5, <1>6

\* Recolouring leaves the one red pair two levels up.
LEMMA RecolourRedBlack ==
  ASSUME NEW h \in Heap, NEW M, NEW sub, NEW bh, NEW n \in M,
         RedBlack(h, M, sub, bh, n, NULL, 0), h.red[n],
         NEW p, h.parent[n] = p, p # NULL, h.red[p],
         NEW gp, h.parent[p] = gp, NEW pid, GetChildId(h, gp, p) = pid,
         NEW u, h.child[gp][Opp(pid)] = u, IsRed(h, u)
  PROVE  LET g == Recolour(h, p, u, gp)
         IN  /\ g \in Heap /\ g.size = h.size /\ gp \in M /\ g.red[gp]
             /\ \E b \in [Nodes -> Nat] : RedBlack(g, M, sub, b, gp, NULL, 0)
<1> DEFINE g == Recolour(h, p, u, gp)
           b == [bh EXCEPT ![p] = bh[p] + 1, ![u] = bh[u] + 1]
<1>1. Tree(h, M, sub) /\ NoRedPair(h, M, n) /\ Heights(h, M, bh, NULL, 0)
  BY DEF RedBlack
<1>2. /\ p \in M /\ p # n /\ gp # NULL /\ gp \in M /\ gp # p /\ gp # n /\ ~ h.red[gp]
      /\ pid \in Side /\ h.child[gp][pid] = p /\ h.child[gp][Opp(pid)] # p
  BY RedPairFacts
<1>3. u # NULL /\ h.red[u] /\ u # p /\ u # gp /\ Opp(pid) \in Side
  BY <1>2, SideFacts DEF IsRed
<1>4. u \in M /\ h.parent[u] = gp
  <2>1. \A m \in M, i \in Side : h.child[m][i] # NULL =>
          h.child[m][i] \in M /\ h.parent[h.child[m][i]] = m
    BY <1>1 DEF Tree, Linked
  <2>2. gp \in M /\ Opp(pid) \in Side /\ h.child[gp][Opp(pid)] = u /\ u # NULL
    BY <1>2, <1>3
  <2> QED BY <2>1, <2>2
<1>5. M \in SUBSET Nodes /\ p \in Nodes /\ u \in Nodes /\ gp \in Nodes /\ bh \in [Nodes -> Nat]
  BY <1>1, <1>2, <1>4 DEF Tree, Heights
<1>6. g = [h EXCEPT !.red[p] = FALSE, !.red[u] = FALSE, !.red[gp] = TRUE]
  BY DEF Recolour
<1> HIDE DEF g, b
<1>7. SameLinks(g, h)
  BY <1>5, <1>6 DEF SameLinks, Heap
<1>8. \A m \in Nodes : g.red[m] = IF m = p \/ m = u THEN FALSE ELSE IF m = gp THEN TRUE ELSE h.red[m]
  BY <1>2, <1>3, <1>5, <1>6 DEF Heap
<1>9. /\ b \in [Nodes -> Nat]
      /\ \A m \in Nodes : b[m] = IF m = p \/ m = u THEN bh[m] + 1 ELSE bh[m]
  <2>1. bh[p] + 1 \in Nat /\ bh[u] + 1 \in Nat
    BY <1>5
  <2>2. b \in [Nodes -> Nat]
    BY <1>5, <2>1 DEF b
  <2>3. \A m \in Nodes : b[m] = IF m = u THEN bh[u] + 1 ELSE IF m = p THEN bh[p] + 1 ELSE bh[m]
    BY <1>5 DEF b
  <2> QED BY <1>3, <2>2, <2>3
<1>10. \A m \in M, j \in Side :
         /\ h.child[m][j] # NULL => h.child[m][j] \in M /\ h.parent[h.child[m][j]] = m
  BY <1>1, TreeLocal
<1>11. \A m \in M : h.parent[m] # NULL =>
         /\ h.parent[m] \in M
         /\ h.parent[m] = gp => m = p \/ m = u
  <2> SUFFICES ASSUME NEW m \in M, h.parent[m] # NULL
               PROVE  /\ h.parent[m] \in M
                      /\ h.parent[m] = gp => m = p \/ m = u
    OBVIOUS
  <2>1. h.parent[m] \in M /\ \E j \in Side : h.child[h.parent[m]][j] = m
    BY <1>1, TreeLocal
  <2> QED BY <1>2, <2>1, SideFacts
<1>12. NoRedPair(g, M, gp)
  <2> SUFFICES ASSUME NEW m \in M \ {gp}, g.red[m]
               PROVE  g.parent[m] # NULL /\ ~ g.red[g.parent[m]]
    BY DEF NoRedPair
  <2>1. m # p /\ m # u /\ h.red[m] /\ g.parent[m] = h.parent[m]
    BY <1>5, <1>7, <1>8 DEF SameLinks
  <2>2. CASE m = n
    BY <1>2, <1>5, <1>8, <2>1, <2>2
  <2>3. CASE m # n
    <3>1. h.parent[m] # NULL /\ ~ h.red[h.parent[m]]
      BY <1>1, <2>1, <2>3 DEF NoRedPair
    <3>2. h.parent[m] \in M /\ h.parent[m] # gp
      BY <1>11, <2>1, <3>1
    <3> QED BY <1>5, <1>8, <2>1, <3>1, <3>2
  <2> QED BY <2>2, <2>3
<1>13. Heights(g, M, b, NULL, 0)
  <2> SUFFICES ASSUME NEW m \in M, NEW j \in Side
               PROVE  b[m] = Own(g, m) + Height(b, g.child[m][j]) + Credit(m, j, NULL, 0)
    BY <1>9 DEF Heights
  <2> DEFINE k == h.child[m][j]
  <2>1. /\ bh[m] = Own(h, m) + Height(bh, k) + Credit(m, j, NULL, 0)
        /\ Height(bh, k) \in Nat
        /\ g.child[m][j] = k
    BY <1>7, RedBlackLocal DEF SameLinks
  <2>2. k # NULL => k \in M /\ h.parent[k] = m
    BY <1>10
  <2>3. p # NULL /\ u # NULL /\ h.parent[p] = gp
    BY <1>3
  <2>4. Own(h, p) = 0 /\ Own(h, u) = 0 /\ Own(g, p) = 1 /\ Own(g, u) = 1
        /\ Own(h, gp) = 1 /\ Own(g, gp) = 0
    BY <1>2, <1>3, <1>5, <1>8 DEF Own
  <2>5. Credit(m, j, NULL, 0) = 0
    BY <1>5, NullNotNode DEF Credit
  <2> HIDE DEF k
  <2>6. CASE m = gp
    <3>1. k = p \/ k = u
      BY <1>2, <2>6, SideFacts DEF k
    <3>2. Height(bh, k) = bh[k] /\ Height(b, k) = bh[k] + 1 /\ bh[k] \in Nat
      BY <1>5, <1>9, <2>3, <3>1 DEF Height
    <3>3. b[m] = bh[m]
      BY <1>2, <1>3, <1>5, <1>9, <2>6
    <3> QED BY <2>1, <2>4, <2>5, <2>6, <3>2, <3>3
  <2>7. CASE m # gp
    <3>1. k # p /\ k # u
      BY <1>4, <2>2, <2>3, <2>7
    <3>2. Height(b, k) = Height(bh, k)
      BY <1>5, <1>9, <2>2, <3>1 DEF Height
    <3>3. CASE m = p \/ m = u
      <4>1. b[m] = bh[m] + 1 /\ Own(h, m) = 0 /\ Own(g, m) = 1
        BY <1>5, <1>9, <2>4, <3>3
      <4> QED BY <2>1, <2>5, <3>2, <4>1
    <3>4. CASE m # p /\ m # u
      <4>1. b[m] = bh[m] /\ g.red[m] = h.red[m]
        BY <1>5, <1>8, <1>9, <2>7, <3>4
      <4>2. Own(g, m) = Own(h, m)
        BY <4>1 DEF Own
      <4> QED BY <2>1, <3>2, <4>1, <4>2
    <3> QED BY <3>3, <3>4
  <2> QED BY <2>6, <2>7
<1>14. g \in Heap /\ g.size = h.size /\ g.red[gp] /\ Tree(g, M, sub)
  BY <1>1, <1>2, <1>3, <1>5, <1>7, <1>8, SameTree DEF SameLinks
<1> QED BY <1>2, <1>9, <1>12, <1>13, <1>14 DEF RedBlack, g

\* An inner grandchild is rotated above its parent: the outer red pair.
LEMMA OuterGrandchildRedBlack ==
  ASSUME NEW h \in Heap, NEW M, NEW sub, NEW bh, NEW n \in M,
         RedBlack(h, M, sub, bh, n, NULL, 0), h.red[n],
         NEW p, h.parent[n] = p, p # NULL, h.red[p],
         NEW gp, h.parent[p] = gp, NEW pid, GetChildId(h, gp, p) = pid,
         NEW top, top = IF GetChildId(h, p, n) # pid THEN n ELSE p,
         NEW g, g = OuterGrandchild(h, n, p, gp, pid)
  PROVE  /\ g \in Heap /\ g.size = h.size
         /\ g.child[gp][pid] = top /\ g.child[gp][Opp(pid)] = h.child[gp][Opp(pid)]
         /\ g.red = h.red /\ gp \in M /\ top \in M
         /\ g = h \/ (h.child[p][Opp(pid)] # NULL /\ g = TreeRotate(h, p, pid))
         /\ \E sub2 \in [Nodes -> SUBSET Nodes], b2 \in [Nodes -> Nat], bot \in M :
              /\ RedBlack(g, M, sub2, b2, bot, NULL, 0)
              /\ g.parent[bot] = top /\ g.child[top][pid] = bot /\ g.red[bot] /\ g.red[top]
<1>1. Tree(h, M, sub) /\ NoRedPair(h, M, n) /\ Heights(h, M, bh, NULL, 0)
      /\ M \in SUBSET Nodes /\ bh \in [Nodes -> Nat] /\ n \in Nodes /\ n # NULL
  BY NullNotNode DEF RedBlack, Tree, Heights
<1>2. /\ p \in M /\ p # n /\ gp # NULL /\ gp \in M /\ gp # p /\ gp # n /\ ~ h.red[gp]
      /\ pid \in Side /\ h.child[gp][pid] = p /\ h.child[gp][Opp(pid)] # p
      /\ \E i \in Side : h.child[p][i] = n
  BY RedPairFacts
<1>3. CASE GetChildId(h, p, n) = pid
  <2>1. top = p /\ g = h
    BY <1>3 DEF OuterGrandchild
  <2>2. h.child[p][pid] = n
    BY <1>2, <1>3 DEF GetChildId, Side
  <2>3. sub \in [Nodes -> SUBSET Nodes]
    BY <1>1 DEF Tree
  <2> QED BY <1>1, <1>2, <2>1, <2>2, <2>3
<1>4. CASE GetChildId(h, p, n) # pid
  <2>1. top = n /\ g = ConnectChild(NodeRotate(h, p, pid), gp, h.child[p][Opp(pid)], pid)
    BY <1>4 DEF OuterGrandchild
  <2>2. h.child[p][Opp(pid)] = n /\ Opp(pid) \in Side
    <3>1. GetChildId(h, p, n) \in Side /\ h.child[p][GetChildId(h, p, n)] = n
      BY <1>2 DEF GetChildId, Side
    <3>2. GetChildId(h, p, n) = Opp(pid)
      BY <1>2, <1>4, <3>1, SideFacts
    <3> QED BY <3>1, <3>2
  <2> DEFINE f == NodeRotate(h, p, pid)
             r == TreeRotate(h, p, pid)
             s == RotateSub(h, p, pid, sub)
  <2>3. Rotated(r, h, p, pid, n) /\ Tree(r, M, s)
    BY <1>1, <1>2, <2>2, RotateTree
  <2>4. f \in Heap /\ f.child[gp][pid] = p /\ f.child[gp][Opp(pid)] # p
    <3>1. p \in Nodes /\ gp \in Nodes /\ h.child[p][Opp(pid)] \in Nodes /\ h.child[p][Opp(pid)] # p
      BY <1>1, <1>2, <2>2
    <3>2. f \in Heap /\ \A m \in Nodes, j \in Side :
            f.child[m][j] = IF m = n /\ j = pid THEN p
                            ELSE IF m = p /\ j = Opp(pid) THEN h.child[n][pid]
                            ELSE h.child[m][j]
      BY <1>2, <2>2, <3>1, NodeRotateFacts
    <3> QED BY <1>2, <2>2, <3>1, <3>2
  <2>5. g = r
    <3>1. GetChildId([f EXCEPT !.parent[n] = gp], gp, p) = pid
      <4>1. [f EXCEPT !.parent[n] = gp].child = f.child
        BY <2>4 DEF Heap
      <4>2. (f.child[gp][0] # p /\ pid = 1) \/ (f.child[gp][0] = p /\ pid = 0)
        BY <1>2, <2>4 DEF Side, Opp
      <4> HIDE DEF f
      <4> QED BY <4>1, <4>2 DEF GetChildId
    <3>2. r = [[f EXCEPT !.parent[n] = gp] EXCEPT !.child[gp][pid] = n]
      BY <1>2, <2>2, <3>1 DEF TreeRotate, ReplaceChild
    <3>3. g = [f EXCEPT !.parent[n] = gp, !.child[gp][pid] = n]
      BY <2>1, <2>2 DEF ConnectChild
    <3> QED BY <3>2, <3>3
  <2> HIDE DEF f, r, s
  <2>6. SameLinks(g, r) /\ g \in Heap /\ g.red = h.red /\ g.size = h.size
    BY <2>3, <2>5 DEF Rotated, SameLinks
  <2>7. /\ \A m \in Nodes : g.parent[m] = IF m = n THEN gp ELSE IF m = p THEN n
                                          ELSE IF m = h.child[n][pid] THEN p ELSE h.parent[m]
        /\ \A m \in Nodes, j \in Side :
             g.child[m][j] = IF m = n /\ j = pid THEN p
                             ELSE IF m = p /\ j = Opp(pid) THEN h.child[n][pid]
                             ELSE IF m = gp /\ h.child[m][j] = p THEN n
                             ELSE h.child[m][j]
    BY <2>3, <2>5 DEF Rotated
  <2>8. /\ g.child[gp][pid] = n /\ g.child[gp][Opp(pid)] = h.child[gp][Opp(pid)]
        /\ g.child[n][pid] = p /\ g.parent[p] = n
    <3>1. gp \in Nodes /\ p \in Nodes /\ n \in Nodes
      BY <1>1, <1>2
    <3>2. g.child[n][pid] = p /\ g.parent[p] = n
      BY <1>2, <2>7, <3>1
    <3>3. g.child[gp][pid] = n
      BY <1>2, <2>7, <3>1
    <3>4. g.child[gp][Opp(pid)] = h.child[gp][Opp(pid)]
      BY <1>2, <2>2, <2>7, <3>1
    <3> QED BY <3>2, <3>3, <3>4
  <2>9. h.child[n][pid] # NULL => ~ h.red[h.child[n][pid]]
    <3>1. h.child[n][pid] # NULL =>
            h.child[n][pid] \in M /\ h.parent[h.child[n][pid]] = n /\ h.child[n][pid] # n
      BY <1>1, <1>2, TreeLocal
    <3> QED BY <1>1, <3>1 DEF NoRedPair
  <2>10. /\ \A j \in Side : h.child[n][j] # NULL => ~ h.red[h.child[n][j]]
         /\ h.child[p][pid] # NULL => ~ h.red[h.child[p][pid]]
    <3>1. \A m \in M, j \in Side : h.child[m][j] # NULL =>
            h.child[m][j] \in M /\ h.parent[h.child[m][j]] = m /\ h.child[m][j] # m
            /\ h.child[m][j] # h.child[m][Opp(j)]
      BY <1>1, TreeLocal
    <3>2. h.child[p][pid] # NULL => h.child[p][pid] # n
      BY <1>2, <2>2, <3>1
    <3> QED BY <1>1, <1>2, <3>1, <3>2 DEF NoRedPair
  <2>11. NoRedPair(g, M, p)
    <3> SUFFICES ASSUME NEW m \in M, m # p, g.red[m]
                 PROVE  g.parent[m] # NULL /\ ~ g.red[g.parent[m]]
      BY DEF NoRedPair
    <3>1. CASE m = n
      BY <1>1, <1>2, <2>6, <2>7, <3>1
    <3>2. CASE m # n
      <4>1. m # h.child[n][pid] /\ h.red[m] /\ m \in Nodes
        BY <1>1, <2>6, <2>9, NullNotNode
      <4>2. g.parent[m] = h.parent[m]
        BY <2>7, <3>2, <4>1
      <4> QED BY <1>1, <2>6, <3>2, <4>1, <4>2 DEF NoRedPair
    <3> QED BY <3>1, <3>2
  <2> DEFINE b == [bh EXCEPT ![n] = bh[p]]
  <2>12. Heights(g, M, b, NULL, 0)
    <3>1. Own(g, p) = 0 /\ Own(g, n) = 0 /\ Own(h, p) = 0 /\ Own(h, n) = 0
      BY <2>6 DEF Own
    <3>2. \A m \in M, j \in Side : /\ Credit(m, j, NULL, 0) = 0
                                   /\ bh[m] = Own(h, m) + Height(bh, h.child[m][j]) + 0
                                   /\ Height(bh, h.child[m][j]) \in Nat
      <4>1. \A m \in M, j \in Side : Credit(m, j, NULL, 0) = 0
        BY <1>1, NullNotNode DEF Credit
      <4> QED BY <4>1, RedBlackLocal
    <3>3. bh[p] = Height(bh, h.child[p][pid]) /\ bh[p] = bh[n] /\ bh[p] \in Nat
      BY <1>1, <1>2, <2>2, <3>1, <3>2 DEF Height
    <3>4. bh[n] = Height(bh, h.child[n][pid]) /\ bh[n] = Height(bh, h.child[n][Opp(pid)])
      <4>1. bh[n] \in Nat /\ Opp(pid) \in Side
        BY <1>1, <2>2
      <4> QED BY <1>2, <3>1, <3>2, <4>1
    <3>5. \A m \in M \ {p, n} : g.red[m] = h.red[m]
      BY <2>6
    <3>7. b \in [Nodes -> Nat] /\ b[n] = bh[p] /\ b[p] = bh[p]
          /\ \A m \in M \ {p, n} : b[m] = bh[m]
      BY <1>1, <1>2, <3>3
    <3> HIDE DEF b
    <3>8. /\ b[p] = Own(g, p) + Height(bh, h.child[p][pid]) + Credit(p, pid, NULL, 0)
          /\ b[p] = Own(g, p) + Height(bh, h.child[n][pid]) + Credit(p, Opp(pid), NULL, 0)
          /\ b[n] = Own(g, n) + b[p] + Credit(n, pid, NULL, 0)
          /\ b[n] = Own(g, n) + Height(bh, h.child[n][Opp(pid)]) + Credit(n, Opp(pid), NULL, 0)
      BY <1>2, <2>2, <3>1, <3>2, <3>3, <3>4, <3>7
    <3>9. RotatedHeights(g, h, M, bh, NULL, 0, p, pid, n, b, NULL, 0)
      BY <3>3, <3>5, <3>7, <3>8 DEF RotatedHeights
    <3> QED BY <1>1, <1>2, <2>2, <2>3, <2>6, <3>9, RotateHeights
  <2>13. RedBlack(g, M, s, b, p, NULL, 0)
    BY <2>3, <2>5, <2>11, <2>12 DEF RedBlack
  <2>14. /\ s \in [Nodes -> SUBSET Nodes]
         /\ b \in [Nodes -> Nat]
    BY <2>13 DEF RedBlack, Tree, Heights
  <2>15. g.parent[p] = top /\ g.child[top][pid] = p /\ g.red[p] /\ g.red[top]
    BY <2>1, <2>6, <2>8
  <2>16. h.child[p][Opp(pid)] # NULL /\ g = TreeRotate(h, p, pid)
    BY <1>1, <2>2, <2>5 DEF r
  <2> QED BY <1>2, <2>1, <2>6, <2>8, <2>13, <2>14, <2>15, <2>16
<1> QED BY <1>3, <1>4

\* The rotation of the outer red pair above the grandparent ends the repair.
LEMMA RotateGrandparentRedBlack ==
  ASSUME NEW h \in Heap, NEW M, NEW sub, NEW bh, NEW n \in M,
         RedBlack(h, M, sub, bh, n, NULL, 0), h.red[n],
         NEW p, h.parent[n] = p, p # NULL, h.red[p],
         NEW gp, h.parent[p] = gp, NEW pid, GetChildId(h, gp, p) = pid,
         ~ IsRed(h, h.child[gp][Opp(pid)])
  PROVE  LET g == RotateGrandparent(h, n, p, gp, pid)
         IN  /\ g \in Heap /\ g.size = h.size
             /\ \E sub2 \in [Nodes -> SUBSET Nodes], b2 \in [Nodes -> Nat] :
                  RedBlack(g, M, sub2, b2, NULL, NULL, 0)
<1> DEFINE o == OuterGrandchild(h, n, p, gp, pid)
           top == IF GetChildId(h, p, n) # pid THEN n ELSE p
           r == TreeRotate(o, gp, Opp(pid))
           g == RotateGrandparent(h, n, p, gp, pid)
<1>1. g = [r EXCEPT !.red[top] = FALSE, !.red[gp] = TRUE]
  BY DEF RotateGrandparent
<1> HIDE DEF o, top, g
<1>2. /\ o \in Heap /\ o.size = h.size
      /\ o.child[gp][pid] = top /\ o.child[gp][Opp(pid)] = h.child[gp][Opp(pid)]
      /\ o.red = h.red /\ gp \in M /\ top \in M
      /\ \E sub2 \in [Nodes -> SUBSET Nodes], b2 \in [Nodes -> Nat], bot \in M :
           /\ RedBlack(o, M, sub2, b2, bot, NULL, 0)
           /\ o.parent[bot] = top /\ o.child[top][pid] = bot /\ o.red[bot] /\ o.red[top]
  BY OuterGrandchildRedBlack DEF o, top
<1>3. PICK sub2 \in [Nodes -> SUBSET Nodes], b2 \in [Nodes -> Nat], bot \in M :
           /\ RedBlack(o, M, sub2, b2, bot, NULL, 0)
           /\ o.parent[bot] = top /\ o.child[top][pid] = bot /\ o.red[bot] /\ o.red[top]
  BY <1>2
<1>4. pid \in Side /\ ~ h.red[gp] /\ Opp(pid) \in Side /\ Opp(Opp(pid)) = pid /\ Opp(pid) # pid
  BY RedPairFacts, SideFacts
<1>5. /\ Tree(o, M, sub2) /\ NoRedPair(o, M, bot) /\ Heights(o, M, b2, NULL, 0)
      /\ M \in SUBSET Nodes /\ NULL \notin M /\ gp # top
  BY <1>2, <1>3, <1>4, NullNotNode DEF RedBlack, Tree
<1>6. /\ Rotated(r, o, gp, Opp(pid), top)
      /\ Tree(r, M, RotateSub(o, gp, Opp(pid), sub2))
  <2>1. o.child[gp][Opp(Opp(pid))] = top /\ o.child[gp][Opp(Opp(pid))] # NULL
    BY <1>2, <1>4, <1>5
  <2> QED BY <1>2, <1>4, <1>5, <2>1, RotateTree
<1> HIDE DEF r
<1>7. /\ SameLinks(g, r)
      /\ \A m \in Nodes : g.red[m] = IF m = gp THEN TRUE ELSE IF m = top THEN FALSE ELSE o.red[m]
  <2>1. r \in Heap /\ r.red = o.red /\ gp \in Nodes /\ top \in Nodes
    BY <1>2, <1>5, <1>6 DEF Rotated
  <2>2. SameLinks(g, r)
    BY <1>1, <2>1 DEF Heap, SameLinks
  <2>3. \A m \in Nodes : g.red[m] = IF m = gp THEN TRUE ELSE IF m = top THEN FALSE ELSE r.red[m]
    BY <1>1, <2>1 DEF Heap
  <2> QED BY <2>1, <2>2, <2>3
<1>8. \A m \in M, j \in Side : o.child[m][j] # NULL =>
        /\ o.child[m][j] \in M /\ o.parent[o.child[m][j]] = m /\ o.child[m][j] # m
        /\ o.child[m][Opp(j)] # o.child[m][j]
  BY <1>2, <1>5, TreeLocal
<1> DEFINE i == Opp(pid)
           y == o.child[gp][i]
           x == o.child[top][i]
<1>9. /\ y # NULL => y \in M /\ y # gp /\ y # top /\ ~ g.red[y]
      /\ x # NULL => x \in M /\ x # gp /\ x # top /\ x # bot /\ ~ g.red[x]
  <2>1. y # NULL => y \in M /\ y # gp /\ y # top /\ ~ g.red[y]
    <3> SUFFICES ASSUME y # NULL PROVE y \in M /\ y # gp /\ y # top /\ ~ g.red[y]
      OBVIOUS
    <3>1. y \in M /\ y # gp /\ y # top
      BY <1>2, <1>4, <1>8
    <3>2. ~ h.red[y]
      BY <1>2 DEF IsRed
    <3> QED BY <1>2, <1>5, <1>7, <3>1, <3>2
  <2>2. x # NULL => x \in M /\ o.parent[x] = top /\ x # top /\ x # bot
    BY <1>2, <1>3, <1>4, <1>8
  <2>3. x # NULL => ~ o.red[x]
    BY <1>3, <1>5, <2>2 DEF NoRedPair
  <2>4. x # NULL => x # gp
    <3>1. o.parent[top] = gp
      BY <1>2, <1>4, <1>5, <1>8
    <3>2. o.child[top][i] # NULL => o.child[top][i] # o.parent[top]
      BY <1>2, <1>4, <1>5, TreeLocal
    <3> QED BY <3>1, <3>2
  <2> QED BY <1>5, <1>7, <2>1, <2>2, <2>3, <2>4
<1>10. \A m \in M \ {gp, top} : g.red[m] = o.red[m]
  BY <1>5, <1>7
<1>11. NoRedPair(g, M, NULL)
  <2>1. i \in Side /\ o.child[gp][Opp(i)] = top /\ Opp(i) = pid /\ o.child[top][Opp(i)] = bot
    BY <1>2, <1>3, <1>4
  <2>2. ~ g.red[top] /\ o.parent[bot] = top
    BY <1>2, <1>3, <1>5, <1>7
  <2>3. o \in Heap /\ Tree(o, M, sub2) /\ NoRedPair(o, M, bot) /\ gp \in M /\ top \in M
        /\ Rotated(r, o, gp, i, top) /\ SameLinks(g, r)
    BY <1>2, <1>5, <1>6, <1>7
  <2> HIDE DEF i
  <2> QED BY <1>9, <1>10, <2>1, <2>2, <2>3, RotateRedPairs
<1> DEFINE b == [b2 EXCEPT ![top] = b2[gp], ![gp] = b2[top]]
<1>12. Heights(g, M, b, NULL, 0)
  <2>1. Own(o, gp) = 1 /\ Own(o, top) = 0 /\ Own(g, gp) = 0 /\ Own(g, top) = 1
    BY <1>2, <1>3, <1>4, <1>5, <1>7 DEF Own
  <2>2. \A m \in M, j \in Side : /\ Credit(m, j, NULL, 0) = 0
                                 /\ b2[m] = Own(o, m) + Height(b2, o.child[m][j]) + 0
                                 /\ Height(b2, o.child[m][j]) \in Nat
    <3>1. \A m \in M, j \in Side : Credit(m, j, NULL, 0) = 0
      BY <1>5 DEF Credit
    <3> QED BY <1>2, <1>3, <3>1, RedBlackLocal
  <2>3. /\ i \in Side /\ Opp(i) = pid /\ o.child[gp][Opp(i)] = top
        /\ b2[top] \in Nat /\ b2[gp] \in Nat
        /\ Height(b2, o.child[gp][pid]) = b2[top]
    BY <1>2, <1>4, <1>5 DEF Height
  <2> HIDE DEF i, y, x
  <2>4. b2[gp] = 1 + b2[top] /\ Height(b2, o.child[gp][i]) = b2[top]
    <3>1. /\ b2[gp] = 1 + Height(b2, o.child[gp][pid]) + 0
          /\ b2[gp] = 1 + Height(b2, o.child[gp][i]) + 0
          /\ Height(b2, o.child[gp][i]) \in Nat
      BY <1>2, <1>4, <2>1, <2>2, <2>3
    <3> QED BY <2>3, <3>1
  <2>5. Height(b2, o.child[top][i]) = b2[top] /\ Height(b2, o.child[top][Opp(i)]) = b2[top]
    <3>1. \A j \in Side : b2[top] = 0 + Height(b2, o.child[top][j]) + 0
                          /\ Height(b2, o.child[top][j]) \in Nat
      BY <1>2, <2>1, <2>2
    <3>2. \A j \in Side : Height(b2, o.child[top][j]) = b2[top]
      BY <2>3, <3>1
    <3> QED BY <1>4, <2>3, <3>2
  <2>6. b \in [Nodes -> Nat] /\ b[top] = b2[gp] /\ b[gp] = b2[top]
        /\ \A m \in M \ {gp, top} : b[m] = b2[m]
    BY <1>2, <1>5, <2>3
  <2> HIDE DEF b
  <2>7. /\ b[gp] = Own(g, gp) + Height(b2, o.child[gp][i]) + Credit(gp, i, NULL, 0)
        /\ b[gp] = Own(g, gp) + Height(b2, o.child[top][i]) + Credit(gp, Opp(i), NULL, 0)
        /\ b[top] = Own(g, top) + b[gp] + Credit(top, i, NULL, 0)
        /\ b[top] = Own(g, top) + Height(b2, o.child[top][Opp(i)]) + Credit(top, Opp(i), NULL, 0)
    <3>1. \A j \in Side : Credit(gp, j, NULL, 0) = 0 /\ Credit(top, j, NULL, 0) = 0
      BY <1>2, <2>2
    <3>2. Opp(i) \in Side
      BY <1>4, <2>3
    <3> QED BY <2>1, <2>3, <2>4, <2>5, <2>6, <3>1, <3>2
  <2>8. o \in Heap /\ Tree(o, M, sub2) /\ gp \in M /\ top \in M
        /\ Rotated(r, o, gp, i, top) /\ SameLinks(g, r)
        /\ Heights(o, M, b2, NULL, 0)
    BY <1>2, <1>5, <1>6, <1>7 DEF i
  <2>9. RotatedHeights(g, o, M, b2, NULL, 0, gp, i, top, b, NULL, 0)
    BY <1>10, <2>6, <2>7 DEF RotatedHeights
  <2>10. i \in Side /\ o.child[gp][Opp(i)] = top
    BY <2>3
  <2> QED BY <2>8, <2>9, <2>10, RotateHeights
<1>13. Tree(g, M, RotateSub(o, gp, Opp(pid), sub2))
  BY <1>6, <1>7, SameTree
<1>14. RedBlack(g, M, RotateSub(o, gp, Opp(pid), sub2), b, NULL, NULL, 0)
  BY <1>11, <1>12, <1>13 DEF RedBlack
<1>15. g \in Heap /\ g.size = h.size
  BY <1>2, <1>6, <1>7 DEF SameLinks, Rotated
<1>16. RotateSub(o, gp, Opp(pid), sub2) \in [Nodes -> SUBSET Nodes] /\ b \in [Nodes -> Nat]
  BY <1>14 DEF RedBlack, Tree, Heights
<1> QED BY <1>14, <1>15, <1>16 DEF g

-----------------------------------------------------------------------------
(* eraseNode *)

\* get_child_id of a node of a tree is the side it hangs on.
LEMMA ChildIdFacts ==
  ASSUME NEW h \in Heap, NEW M, NEW sub, Tree(h, M, sub), NEW n \in M,
         NEW p, h.parent[n] = p, p # NULL, NEW i, GetChildId(h, p, n) = i
  PROVE  /\ p \in M /\ p # n
         /\ i \in Side /\ h.child[p][i] = n /\ h.child[p][Opp(i)] # n
<1>1. p \in M /\ p # n /\ \E j \in Side : h.child[p][j] = n /\ h.child[p][Opp(j)] # n
  BY TreeLocal
<1>2. i = IF h.child[p][0] # n THEN 1 ELSE 0
  BY DEF GetChildId
<1> QED BY <1>1, <1>2 DEF Side, Opp

\* Node n has no child but perhaps c.
OnlyChild(h, M, bh, n, c) ==
  /\ \E i \in Side : h.child[n][i] = c /\ h.child[n][Opp(i)] = NULL
  /\ \A j \in Side : h.child[n][j] = c \/ h.child[n][j] = NULL
  /\ c # NULL => /\ c \in M /\ c # n /\ h.parent[c] = n
                 /\ h.red[c] /\ ~ h.red[n] /\ bh[n] = bh[c] + 1
  /\ c = NULL => bh[n] = Own(h, n)

\* A node with at most one child has a red one, and is black then.
LEMMA SingleFacts ==
  ASSUME NEW h \in Heap, NEW M, NEW sub, NEW bh, NEW n \in M,
         RedBlack(h, M, sub, bh, NULL, NULL, 0), ~ IsDeg2(h, n)
  PROVE  OnlyChild(h, M, bh, n, Single(h, n))
<1> DEFINE c == Single(h, n)
<1>1. Tree(h, M, sub) /\ NoRedPair(h, M, NULL) /\ bh \in [Nodes -> Nat] /\ n # NULL
      /\ M \in SUBSET Nodes /\ NULL \notin M
  BY NullNotNode DEF RedBlack, Tree, Heights
<1>2. \E i \in Side : h.child[n][i] = c /\ h.child[n][Opp(i)] = NULL
  BY DEF Single, IsDeg2, Side, Opp
<1> HIDE DEF c
<1>3. \A j \in Side : h.child[n][j] = c \/ h.child[n][j] = NULL
  BY <1>2, SideFacts
<1>4. \A m \in M, j \in Side : bh[m] = Own(h, m) + Height(bh, h.child[m][j]) + 0
  <2>1. \A m \in M, j \in Side : Credit(m, j, NULL, 0) = 0
    BY <1>1 DEF Credit
  <2> QED BY <2>1, RedBlackLocal
<1>5. bh[n] = Own(h, n)
  <2>1. PICK j \in Side : h.child[n][j] = NULL
    BY <1>2, SideFacts
  <2>2. bh[n] = Own(h, n) + Height(bh, NULL) + 0
    BY <1>4, <2>1
  <2> QED BY <2>2 DEF Height, Own
<1>6. ASSUME c # NULL
      PROVE  /\ c \in M /\ c # n /\ h.parent[c] = n
             /\ h.red[c] /\ ~ h.red[n] /\ bh[n] = bh[c] + 1
  <2>1. PICK i \in Side : h.child[n][i] = c
    BY <1>2
  <2>2. c \in M /\ c # n /\ h.parent[c] = n
    BY <1>1, <1>6, <2>1, TreeLocal
  <2>3. bh[n] = Own(h, n) + bh[c] + 0
    <3>1. Height(bh, c) = bh[c]
      BY <1>6 DEF Height
    <3> QED BY <1>4, <2>1, <3>1
  <2>4. bh[c] = 0
    BY <1>1, <1>5, <2>2, <2>3 DEF Own
  <2>5. h.red[c]
    <3>1. Height(bh, h.child[c][0]) \in Nat /\ bh[c] = Own(h, c) + Height(bh, h.child[c][0]) + 0
      BY <1>4, <2>2, RedBlackLocal DEF Side
    <3>2. Own(h, c) \in Nat
      BY DEF Own
    <3>3. Own(h, c) = 0
      BY <2>4, <3>1, <3>2
    <3> QED BY <3>3 DEF Own
  <2>6. ~ h.red[n]
    BY <1>1, <2>2, <2>5 DEF NoRedPair
  <2>7. bh[n] = bh[c] + 1
    BY <1>5, <2>4, <2>6 DEF Own
  <2> QED BY <2>2, <2>5, <2>6, <2>7
<1> QED BY <1>2, <1>3, <1>5, <1>6 DEF OnlyChild, c

\* The colours after node n is taken out, whose only child, if any, is c.
PrunedColours(g, h, M, n, c) ==
  \A m \in M \ {n} : IF m = c THEN ~ g.red[m] ELSE g.red[m] = h.red[m]

\* A black node is missing on the side s of q, if q is a node.
MissingAfter(h, n, c, p, q, s) ==
  IF c = NULL /\ ~ h.red[n] THEN q = p /\ s = GetChildId(h, p, n) ELSE q = NULL

\* Taking out a node with at most one child, which becomes or stays black,
\* leaves a place one black node short only where a black leaf was.
LEMMA PruneRedBlack ==
  ASSUME NEW h \in Heap, NEW M, NEW sub, NEW bh, NEW n \in M,
         RedBlack(h, M, sub, bh, NULL, NULL, 0), ~ IsDeg2(h, n),
         NEW c, Single(h, n) = c, NEW p, h.parent[n] = p,
         NEW g, Pruned(g, h, n, c),
         PrunedColours(g, h, M, n, c), NEW q, NEW s, MissingAfter(h, n, c, p, q, s)
  PROVE  \E sub2 \in [Nodes -> SUBSET Nodes], b2 \in [Nodes -> Nat] :
           RedBlack(g, M \ {n}, sub2, b2, NULL, q, s)
<1>1. Tree(h, M, sub) /\ NoRedPair(h, M, NULL) /\ bh \in [Nodes -> Nat] /\ n # NULL
      /\ M \in SUBSET Nodes /\ NULL \notin M
  BY NullNotNode DEF RedBlack, Tree, Heights
<1>2. /\ \E i \in Side : h.child[n][i] = c /\ h.child[n][Opp(i)] = NULL
      /\ \A j \in Side : h.child[n][j] = c \/ h.child[n][j] = NULL
      /\ c # NULL => /\ c \in M /\ c # n /\ h.parent[c] = n
                     /\ h.red[c] /\ ~ h.red[n] /\ bh[n] = bh[c] + 1
      /\ c = NULL => bh[n] = Own(h, n)
  <2>1. OnlyChild(h, M, bh, n, Single(h, n))
    BY SingleFacts
  <2>2. OnlyChild(h, M, bh, n, c)
    BY <2>1
  <2> QED BY <2>2 DEF OnlyChild
<1> SUFFICES
      ASSUME \A m \in M \ {n} : IF m = c THEN ~ g.red[m] ELSE g.red[m] = h.red[m],
             IF c = NULL /\ ~ h.red[n] THEN q = p /\ s = GetChildId(h, p, n) ELSE q = NULL
      PROVE  \E sub2 \in [Nodes -> SUBSET Nodes], b2 \in [Nodes -> Nat] :
               RedBlack(g, M \ {n}, sub2, b2, NULL, q, s)
  BY DEF PrunedColours, MissingAfter
<1>3. Tree(g, M \ {n}, PruneSub(sub, n))
  <2>1. PICK i \in Side : h.child[n][i] = c /\ h.child[n][Opp(i)] = NULL
    BY <1>2
  <2>2. Pruned(g, h, n, h.child[n][i])
    BY <2>1
  <2> QED BY <1>1, <2>1, <2>2, PruneTree
<1>4. /\ \A m \in M \ {n} : g.parent[m] = IF m = c THEN p ELSE h.parent[m]
      /\ \A m \in M \ {n}, j \in Side :
           g.child[m][j] = IF m = p /\ h.child[m][j] = n THEN c ELSE h.child[m][j]
  BY <1>1 DEF Pruned
<1>5. \A m \in M : h.parent[m] # NULL =>
        h.parent[m] \in M /\ \E j \in Side : h.child[h.parent[m]][j] = m
  BY <1>1 DEF Tree, Linked
<1>6. \A m \in M, j \in Side : h.child[m][j] # NULL =>
        h.child[m][j] \in M /\ h.parent[h.child[m][j]] = m /\ h.child[m][j] # m
  BY <1>1, TreeLocal
<1>7. NoRedPair(g, M \ {n}, NULL)
  <2> SUFFICES ASSUME NEW m \in M \ {n}, g.red[m]
               PROVE  g.parent[m] # NULL /\ ~ g.red[g.parent[m]]
    BY DEF NoRedPair
  <2>1. m # c /\ h.red[m] /\ g.parent[m] = h.parent[m] /\ m # NULL
    BY <1>1, <1>4
  <2>2. h.parent[m] # NULL /\ ~ h.red[h.parent[m]] /\ h.parent[m] \in M
    BY <1>1, <1>5, <2>1 DEF NoRedPair
  <2>3. h.parent[m] # n
    BY <1>2, <1>5, <2>1, <2>2
  <2>4. ~ g.red[h.parent[m]]
    BY <2>2, <2>3
  <2> QED BY <2>1, <2>2, <2>4
<1> DEFINE b == [m \in Nodes |-> IF m = c THEN bh[m] + 1 ELSE bh[m]]
<1>8. /\ b \in [Nodes -> Nat] /\ \A m \in M \ {c} : b[m] = bh[m]
      /\ c # NULL => b[c] = bh[c] + 1
  <2>1. b \in [Nodes -> Nat]
    BY <1>1
  <2>2. \A m \in M \ {c} : b[m] = bh[m]
    BY <1>1
  <2>3. c # NULL => b[c] = bh[c] + 1
    BY <1>1, <1>2
  <2> QED BY <2>1, <2>2, <2>3
<1> HIDE DEF b
<1>9. \A m \in M, j \in Side : /\ bh[m] = Own(h, m) + Height(bh, h.child[m][j]) + 0
                               /\ Height(bh, h.child[m][j]) \in Nat
  <2>1. \A m \in M, j \in Side : Credit(m, j, NULL, 0) = 0
    BY <1>1 DEF Credit
  <2> QED BY <2>1, RedBlackLocal
<1>10. Heights(g, M \ {n}, b, q, s)
  <2> SUFFICES ASSUME NEW m \in M \ {n}, NEW j \in Side
               PROVE  b[m] = Own(g, m) + Height(b, g.child[m][j]) + Credit(m, j, q, s)
    BY <1>8 DEF Heights
  <2>1. b[m] + Own(h, m) = bh[m] + Own(g, m) /\ Own(g, m) \in Nat /\ Own(h, m) \in Nat
    <3>1. CASE m = c
      BY <1>1, <1>2, <1>8, <3>1 DEF Own
    <3>2. CASE m # c
      BY <1>1, <1>8, <3>2 DEF Own
    <3> QED BY <3>1, <3>2
  <2>2. CASE h.child[m][j] = n
    <3>1. m = p /\ g.child[m][j] = c /\ j = GetChildId(h, p, n) /\ p # NULL
      <4>1. m = p /\ p # NULL
        BY <1>1, <1>6, <2>2
      <4>2. g.child[m][j] = c
        BY <1>4, <2>2, <4>1
      <4>3. GetChildId(h, p, n) \in Side /\ h.child[p][Opp(GetChildId(h, p, n))] # n
        BY <1>1, <4>1, ChildIdFacts
      <4>4. j = GetChildId(h, p, n)
        BY <2>2, <4>1, <4>3, SideFacts
      <4> QED BY <4>1, <4>2, <4>4
    <3>2. Height(bh, n) = bh[n]
      BY <1>1 DEF Height
    <3>3. bh[n] = Height(b, c) + Credit(m, j, q, s)
      <4>1. CASE c # NULL
        <5>1. Height(b, c) = bh[n] /\ q = NULL
          BY <1>2, <1>8, <4>1 DEF Height
        <5>2. Credit(m, j, q, s) = 0
          BY <1>1, <5>1 DEF Credit
        <5> QED BY <1>1, <5>1, <5>2
      <4>2. CASE c = NULL /\ h.red[n]
        <5>1. Height(b, c) = 0 /\ bh[n] = 0 /\ q = NULL
          BY <1>2, <4>2 DEF Height, Own
        <5>2. Credit(m, j, q, s) = 0
          BY <1>1, <5>1 DEF Credit
        <5> QED BY <5>1, <5>2
      <4>3. CASE c = NULL /\ ~ h.red[n]
        <5>1. Height(b, c) = 0 /\ bh[n] = 1 /\ q = p /\ s = GetChildId(h, p, n)
          BY <1>2, <4>3 DEF Height, Own
        <5>2. Credit(m, j, q, s) = 1
          BY <3>1, <5>1 DEF Credit
        <5> QED BY <5>1, <5>2
      <4> QED BY <4>1, <4>2, <4>3
    <3>4. Height(b, c) \in Nat /\ Credit(m, j, q, s) \in Nat
      BY <1>1, <1>2, <1>8 DEF Height, Credit
    <3>5. bh[m] = Own(h, m) + bh[n] + 0 /\ bh[m] \in Nat /\ b[m] \in Nat
      BY <1>1, <1>8, <1>9, <2>2, <3>2
    <3>6. b[m] = Own(g, m) + bh[n]
      BY <1>1, <2>1, <3>5
    <3>7. b[m] = Own(g, m) + (Height(b, c) + Credit(m, j, q, s))
      BY <3>3, <3>6
    <3>8. b[m] = Own(g, m) + Height(b, c) + Credit(m, j, q, s)
      BY <2>1, <3>4, <3>7
    <3> QED BY <3>1, <3>8
  <2>3. CASE h.child[m][j] # n
    <3>1. g.child[m][j] = h.child[m][j]
      BY <1>4, <2>3
    <3>2. Height(b, h.child[m][j]) = Height(bh, h.child[m][j])
      <4>1. h.child[m][j] # NULL => h.child[m][j] # c /\ h.child[m][j] \in M
        BY <1>2, <1>6
      <4> QED BY <1>8, <4>1 DEF Height
    <3>3. Credit(m, j, q, s) = 0
      <4>1. CASE q = NULL
        BY <1>1, <4>1 DEF Credit
      <4>2. CASE q # NULL
        <5>1. q = p /\ s = GetChildId(h, p, n)
          BY <4>2
        <5>2. h.child[p][s] = n
          BY <1>1, <4>2, <5>1, ChildIdFacts
        <5> QED BY <2>3, <5>1, <5>2 DEF Credit
      <4> QED BY <4>1, <4>2
    <3>4. /\ bh[m] = Own(h, m) + Height(bh, h.child[m][j]) + 0
          /\ Height(bh, h.child[m][j]) \in Nat /\ bh[m] \in Nat /\ b[m] \in Nat
      BY <1>1, <1>8, <1>9
    <3>5. b[m] = Own(g, m) + Height(bh, h.child[m][j]) + 0
      BY <2>1, <3>4
    <3> QED BY <3>1, <3>2, <3>3, <3>5
  <2> QED BY <2>2, <2>3
<1>11. RedBlack(g, M \ {n}, PruneSub(sub, n), b, NULL, q, s)
  BY <1>3, <1>7, <1>10 DEF RedBlack
<1>12. PruneSub(sub, n) \in [Nodes -> SUBSET Nodes]
  BY <1>3 DEF Tree
<1> QED BY <1>8, <1>11, <1>12

\* The statements of eraseNode that take the node out do that.
LEMMA ReplaceRootPruned ==
  ASSUME NEW h \in Heap, NEW M \in SUBSET Nodes, NEW n \in Nodes, h.parent[n] = NULL,
         NEW c \in NodeOrNull
  PROVE  LET g == ReplaceRoot(h, c)
         IN  /\ Pruned(g, h, n, c) /\ g.size = h.size
             /\ PrunedColours(g, h, M, n, c)
<1> DEFINE g == ReplaceRoot(h, c)
<1>1. CASE c = NULL
  <2>1. g = [h EXCEPT !.root = NULL]
    BY <1>1 DEF ReplaceRoot
  <2>2. g \in Heap /\ g.root = NULL /\ g.size = h.size /\ g.parent = h.parent
        /\ g.child = h.child /\ g.red = h.red
    BY <2>1 DEF Heap, NodeOrNull
  <2>3. PrunedColours(g, h, M, n, c)
    BY <1>1, <2>2, NullNotNode DEF PrunedColours
  <2> HIDE DEF g
  <2>4. Pruned(g, h, n, c)
    BY <1>1, <2>2, NullNotNode, HeapFacts DEF Pruned
  <2> QED BY <2>2, <2>3, <2>4 DEF g
<1>2. CASE c # NULL
  <2>1. c \in Nodes
    BY <1>2 DEF NodeOrNull
  <2> DEFINE f == [h EXCEPT !.parent[c] = NULL]
             k == [f EXCEPT !.root = c]
  <2>2. f \in Heap /\ f.size = h.size /\ f.child = h.child /\ f.red = h.red
        /\ \A m \in Nodes : f.parent[m] = IF m = c THEN NULL ELSE h.parent[m]
    BY <2>1 DEF Heap, NodeOrNull
  <2> HIDE DEF f
  <2>3. k \in Heap /\ k.size = f.size /\ k.child = f.child /\ k.red = f.red
        /\ k.parent = f.parent /\ k.root = c
    BY <2>1, <2>2 DEF Heap, NodeOrNull
  <2>4. g = SetRed(k, c, FALSE)
    BY <1>2 DEF ReplaceRoot, MakeRoot, SetRed, f
  <2> HIDE DEF k, g
  <2>5. /\ SameLinks(g, k)
        /\ \A m \in Nodes : g.red[m] = IF m = c THEN FALSE ELSE k.red[m]
    <3>1. k \in Heap /\ c \in Nodes /\ FALSE \in BOOLEAN
      BY <2>1, <2>3
    <3>2. SameLinks(SetRed(k, c, FALSE), k)
      BY <3>1, SetRedFacts
    <3>3. \A m \in Nodes : SetRed(k, c, FALSE).red[m] = IF m = c THEN FALSE ELSE k.red[m]
      BY <3>1, SetRedFacts
    <3> QED BY <2>4, <3>2, <3>3
  <2>6. /\ g \in Heap /\ g.size = k.size /\ g.child = k.child
        /\ g.parent = k.parent /\ g.root = k.root
    BY <2>5 DEF SameLinks
  <2>7. \A m \in Nodes : g.parent[m] = IF m = c THEN h.parent[n] ELSE h.parent[m]
    BY <2>2, <2>3, <2>6
  <2>8. \A m \in Nodes, j \in Side : g.child[m][j] = h.child[m][j] /\ m # h.parent[n]
    BY <2>2, <2>3, <2>6, NullNotNode
  <2>9. g.root = c /\ g.size = h.size
    BY <2>2, <2>3, <2>6
  <2>10. PrunedColours(g, h, M, n, c)
    BY <2>2, <2>3, <2>5 DEF PrunedColours
  <2>11. Pruned(g, h, n, c)
    BY <2>6, <2>7, <2>8, <2>9 DEF Pruned
  <2> QED BY <2>9, <2>10, <2>11 DEF g
<1> QED BY <1>1, <1>2

\* So does linking the child, or nothing, below the parent.
LEMMA ConnectPruned ==
  ASSUME NEW h \in Heap, NEW M, NEW sub, Tree(h, M, sub), NEW n \in M,
         NEW p, h.parent[n] = p, p # NULL, NEW c \in NodeOrNull, c # n,
         NEW g, ConnectChildAuto(h, p, c, GetChildId(h, p, n)) = g
  PROVE  Pruned(g, h, n, c) /\ g.size = h.size /\ g.red = h.red
<1> DEFINE i == GetChildId(h, p, n)
<1>1. p \in M /\ p # n /\ i \in Side /\ h.child[p][i] = n /\ h.child[p][Opp(i)] # n
  BY ChildIdFacts
<1>2. p \in Nodes /\ g = ConnectChildAuto(h, p, c, i)
  BY <1>1 DEF Tree
<1> HIDE DEF i
<1>3. /\ g \in Heap
      /\ g.root = h.root /\ g.size = h.size /\ g.red = h.red
  BY <1>1, <1>2, ConnectChildAutoFacts
<1>4. \A m \in Nodes : g.parent[m] = IF m = c THEN p ELSE h.parent[m]
  BY <1>1, <1>2, ConnectChildAutoFacts
<1>5. \A m \in Nodes, j \in Side :
        g.child[m][j] = IF m = p /\ j = i THEN c ELSE h.child[m][j]
  BY <1>1, <1>2, ConnectChildAutoFacts
<1>6. \A j \in Side : j = i <=> h.child[p][j] = n
  BY <1>1, SideFacts
<1> QED BY <1>3, <1>4, <1>5, <1>6 DEF Pruned

\* The colours go with the places.
LEMMA SwapNodeRedBlack ==
  ASSUME NEW h \in Heap, NEW M, NEW sub, NEW bh,
         RedBlack(h, M, sub, bh, NULL, NULL, 0),
         NEW a \in M, NEW b \in M, b # a, b \in sub[a]
  PROVE  LET g == SwapNode(h, a, b)
         IN  /\ g \in Heap /\ g.size = h.size
             /\ \E sub2 \in [Nodes -> SUBSET Nodes], b2 \in [Nodes -> Nat] :
                  RedBlack(g, M, sub2, b2, NULL, NULL, 0)
             /\ \A j \in Side : h.child[b][j] = NULL => g.child[a][j] = NULL
<1> DEFINE g == SwapNode(h, a, b)
           e(x) == Exchange(a, b, x)
           k == [m \in Nodes |-> bh[e(m)]]
<1>1. /\ Tree(h, M, sub) /\ NoRedPair(h, M, NULL) /\ bh \in [Nodes -> Nat]
      /\ M \in SUBSET Nodes /\ NULL \notin M
  BY NullNotNode DEF RedBlack, Tree, Heights
<1>2. /\ Exchanged(g, h, M, a, b) /\ g.size = h.size
      /\ \A m \in Nodes : g.red[m] = h.red[e(m)]
  BY <1>1, SwapNodeFacts
<1>3. Tree(g, M, ExchangeSub(sub, a, b))
  BY <1>1, <1>2, ExchangeTree
<1>4. /\ \A x : e(e(x)) = x
      /\ \A x : e(x) \in M <=> x \in M
      /\ \A x : e(x) \in Nodes <=> x \in Nodes
      /\ \A x : e(x) = NULL <=> x = NULL
  BY <1>1 DEF Exchange
<1>5. k \in [Nodes -> Nat] /\ \A m \in Nodes : k[m] = bh[e(m)]
  <2>1. \A m \in Nodes : bh[e(m)] \in Nat
    BY <1>1, <1>4
  <2> QED BY <2>1
<1> HIDE DEF g, e, k
<1>6. /\ g \in Heap
      /\ \A m \in M : g.parent[m] = e(h.parent[e(m)])
      /\ \A m \in M, j \in Side : g.child[m][j] = e(h.child[e(m)][j])
  BY <1>2 DEF Exchanged, e
<1>7. NoRedPair(g, M, NULL)
  <2> SUFFICES ASSUME NEW m \in M, g.red[m]
               PROVE  g.parent[m] # NULL /\ ~ g.red[g.parent[m]]
    BY DEF NoRedPair
  <2>1. e(m) \in M /\ e(m) # NULL /\ h.red[e(m)]
    BY <1>1, <1>2, <1>4
  <2>2. h.parent[e(m)] # NULL /\ ~ h.red[h.parent[e(m)]] /\ h.parent[e(m)] \in M
    BY <1>1, <2>1 DEF NoRedPair, Tree, Linked
  <2>3. e(h.parent[e(m)]) \in Nodes /\ e(h.parent[e(m)]) # NULL
    BY <1>1, <1>4, <2>2
  <2> QED BY <1>2, <1>4, <1>6, <2>2, <2>3
<1>8. Heights(g, M, k, NULL, 0)
  <2> SUFFICES ASSUME NEW m \in M, NEW j \in Side
               PROVE  k[m] = Own(g, m) + Height(k, g.child[m][j]) + Credit(m, j, NULL, 0)
    BY <1>5 DEF Heights
  <2>1. e(m) \in M
    BY <1>4
  <2>2. bh[e(m)] = Own(h, e(m)) + Height(bh, h.child[e(m)][j]) + Credit(e(m), j, NULL, 0)
    BY <2>1, RedBlackLocal
  <2>3. k[m] = bh[e(m)] /\ Own(g, m) = Own(h, e(m))
    BY <1>1, <1>2, <1>5 DEF Own
  <2>4. Height(k, g.child[m][j]) = Height(bh, h.child[e(m)][j])
    <3>1. h.child[e(m)][j] = NULL \/ h.child[e(m)][j] \in Nodes
      BY <1>1, <2>1, HeapFacts DEF NodeOrNull
    <3>2. g.child[m][j] = e(h.child[e(m)][j])
      BY <1>6
    <3> QED BY <1>4, <1>5, <3>1, <3>2 DEF Height
  <2>5. Credit(e(m), j, NULL, 0) = 0 /\ Credit(m, j, NULL, 0) = 0
    BY <1>1, <2>1 DEF Credit
  <2> QED BY <2>2, <2>3, <2>4, <2>5
<1>9. \A j \in Side : h.child[b][j] = NULL => g.child[a][j] = NULL
  <2>1. e(a) = b
    BY DEF e, Exchange
  <2> QED BY <1>4, <1>6, <2>1
<1>10. RedBlack(g, M, ExchangeSub(sub, a, b), k, NULL, NULL, 0)
  BY <1>3, <1>7, <1>8 DEF RedBlack
<1>11. ExchangeSub(sub, a, b) \in [Nodes -> SUBSET Nodes]
  BY <1>3 DEF Tree
<1> QED BY <1>2, <1>5, <1>6, <1>9, <1>10, <1>11 DEF g

-----------------------------------------------------------------------------
(* eraseNodeNormalise; cur is its P. *)

\* The missing black node has a sibling.
LEMMA SiblingFacts ==
  ASSUME NEW h \in Heap, NEW M, NEW sub, NEW bh, NEW x,
         RedBlack(h, M, sub, bh, x, cur, side), cur \in M, side \in Side,
         NEW s, Sibling(h) = s
  PROVE  /\ s \in M /\ s # cur /\ h.parent[s] = cur
         /\ h.child[cur][Opp(side)] = s
         /\ \A i \in Side : h.child[s][i] # NULL =>
              /\ h.child[s][i] \in M /\ h.parent[h.child[s][i]] = s
              /\ h.child[s][i] # s /\ h.child[s][i] # cur
         /\ h.child[cur][side] # NULL =>
              /\ h.child[cur][side] \in M /\ h.parent[h.child[cur][side]] = cur
              /\ h.child[cur][side] # s /\ h.child[cur][side] # cur
<1>1. Tree(h, M, sub) /\ bh \in [Nodes -> Nat] /\ M \in SUBSET Nodes /\ NULL \notin M
  BY NullNotNode DEF RedBlack, Tree, Heights
<1>2. Opp(side) \in Side /\ Opp(side) # side /\ Opp(Opp(side)) = side
  BY SideFacts
<1>3. h.child[cur][Opp(side)] = s
  BY DEF Sibling
<1>4. s # NULL
  <2> SUFFICES ASSUME s = NULL PROVE FALSE
    OBVIOUS
  <2>1. /\ bh[cur] = Own(h, cur) + Height(bh, h.child[cur][side]) + Credit(cur, side, cur, side)
        /\ Height(bh, h.child[cur][side]) \in Nat
    BY RedBlackLocal
  <2>2. bh[cur] = Own(h, cur) + Height(bh, s) + Credit(cur, Opp(side), cur, side)
    BY <1>2, <1>3, RedBlackLocal
  <2>3. Height(bh, s) = 0
    BY DEF Height
  <2>4. Credit(cur, side, cur, side) = 1 /\ Credit(cur, Opp(side), cur, side) = 0
    BY <1>2 DEF Credit
  <2>5. Own(h, cur) \in Nat
    BY DEF Own
  <2> QED BY <2>1, <2>2, <2>3, <2>4, <2>5
<1>5. \A m \in M, i \in Side : h.child[m][i] # NULL =>
        /\ h.child[m][i] \in M /\ h.parent[h.child[m][i]] = m
        /\ h.child[m][i] # m /\ h.child[m][i] # h.parent[m]
        /\ h.child[m][Opp(i)] # h.child[m][i]
  BY <1>1, TreeLocal
<1>6. s \in M /\ s # cur /\ h.parent[s] = cur
  BY <1>2, <1>3, <1>4, <1>5
<1>7. \A i \in Side : h.child[s][i] # NULL =>
              /\ h.child[s][i] \in M /\ h.parent[h.child[s][i]] = s
              /\ h.child[s][i] # s /\ h.child[s][i] # cur
  BY <1>5, <1>6
<1>8. h.child[cur][side] # NULL =>
              /\ h.child[cur][side] \in M /\ h.parent[h.child[cur][side]] = cur
              /\ h.child[cur][side] # s /\ h.child[cur][side] # cur
  BY <1>2, <1>3, <1>5
<1> QED BY <1>3, <1>6, <1>7, <1>8

\* The black heights of the sibling and of its children.
LEMMA SiblingHeights ==
  ASSUME NEW h \in Heap, NEW M, NEW sub, NEW bh, NEW x,
         RedBlack(h, M, sub, bh, x, cur, side), cur \in M, side \in Side,
         NEW s, Sibling(h) = s
  PROVE  /\ bh \in [Nodes -> Nat] /\ bh[cur] \in Nat /\ bh[s] \in Nat
         /\ Height(bh, h.child[cur][side]) \in Nat
         /\ bh[cur] = Own(h, cur) + Height(bh, h.child[cur][side]) + 1
         /\ bh[cur] = Own(h, cur) + bh[s]
         /\ bh[s] = Height(bh, h.child[cur][side]) + 1
         /\ \A i \in Side : /\ bh[s] = Own(h, s) + Height(bh, h.child[s][i])
                            /\ Height(bh, h.child[s][i]) \in Nat
         /\ \A m \in M, i \in Side : m # cur =>
              /\ bh[m] = Own(h, m) + Height(bh, h.child[m][i])
              /\ Height(bh, h.child[m][i]) \in Nat
<1>1. /\ s \in M /\ s # cur /\ h.child[cur][Opp(side)] = s
      /\ M \in SUBSET Nodes /\ NULL \notin M /\ bh \in [Nodes -> Nat]
  <2>1. s \in M /\ s # cur /\ h.child[cur][Opp(side)] = s
    BY SiblingFacts
  <2> QED BY <2>1, NullNotNode DEF RedBlack, Tree, Heights
<1>2. Opp(side) \in Side /\ Opp(side) # side
  BY SideFacts
<1>3. \A m \in M, i \in Side :
        /\ bh[m] = Own(h, m) + Height(bh, h.child[m][i]) + Credit(m, i, cur, side)
        /\ Height(bh, h.child[m][i]) \in Nat
  BY RedBlackLocal
<1>4. Credit(cur, side, cur, side) = 1 /\ Credit(cur, Opp(side), cur, side) = 0
  BY <1>2 DEF Credit
<1>5. \A m \in M : Own(h, m) \in Nat
  BY DEF Own
<1>6. /\ bh[cur] = Own(h, cur) + Height(bh, h.child[cur][side]) + 1
      /\ Height(bh, h.child[cur][side]) \in Nat
  BY <1>3, <1>4
<1>7. bh[cur] = Own(h, cur) + bh[s]
  <2>1. bh[cur] = Own(h, cur) + Height(bh, s) + 0
    BY <1>1, <1>2, <1>3, <1>4
  <2>2. Height(bh, s) = bh[s]
    BY <1>1 DEF Height
  <2> QED BY <1>1, <1>5, <2>1, <2>2
<1>8. bh[s] = Height(bh, h.child[cur][side]) + 1
  BY <1>1, <1>5, <1>6, <1>7
<1>9. \A m \in M, i \in Side : m # cur =>
        /\ bh[m] = Own(h, m) + Height(bh, h.child[m][i])
        /\ Height(bh, h.child[m][i]) \in Nat
  <2> SUFFICES ASSUME NEW m \in M, NEW i \in Side, m # cur
               PROVE  bh[m] = Own(h, m) + Height(bh, h.child[m][i])
    BY <1>3
  <2>1. Credit(m, i, cur, side) = 0
    BY DEF Credit
  <2>2. bh[m] = Own(h, m) + Height(bh, h.child[m][i]) + 0
    BY <1>3, <2>1
  <2> QED BY <1>3, <1>5, <2>2
<1> QED BY <1>1, <1>6, <1>7, <1>8, <1>9

\* Case 2: the sibling is black from here on.
LEMMA BlackSiblingRedBlack ==
  ASSUME NEW h \in Heap, NEW M, NEW sub, NEW bh,
         RedBlack(h, M, sub, bh, NULL, cur, side), cur \in M, side \in Side,
         ~ IsRed(h, h.child[cur][side])
  PROVE  LET g == BlackSibling(h)
         IN  /\ g \in Heap /\ g.size = h.size
             /\ ~ g.red[Sibling(g)]
             /\ ~ IsRed(g, g.child[cur][side])
             /\ \E sub2 \in [Nodes -> SUBSET Nodes], b2 \in [Nodes -> Nat] :
                  RedBlack(g, M, sub2, b2, NULL, cur, side)
<1> DEFINE s == Sibling(h)
           r == TreeRotate(h, cur, side)
           k == SetRed(r, cur, TRUE)
           g == SetRed(k, s, FALSE)
           y == h.child[s][side]
           z == h.child[cur][side]
<1> HIDE DEF s
<1>1. /\ Tree(h, M, sub) /\ NoRedPair(h, M, NULL) /\ Heights(h, M, bh, cur, side)
      /\ M \in SUBSET Nodes /\ NULL \notin M
  BY NullNotNode DEF RedBlack, Tree
<1>2. /\ s \in M /\ s # cur /\ h.parent[s] = cur
      /\ h.child[cur][Opp(side)] = s
      /\ y # NULL => y \in M /\ y # s /\ y # cur /\ h.parent[y] = s
      /\ z # NULL => z \in M /\ z # s /\ z # cur
  <2>1. Sibling(h) = s
    BY DEF s
  <2> QED BY <2>1, SiblingFacts
<1>3. CASE ~ h.red[s]
  <2>1. BlackSibling(h) = h
    BY <1>3 DEF BlackSibling, s
  <2>2. sub \in [Nodes -> SUBSET Nodes] /\ bh \in [Nodes -> Nat]
    BY <1>1 DEF Tree, Heights
  <2> QED BY <1>3, <2>1, <2>2 DEF s
<1>4. CASE h.red[s]
  <2>1. BlackSibling(h) = g
    BY <1>4 DEF BlackSibling, SetRed, s
  <2>2. ~ h.red[cur]
    BY <1>1, <1>2, <1>4 DEF NoRedPair
  <2>3. Rotated(r, h, cur, side, s) /\ Tree(r, M, RotateSub(h, cur, side, sub))
    BY <1>1, <1>2, RotateTree
  <2> HIDE DEF r
  <2>4. r \in Heap /\ r.red = h.red /\ r.size = h.size
    BY <2>3 DEF Rotated
  <2>5. /\ SameLinks(k, r)
        /\ \A m \in Nodes : k.red[m] = IF m = cur THEN TRUE ELSE r.red[m]
    <3>1. cur \in Nodes /\ TRUE \in BOOLEAN
      BY <1>1
    <3>2. SameLinks(k, r)
      BY <2>4, <3>1, SetRedFacts
    <3> QED BY <2>4, <3>1, <3>2, SetRedFacts
  <2> HIDE DEF k
  <2>6. /\ SameLinks(g, k)
        /\ \A m \in Nodes : g.red[m] = IF m = s THEN FALSE ELSE k.red[m]
    <3>1. s \in Nodes /\ FALSE \in BOOLEAN /\ k \in Heap
      BY <1>1, <1>2, <2>5 DEF SameLinks
    <3>2. SameLinks(g, k)
      BY <3>1, SetRedFacts
    <3> QED BY <3>1, <3>2, SetRedFacts
  <2> HIDE DEF g
  <2>7. /\ SameLinks(g, r) /\ g \in Heap /\ g.size = h.size
        /\ \A m \in M : g.red[m] = IF m = s THEN FALSE ELSE IF m = cur THEN TRUE ELSE h.red[m]
    BY <1>1, <2>4, <2>5, <2>6 DEF SameLinks
  <2>8. y \in M /\ ~ h.red[y] /\ y # s /\ y # cur
    <3>1. /\ bh[s] = Height(bh, z) + 1 /\ Height(bh, z) \in Nat
          /\ bh[s] = Own(h, s) + Height(bh, y)
      <4>1. Sibling(h) = s
        BY DEF s
      <4> QED BY <4>1, SiblingHeights
    <3>2. Own(h, s) = 0
      BY <1>4 DEF Own
    <3>3. y # NULL
      <4> SUFFICES ASSUME y = NULL PROVE FALSE
        OBVIOUS
      <4>1. Height(bh, y) = 0
        BY DEF Height
      <4> HIDE DEF y, z
      <4> QED BY <3>1, <3>2, <4>1
    <3>4. ~ h.red[y]
      BY <1>1, <1>2, <1>4, <3>3 DEF NoRedPair
    <3> QED BY <1>2, <3>3, <3>4
  <2>9. /\ \A m \in Nodes, j \in Side :
             g.child[m][j] = IF m = s /\ j = side THEN cur
                             ELSE IF m = cur /\ j = Opp(side) THEN y
                             ELSE IF m = h.parent[cur] /\ h.child[m][j] = cur THEN s
                             ELSE h.child[m][j]
    <3>1. g.child = r.child
      BY <2>7 DEF SameLinks
    <3>2. \A m \in Nodes, j \in Side :
             r.child[m][j] = IF m = s /\ j = side THEN cur
                             ELSE IF m = cur /\ j = Opp(side) THEN y
                             ELSE IF m = h.parent[cur] /\ h.child[m][j] = cur THEN s
                             ELSE h.child[m][j]
      BY <2>3 DEF Rotated
    <3> QED BY <3>1, <3>2
  <2>10. Sibling(g) = y /\ g.child[cur][side] = z
    <3>1. cur \in Nodes /\ cur # s /\ cur # h.parent[cur] /\ Opp(side) \in Side /\ side # Opp(side)
      BY <1>1, <1>2, TreeLocal, SideFacts
    <3> HIDE DEF y, z
    <3>2. g.child[cur][Opp(side)] = y
      BY <2>9, <3>1
    <3>3. g.child[cur][side] = h.child[cur][side]
      BY <2>9, <3>1
    <3> QED BY <3>2, <3>3 DEF Sibling, z
  <2>11. ~ g.red[y] /\ ~ IsRed(g, z)
    BY <1>2, <2>7, <2>8 DEF IsRed
  <2>12. \A m \in M \ {cur, s} : g.red[m] = h.red[m]
    BY <2>7
  <2>13. NoRedPair(g, M, NULL)
    <3>1. /\ h.child[cur][side] # NULL => ~ g.red[h.child[cur][side]]
          /\ h.child[s][side] # NULL => ~ g.red[h.child[s][side]]
          /\ ~ g.red[s] /\ NULL \notin M
      BY <1>1, <1>2, <2>7, <2>11 DEF IsRed
    <3> QED BY <1>1, <1>2, <2>3, <2>7, <2>12, <3>1, RotateRedPairs
  <2> DEFINE b == [bh EXCEPT ![s] = bh[cur], ![cur] = bh[s]]
  <2>14. Heights(g, M, b, cur, side)
    <3>1. Sibling(h) = s
      BY DEF s
    <3>2. /\ bh \in [Nodes -> Nat] /\ bh[cur] \in Nat /\ bh[s] \in Nat
          /\ Height(bh, h.child[cur][side]) \in Nat
          /\ bh[cur] = Own(h, cur) + bh[s]
          /\ bh[s] = Height(bh, h.child[cur][side]) + 1
          /\ \A i \in Side : /\ bh[s] = Own(h, s) + Height(bh, h.child[s][i])
                             /\ Height(bh, h.child[s][i]) \in Nat
      BY <3>1, SiblingHeights
    <3>3. Own(h, cur) = 1 /\ Own(h, s) = 0 /\ Own(g, cur) = 0 /\ Own(g, s) = 1
      BY <1>2, <1>4, <2>2, <2>7 DEF Own
    <3>4. Opp(side) \in Side /\ Opp(side) # side
      BY SideFacts
    <3>5. /\ Credit(cur, side, cur, side) = 1 /\ Credit(cur, Opp(side), cur, side) = 0
          /\ Credit(s, side, cur, side) = 0 /\ Credit(s, Opp(side), cur, side) = 0
      BY <1>2, <3>4 DEF Credit
    <3>6. b \in [Nodes -> Nat] /\ b[s] = bh[cur] /\ b[cur] = bh[s]
          /\ \A m \in M \ {cur, s} : b[m] = bh[m]
      BY <1>1, <1>2, <3>2
    <3> HIDE DEF b
    <3>7. \A i \in Side : Height(bh, h.child[s][i]) = bh[s]
      BY <3>2, <3>3
    <3>8. /\ b[cur] = Own(g, cur) + Height(bh, h.child[cur][side]) + Credit(cur, side, cur, side)
          /\ b[cur] = Own(g, cur) + Height(bh, h.child[s][side]) + Credit(cur, Opp(side), cur, side)
      BY <3>2, <3>3, <3>5, <3>6, <3>7
    <3>9. /\ b[s] = Own(g, s) + b[cur] + Credit(s, side, cur, side)
          /\ b[s] = Own(g, s) + Height(bh, h.child[s][Opp(side)]) + Credit(s, Opp(side), cur, side)
      BY <3>2, <3>3, <3>4, <3>5, <3>6, <3>7
    <3>10. RotatedHeights(g, h, M, bh, cur, side, cur, side, s, b, cur, side)
      BY <2>12, <3>6, <3>8, <3>9 DEF RotatedHeights
    <3> QED BY <1>1, <1>2, <2>3, <2>7, <3>10, RotateHeights
  <2>15. Tree(g, M, RotateSub(h, cur, side, sub))
    BY <2>3, <2>7, SameTree
  <2>16. RedBlack(g, M, RotateSub(h, cur, side, sub), b, NULL, cur, side)
    BY <2>13, <2>14, <2>15 DEF RedBlack
  <2>17. RotateSub(h, cur, side, sub) \in [Nodes -> SUBSET Nodes] /\ b \in [Nodes -> Nat]
    BY <2>16 DEF RedBlack, Tree, Heights
  <2> QED BY <2>1, <2>7, <2>10, <2>11, <2>16, <2>17
<1> QED BY <1>3, <1>4

\* Cases 3 and 4: below P one black node is missing everywhere, which a red P
\* makes up for and a black one hands to its own parent.
LEMMA RedSiblingRedBlack ==
  ASSUME NEW h \in Heap, NEW M, NEW sub, NEW bh,
         RedBlack(h, M, sub, bh, NULL, cur, side), cur \in M, side \in Side,
         NEW s, Sibling(h) = s, ~ h.red[s],
         \A i \in Side : ~ IsRed(h, h.child[s][i]),
         NEW gp, h.parent[cur] = gp,
         NEW g, SameLinks(g, h),
         \A m \in Nodes : g.red[m] = IF m = s THEN TRUE
                                     ELSE IF m = cur THEN FALSE ELSE h.red[m],
         NEW q, NEW j,
         IF h.red[cur] \/ gp = NULL THEN q = NULL ELSE q = gp /\ j = GetChildId(h, gp, cur)
  PROVE  \E b \in [Nodes -> Nat] : RedBlack(g, M, sub, b, NULL, q, j)
<1> DEFINE b == [bh EXCEPT ![s] = bh[s] - 1, ![cur] = bh[s]]
<1>1. /\ Tree(h, M, sub) /\ NoRedPair(h, M, NULL)
      /\ M \in SUBSET Nodes /\ NULL \notin M
  BY NullNotNode DEF RedBlack, Tree
<1>2. /\ s \in M /\ s # cur /\ h.parent[s] = cur
      /\ h.child[cur][Opp(side)] = s
  BY SiblingFacts
<1>3. /\ bh \in [Nodes -> Nat] /\ bh[cur] \in Nat /\ bh[s] \in Nat
      /\ Height(bh, h.child[cur][side]) \in Nat
      /\ bh[cur] = Own(h, cur) + bh[s]
      /\ bh[s] = Height(bh, h.child[cur][side]) + 1
  BY SiblingHeights
<1>4. \A m \in M, i \in Side : m # cur =>
        /\ bh[m] = Own(h, m) + Height(bh, h.child[m][i])
        /\ Height(bh, h.child[m][i]) \in Nat
  BY SiblingHeights
<1>5. /\ b \in [Nodes -> Nat] /\ b[s] = bh[s] - 1 /\ b[cur] = bh[s]
      /\ \A m \in Nodes \ {s, cur} : b[m] = bh[m]
  <2>1. bh[s] - 1 \in Nat
    BY <1>3
  <2> QED BY <1>1, <1>2, <1>3, <2>1
<1> HIDE DEF b
<1>6. \A m \in M, i \in Side : h.child[m][i] # NULL =>
        h.child[m][i] \in M /\ h.parent[h.child[m][i]] = m
  BY <1>1, TreeLocal
<1>7. \A m \in M : h.parent[m] # NULL =>
        h.parent[m] \in M /\ \E i \in Side : h.child[h.parent[m]][i] = m
  BY <1>1, TreeLocal
<1>8. cur # NULL /\ s # NULL /\ g.parent = h.parent /\ g.child = h.child
  BY <1>1, <1>2 DEF SameLinks
<1>9. q # NULL => /\ q = gp /\ gp # cur /\ gp \in M /\ ~ h.red[cur]
                  /\ j \in Side /\ h.child[gp][j] = cur /\ h.child[gp][Opp(j)] # cur
  BY <1>1, ChildIdFacts
<1>10. NoRedPair(g, M, NULL)
  <2> SUFFICES ASSUME NEW m \in M, g.red[m]
               PROVE  g.parent[m] # NULL /\ ~ g.red[g.parent[m]]
    BY DEF NoRedPair
  <2>1. CASE m = s
    BY <1>1, <1>2, <1>8, <2>1
  <2>2. CASE m # s
    <3>1. m # cur /\ h.red[m]
      BY <1>1, <2>2
    <3>2. h.parent[m] # NULL /\ ~ h.red[h.parent[m]] /\ h.parent[m] \in M
      BY <1>1, <1>7, <3>1 DEF NoRedPair
    <3>3. h.parent[m] # s
      BY <1>1, <1>7, <3>1, <3>2 DEF IsRed
    <3> QED BY <1>1, <1>8, <3>2, <3>3
  <2> QED BY <2>1, <2>2
<1>11. Heights(g, M, b, q, j)
  <2> SUFFICES ASSUME NEW m \in M, NEW i \in Side
               PROVE  b[m] = Own(g, m) + Height(b, g.child[m][i]) + Credit(m, i, q, j)
    BY <1>5 DEF Heights
  <2> DEFINE k == h.child[m][i]
  <2>1. g.child[m][i] = k
    BY <1>8
  <2>2. k # NULL => k \in M /\ k \in Nodes /\ h.parent[k] = m
    BY <1>1, <1>6
  <2>3. m # cur => bh[m] = Own(h, m) + Height(bh, k) /\ Height(bh, k) \in Nat
    BY <1>4
  <2>4. k = s => m = cur
    BY <1>2, <1>8, <2>2
  <2> HIDE DEF k
  <2>5. CASE m = cur
    <3>1. Own(g, m) = 1
      BY <1>1, <1>2, <2>5 DEF Own
    <3>2. Credit(m, i, q, j) = 0
      BY <1>8, <1>9, <2>5 DEF Credit
    <3>3. CASE i = side
      <4>1. k = h.child[cur][side] /\ k # s /\ k # cur
        <5>1. h.child[cur][side] # s
          BY <1>1, <1>2, <1>8, TreeLocal, SideFacts
        <5>2. h.child[cur][side] # cur
          BY <1>1, <1>8, TreeLocal
        <5> QED BY <2>5, <3>3, <5>1, <5>2 DEF k
      <4>2. Height(b, k) = Height(bh, k)
        BY <1>5, <2>2, <4>1 DEF Height
      <4> QED BY <1>3, <1>5, <2>1, <2>5, <3>1, <3>2, <4>1, <4>2
    <3>4. CASE i # side
      <4>1. k = s
        BY <1>2, <2>5, <3>4, SideFacts DEF k
      <4>2. Height(b, k) = bh[s] - 1
        BY <1>5, <1>8, <4>1 DEF Height
      <4> QED BY <1>3, <1>5, <2>1, <2>5, <3>1, <3>2, <4>2
    <3> QED BY <3>3, <3>4
  <2>6. CASE m = s
    <3>1. Own(g, m) = 0 /\ Own(h, m) = 1
      BY <1>1, <2>6 DEF Own
    <3>2. k # s /\ k # cur
      BY <1>2, <1>8, <2>2, <2>4, <2>6, <1>1, TreeLocal
    <3>3. Height(b, k) = Height(bh, k)
      BY <1>5, <2>2, <3>2 DEF Height
    <3>4. Credit(m, i, q, j) = 0
      <4>1. ~ (m = q /\ i = j)
        BY <1>2, <1>8, <1>9, <2>6, <3>2 DEF k
      <4> QED BY <4>1 DEF Credit
    <3> QED BY <1>2, <1>3, <1>5, <2>1, <2>3, <2>6, <3>1, <3>3, <3>4
  <2>7. CASE m # cur /\ m # s
    <3>1. b[m] = bh[m] /\ Own(g, m) = Own(h, m) /\ Own(h, m) \in Nat /\ k # s
      <4>1. g.red[m] = h.red[m]
        BY <1>1, <2>7
      <4> QED BY <1>1, <1>5, <2>4, <2>7, <4>1 DEF Own
    <3>2. CASE k = cur
      <4>1. m = gp /\ gp # NULL
        BY <1>1, <1>8, <2>2, <3>2
      <4>2. Height(bh, k) = bh[cur] /\ Height(b, k) = bh[s]
        BY <1>5, <1>8, <3>2 DEF Height
      <4>3. CASE h.red[cur]
        <5>1. Own(h, cur) = 0
          BY <4>3 DEF Own
        <5>2. Credit(m, i, q, j) = 0
          BY <1>1, <4>3 DEF Credit
        <5> QED BY <1>3, <2>1, <2>3, <2>7, <3>1, <4>2, <5>1, <5>2
      <4>4. CASE ~ h.red[cur]
        <5>1. Own(h, cur) = 1
          BY <4>4 DEF Own
        <5>2. q = gp /\ i = j
          <6>1. q = gp
            BY <4>1, <4>4
          <6>2. i = j \/ i = Opp(j)
            BY <1>9, <4>1, <6>1, SideFacts
          <6> QED BY <1>9, <3>2, <4>1, <6>1, <6>2 DEF k
        <5>3. Credit(m, i, q, j) = 1
          BY <4>1, <5>2 DEF Credit
        <5> QED BY <1>3, <2>1, <2>3, <2>7, <3>1, <4>2, <5>1, <5>3
      <4> QED BY <4>3, <4>4
    <3>3. CASE k # cur
      <4>1. Height(b, k) = Height(bh, k)
        BY <1>5, <2>2, <3>1, <3>3 DEF Height
      <4>2. Credit(m, i, q, j) = 0
        <5>1. ~ (m = q /\ i = j)
          BY <1>1, <1>9, <3>3 DEF k
        <5> QED BY <5>1 DEF Credit
      <4> QED BY <2>1, <2>3, <2>7, <3>1, <4>1, <4>2
    <3> QED BY <3>2, <3>3
  <2> QED BY <2>5, <2>6, <2>7
<1>12. Tree(g, M, sub)
  BY <1>1, SameTree
<1> QED BY <1>5, <1>10, <1>11, <1>12 DEF RedBlack

Raised(bh, f) == [bh EXCEPT ![f] = bh[f] + 1]

\* A red node is blackened below the place where a black node is missing.
LEMMA BlackenHeights ==
  ASSUME NEW h \in Heap, NEW M, NEW sub, Tree(h, M, sub),
         NEW bh, NEW n \in M, NEW i \in Side, Heights(h, M, bh, n, i),
         NEW f, h.child[n][i] = f, f # NULL, h.red[f],
         NEW g, SameLinks(g, h),
         \A m \in Nodes : g.red[m] = IF m = f THEN FALSE ELSE h.red[m]
  PROVE  Heights(g, M, Raised(bh, f), NULL, 0)
<1> DEFINE b == Raised(bh, f)
<1>1. f \in M /\ f # n /\ h.parent[f] = n /\ h.child[n][Opp(i)] # f
  BY TreeLocal
<1>2. M \in SUBSET Nodes /\ NULL \notin M /\ bh \in [Nodes -> Nat]
  BY NullNotNode DEF Tree, Heights
<1>3. /\ b \in [Nodes -> Nat]
      /\ \A m \in Nodes : b[m] = IF m = f THEN bh[m] + 1 ELSE bh[m]
  BY <1>1, <1>2 DEF Raised
<1> HIDE DEF b
<1> SUFFICES ASSUME NEW m \in M, NEW j \in Side
             PROVE  b[m] = Own(g, m) + Height(b, g.child[m][j]) + Credit(m, j, NULL, 0)
  BY <1>3 DEF Heights, b
<1> DEFINE k == h.child[m][j]
<1>4. /\ bh[m] = Own(h, m) + Height(bh, k) + Credit(m, j, n, i)
      /\ g.child[m][j] = k
  BY DEF Heights, SameLinks
<1>5. k # NULL => k \in M /\ k \in Nodes /\ h.parent[k] = m
  BY <1>2, TreeLocal
<1>6. k = f <=> m = n /\ j = i
  BY <1>1, <1>5, SideFacts
<1> HIDE DEF k
<1>7. Credit(m, j, NULL, 0) = 0
  BY <1>2 DEF Credit
<1>8. Height(bh, k) \in Nat
  BY <1>2, <1>5 DEF Height
<1>9. Height(b, k) = Height(bh, k) + Credit(m, j, n, i)
  <2>1. CASE k = f
    <3>1. Credit(m, j, n, i) = 1
      BY <1>6, <2>1 DEF Credit
    <3> QED BY <1>2, <1>3, <1>5, <2>1, <3>1 DEF Height
  <2>2. CASE k # f
    <3>1. Credit(m, j, n, i) = 0
      BY <1>6, <2>2 DEF Credit
    <3>2. Height(b, k) = Height(bh, k)
      BY <1>3, <1>5, <2>2 DEF Height
    <3> QED BY <1>8, <3>1, <3>2
  <2> QED BY <2>1, <2>2
<1>10. Own(g, m) + bh[m] = Own(h, m) + b[m] /\ Own(h, m) \in Nat /\ Own(g, m) \in Nat
  <2>1. Own(h, m) \in Nat /\ Own(g, m) \in Nat /\ bh[m] \in Nat /\ m \in Nodes
    BY <1>2 DEF Own
  <2>2. CASE m = f
    <3>1. Own(h, m) = 0 /\ Own(g, m) = 1 /\ b[m] = bh[m] + 1
      BY <1>3, <2>1, <2>2 DEF Own
    <3> QED BY <2>1, <3>1
  <2>3. CASE m # f
    <3>1. Own(h, m) = Own(g, m) /\ b[m] = bh[m]
      BY <1>3, <2>1, <2>3 DEF Own
    <3> QED BY <2>1, <3>1
  <2> QED BY <2>2, <2>3
<1>11. Credit(m, j, n, i) \in Nat /\ bh[m] \in Nat /\ b[m] \in Nat
  BY <1>2, <1>3 DEF Credit
<1> QED BY <1>4, <1>7, <1>8, <1>9, <1>10, <1>11

\* Case 5: the outer nephew is red from here on; a red child of it, x, is all
\* that may be wrong.
LEMMA OuterNephewRedBlack ==
  ASSUME NEW h \in Heap, NEW M, NEW sub, NEW bh,
         RedBlack(h, M, sub, bh, NULL, cur, side), cur \in M, side \in Side,
         NEW s, Sibling(h) = s, ~ h.red[s],
         ~ \A i \in Side : ~ IsRed(h, h.child[s][i])
  PROVE  LET g == RedOuterNephew(h, s)
             f == g.child[Sibling(g)][Opp(side)]
         IN  /\ g \in Heap /\ g.size = h.size
             /\ ~ g.red[Sibling(g)] /\ IsRed(g, f)
             /\ \E sub2 \in [Nodes -> SUBSET Nodes], b2 \in [Nodes -> Nat], x \in NodeOrNull :
                  /\ RedBlack(g, M, sub2, b2, x, cur, side)
                  /\ x # NULL => x # cur /\ g.parent[x] = f
<1> DEFINE y == h.child[s][side]
           f == h.child[s][Opp(side)]
           r == TreeRotate(h, s, Opp(side))
           k == SetRed(r, s, TRUE)
           g == SetRed(k, y, FALSE)
<1>1. /\ Tree(h, M, sub) /\ NoRedPair(h, M, NULL) /\ Heights(h, M, bh, cur, side)
      /\ M \in SUBSET Nodes /\ NULL \notin M
  BY NullNotNode DEF RedBlack, Tree
<1>2. Opp(side) \in Side /\ Opp(side) # side /\ Opp(Opp(side)) = side /\ Side = {side, Opp(side)}
  BY SideFacts
<1>3. /\ s \in M /\ s # cur /\ h.parent[s] = cur
      /\ h.child[cur][Opp(side)] = s
      /\ \A i \in Side : h.child[s][i] # NULL =>
           /\ h.child[s][i] \in M /\ h.parent[h.child[s][i]] = s
           /\ h.child[s][i] # s /\ h.child[s][i] # cur
  BY SiblingFacts
<1>4. CASE ~ IsRed(h, y)
  <2>1. RedOuterNephew(h, s) = h
    BY <1>4 DEF RedOuterNephew
  <2>2. IsRed(h, f)
    BY <1>2, <1>4
  <2>3. sub \in [Nodes -> SUBSET Nodes] /\ bh \in [Nodes -> Nat] /\ NULL \in NodeOrNull
    BY <1>1 DEF Tree, Heights, NodeOrNull
  <2> QED BY <2>1, <2>2, <2>3
<1>5. CASE IsRed(h, y)
  <2>1. RedOuterNephew(h, s) = g
    BY <1>5 DEF RedOuterNephew, SetRed
  <2>2. y \in M /\ h.red[y] /\ h.parent[y] = s /\ y # s /\ y # cur
    BY <1>3, <1>5 DEF IsRed
  <2>3. f # NULL => f \in M /\ h.parent[f] = s /\ f # s /\ f # cur /\ f # y
    <3>1. f # NULL => f # y
      BY <1>1, <1>2, <1>3, TreeLocal
    <3> QED BY <1>2, <1>3, <3>1
  <2>4. \A i \in Side : h.child[y][i] # NULL =>
          /\ h.child[y][i] \in M /\ h.parent[h.child[y][i]] = y
          /\ h.child[y][i] # s /\ h.child[y][i] # y /\ ~ h.red[h.child[y][i]]
    <3> SUFFICES ASSUME NEW i \in Side, NEW c, h.child[y][i] = c, c # NULL
                 PROVE  c \in M /\ h.parent[c] = y /\ c # s /\ c # y /\ ~ h.red[c]
      OBVIOUS
    <3>1. c \in M /\ h.parent[c] = y
      BY <1>1, <2>2, TreeLocal
    <3>2. c # s /\ c # y
      BY <1>3, <2>2, <3>1
    <3>3. ~ h.red[c]
      BY <1>1, <2>2, <3>1 DEF NoRedPair
    <3> QED BY <3>1, <3>2, <3>3
  <2>5. Rotated(r, h, s, Opp(side), y) /\ Tree(r, M, RotateSub(h, s, Opp(side), sub))
    <3>1. h.child[s][Opp(Opp(side))] # NULL
      BY <1>1, <1>2, <2>2
    <3>2. h.child[s][Opp(Opp(side))] = y
      BY <1>2
    <3> QED BY <1>1, <1>2, <1>3, <3>1, <3>2, RotateTree
  <2> HIDE DEF r, y, f
  <2>6. r \in Heap /\ r.red = h.red /\ r.size = h.size
    BY <2>5 DEF Rotated
  <2>7. /\ SameLinks(k, r)
        /\ \A m \in Nodes : k.red[m] = IF m = s THEN TRUE ELSE r.red[m]
    <3>1. s \in Nodes /\ TRUE \in BOOLEAN
      BY <1>1, <1>3
    <3>2. SameLinks(k, r)
      BY <2>6, <3>1, SetRedFacts
    <3>3. \A m \in Nodes : SetRed(r, s, TRUE).red[m] = IF m = s THEN TRUE ELSE r.red[m]
      <4>1. \A v \in BOOLEAN, m \in Nodes : SetRed(r, s, v).red[m] = IF m = s THEN v ELSE r.red[m]
        BY <2>6, <3>1, SetRedFacts
      <4> QED BY <3>1, <4>1
    <3> QED BY <3>2, <3>3
  <2> HIDE DEF k
  <2>8. /\ SameLinks(g, k)
        /\ \A m \in Nodes : g.red[m] = IF m = y THEN FALSE ELSE k.red[m]
    <3>1. y \in Nodes /\ FALSE \in BOOLEAN /\ k \in Heap
      BY <1>1, <2>2, <2>7 DEF SameLinks
    <3>2. SameLinks(g, k)
      BY <3>1, SetRedFacts
    <3> QED BY <3>1, <3>2, SetRedFacts
  <2> HIDE DEF g
  <2>9. /\ SameLinks(g, r) /\ g \in Heap /\ g.size = h.size
        /\ \A m \in M : g.red[m] = IF m = y THEN FALSE ELSE IF m = s THEN TRUE ELSE h.red[m]
    BY <1>1, <2>6, <2>7, <2>8 DEF SameLinks
  <2>10. Sibling(g) = y /\ g.child[y][Opp(side)] = s
    <3>1. g.child = r.child
      BY <2>9 DEF SameLinks
    <3>2. \A m \in Nodes, j \in Side :
             r.child[m][j] = IF m = y /\ j = Opp(side) THEN s
                             ELSE IF m = s /\ j = Opp(Opp(side)) THEN h.child[y][Opp(side)]
                             ELSE IF m = h.parent[s] /\ h.child[m][j] = s THEN y
                             ELSE h.child[m][j]
      BY <2>5 DEF Rotated
    <3>3. cur \in Nodes /\ y \in Nodes
      BY <1>1, <2>2
    <3>4. g.child[cur][Opp(side)] = y
      BY <1>2, <1>3, <2>2, <3>1, <3>2, <3>3
    <3>5. g.child[y][Opp(side)] = s
      BY <1>2, <3>1, <3>2, <3>3
    <3> QED BY <3>4, <3>5 DEF Sibling
  <2>11. f # NULL => f # cur /\ g.parent[f] = s
    <3> SUFFICES ASSUME f # NULL PROVE g.parent[f] = s
      BY <2>3
    <3>1. r.parent[f] = IF f = y THEN h.parent[s]
                        ELSE IF f = s THEN y
                        ELSE IF f = h.child[y][Opp(side)] THEN s
                        ELSE h.parent[f]
      <4>1. f \in Nodes
        BY <1>1, <2>3
      <4> QED BY <2>5, <4>1 DEF Rotated
    <3>2. r.parent[f] = s
      BY <2>3, <3>1
    <3> QED BY <2>9, <3>2 DEF SameLinks
  <2>12. ~ g.red[y] /\ IsRed(g, s)
    BY <1>1, <1>3, <2>2, <2>9 DEF IsRed
  <2>13. \A m \in M \ {s, y} : g.red[m] = h.red[m]
    BY <2>9
  <2>14. NoRedPair(g, M, f)
    <3>1. h.child[s][Opp(Opp(side))] = y /\ h.child[s][Opp(side)] = f
      BY <1>2 DEF y, f
    <3>2. h.child[y][Opp(side)] # NULL => ~ g.red[h.child[y][Opp(side)]]
      BY <1>2, <2>4, <2>13
    <3> QED BY <1>1, <1>2, <1>3, <2>2, <2>5, <2>9, <2>12, <2>13, <3>1, <3>2, RotateRedPairs
  <2> DEFINE b == [bh EXCEPT ![y] = bh[s], ![s] = bh[s] - 1]
  <2>15. Heights(g, M, b, cur, side)
    <3>1. /\ bh \in [Nodes -> Nat] /\ bh[s] \in Nat
          /\ \A i \in Side : /\ bh[s] = Own(h, s) + Height(bh, h.child[s][i])
                             /\ Height(bh, h.child[s][i]) \in Nat
          /\ \A m \in M, i \in Side : m # cur =>
               /\ bh[m] = Own(h, m) + Height(bh, h.child[m][i])
               /\ Height(bh, h.child[m][i]) \in Nat
      BY SiblingHeights
    <3>2. Own(h, s) = 1 /\ Own(h, y) = 0 /\ Own(g, s) = 0 /\ Own(g, y) = 1
      BY <1>1, <2>2, <2>12 DEF Own, IsRed
    <3>3. Height(bh, y) = bh[y]
      BY <1>1, <2>2 DEF Height
    <3>4. bh[s] = 1 + bh[y] /\ bh[s] = 1 + Height(bh, f) /\ Height(bh, f) \in Nat
      <4>1. bh[s] = Own(h, s) + Height(bh, y)
        BY <3>1 DEF y
      <4>2. bh[s] = Own(h, s) + Height(bh, f) /\ Height(bh, f) \in Nat
        BY <1>2, <3>1 DEF f
      <4> QED BY <3>2, <3>3, <4>1, <4>2
    <3>5. \A i \in Side : Height(bh, h.child[y][i]) = bh[y]
      BY <2>2, <3>1, <3>2
    <3>6. bh[y] \in Nat
      BY <1>1, <2>2, <3>1
    <3>7. /\ Credit(s, Opp(side), cur, side) = 0 /\ Credit(s, side, cur, side) = 0
          /\ Credit(y, Opp(side), cur, side) = 0 /\ Credit(y, side, cur, side) = 0
      BY <1>3, <2>2 DEF Credit
    <3>8. b \in [Nodes -> Nat] /\ b[y] = bh[s] /\ b[s] = bh[s] - 1
          /\ \A m \in M \ {s, y} : b[m] = bh[m]
      <4>1. bh[s] - 1 \in Nat
        BY <3>4, <3>6
      <4> QED BY <1>1, <1>3, <2>2, <3>1, <4>1
    <3> HIDE DEF b
    <3>9. /\ b[s] = Own(g, s) + Height(bh, h.child[s][Opp(side)]) + Credit(s, Opp(side), cur, side)
          /\ b[s] = Own(g, s) + Height(bh, h.child[y][Opp(side)]) + Credit(s, side, cur, side)
      <4>1. h.child[s][Opp(side)] = f
        BY DEF f
      <4>2. Height(bh, h.child[y][Opp(side)]) = bh[y]
        BY <1>2, <3>5
      <4> QED BY <3>2, <3>4, <3>6, <3>7, <3>8, <4>1, <4>2
    <3>10. /\ b[y] = Own(g, y) + b[s] + Credit(y, Opp(side), cur, side)
           /\ b[y] = Own(g, y) + Height(bh, h.child[y][side]) + Credit(y, side, cur, side)
      <4>1. Height(bh, h.child[y][side]) = bh[y]
        BY <3>5
      <4> QED BY <3>1, <3>2, <3>4, <3>6, <3>7, <3>8, <4>1
    <3>11. RotatedHeights(g, h, M, bh, cur, side, s, Opp(side), y, b, cur, side)
      BY <1>2, <2>13, <3>8, <3>9, <3>10 DEF RotatedHeights
    <3>12. h.child[s][Opp(Opp(side))] = y
      BY <1>2 DEF y
    <3> QED BY <1>1, <1>2, <1>3, <2>2, <2>5, <2>9, <3>11, <3>12, RotateHeights
  <2>16. Tree(g, M, RotateSub(h, s, Opp(side), sub))
    BY <2>5, <2>9, SameTree
  <2>17. RedBlack(g, M, RotateSub(h, s, Opp(side), sub), b, f, cur, side)
    BY <2>14, <2>15, <2>16 DEF RedBlack
  <2>18. /\ RotateSub(h, s, Opp(side), sub) \in [Nodes -> SUBSET Nodes]
         /\ b \in [Nodes -> Nat] /\ f \in NodeOrNull
    BY <1>1, <2>3, <2>17 DEF RedBlack, Tree, Heights, NodeOrNull
  <2> HIDE DEF b
  <2> QED BY <2>1, <2>9, <2>10, <2>11, <2>12, <2>17, <2>18
<1> QED BY <1>4, <1>5

\* Case 6: the sibling takes the place and colour of P, and the missing black
\* node is made up for.
LEMMA RotateParentRedBlack ==
  ASSUME NEW h \in Heap, NEW M, NEW sub, NEW bh, NEW x,
         RedBlack(h, M, sub, bh, x, cur, side), cur \in M, side \in Side,
         NEW s, Sibling(h) = s, ~ h.red[s],
         NEW f, h.child[s][Opp(side)] = f, IsRed(h, f),
         x # NULL => x # cur /\ h.parent[x] = f
  PROVE  LET g == RotateParent(h)
         IN  /\ g \in Heap /\ g.size = h.size
             /\ \E sub2 \in [Nodes -> SUBSET Nodes], b2 \in [Nodes -> Nat] :
                  RedBlack(g, M, sub2, b2, NULL, NULL, 0)
<1> DEFINE y == h.child[s][side]
           z == h.child[cur][side]
           r == TreeRotate(h, cur, side)
           k1 == SetRed(r, s, h.red[cur])
           k2 == SetRed(k1, cur, FALSE)
           g == SetRed(k2, f, FALSE)
           b1 == [bh EXCEPT ![s] = bh[cur], ![cur] = bh[s]]
           b == Raised(b1, f)
           sub2 == RotateSub(h, cur, side, sub)
<1>1. /\ Tree(h, M, sub) /\ NoRedPair(h, M, x) /\ Heights(h, M, bh, cur, side)
      /\ M \in SUBSET Nodes /\ NULL \notin M
  BY NullNotNode DEF RedBlack, Tree
<1>2. Opp(side) \in Side /\ Opp(side) # side /\ Opp(Opp(side)) = side /\ Side = {side, Opp(side)}
  BY SideFacts
<1>3. /\ s \in M /\ s # cur /\ h.parent[s] = cur
      /\ h.child[cur][Opp(side)] = s
      /\ \A i \in Side : h.child[s][i] # NULL =>
           /\ h.child[s][i] \in M /\ h.parent[h.child[s][i]] = s
           /\ h.child[s][i] # s /\ h.child[s][i] # cur
  BY SiblingFacts
<1>4. f # NULL /\ h.red[f] /\ f \in M /\ h.parent[f] = s /\ f # s /\ f # cur
  BY <1>2, <1>3 DEF IsRed
<1>5. RotateParent(h) = g
  BY DEF RotateParent, SetRed
<1>6. Rotated(r, h, cur, side, s) /\ Tree(r, M, sub2)
  BY <1>1, <1>2, <1>3, RotateTree
<1> HIDE DEF r, sub2
<1>7. r \in Heap /\ r.red = h.red /\ r.size = h.size
  BY <1>6 DEF Rotated
<1>8. /\ cur \in Nodes /\ s \in Nodes /\ f \in Nodes /\ FALSE \in BOOLEAN
      /\ h.red[cur] \in BOOLEAN
  BY <1>1, <1>3, <1>4, HeapFacts
<1>9. /\ SameLinks(k1, r)
      /\ \A m \in Nodes : k1.red[m] = IF m = s THEN h.red[cur] ELSE r.red[m]
  <2>1. SameLinks(k1, r)
    BY <1>7, <1>8, SetRedFacts
  <2>2. \A v \in BOOLEAN, m \in Nodes : SetRed(r, s, v).red[m] = IF m = s THEN v ELSE r.red[m]
    BY <1>7, <1>8, SetRedFacts
  <2> QED BY <1>8, <2>1, <2>2
<1> HIDE DEF k1
<1>10. /\ SameLinks(k2, k1)
       /\ \A m \in Nodes : k2.red[m] = IF m = cur THEN FALSE ELSE k1.red[m]
  <2>1. k1 \in Heap
    BY <1>9 DEF SameLinks
  <2>2. SameLinks(k2, k1)
    BY <1>8, <2>1, SetRedFacts
  <2>3. \A v \in BOOLEAN, m \in Nodes : SetRed(k1, cur, v).red[m] = IF m = cur THEN v ELSE k1.red[m]
    BY <1>8, <2>1, SetRedFacts
  <2> QED BY <1>8, <2>2, <2>3
<1> HIDE DEF k2
<1>11. /\ SameLinks(g, k2)
       /\ \A m \in Nodes : g.red[m] = IF m = f THEN FALSE ELSE k2.red[m]
  <2>1. k2 \in Heap
    BY <1>10 DEF SameLinks
  <2>2. SameLinks(g, k2)
    BY <1>8, <2>1, SetRedFacts
  <2>3. \A v \in BOOLEAN, m \in Nodes : SetRed(k2, f, v).red[m] = IF m = f THEN v ELSE k2.red[m]
    BY <1>8, <2>1, SetRedFacts
  <2> QED BY <1>8, <2>2, <2>3
<1> HIDE DEF g
<1>12. SameLinks(k2, r) /\ SameLinks(g, r) /\ g \in Heap /\ g.size = h.size
  BY <1>7, <1>9, <1>10, <1>11 DEF SameLinks
<1>13. \A m \in M : k2.red[m] = IF m = cur THEN FALSE
                                ELSE IF m = s THEN h.red[cur] ELSE h.red[m]
  BY <1>1, <1>7, <1>9, <1>10
<1>14. NoRedPair(g, M, NULL)
  <2> DEFINE hf == SetRed(h, f, FALSE)
             rf == SetRed(r, f, FALSE)
  <2>1. SameLinks(hf, h) /\ SameLinks(rf, r)
    BY <1>7, <1>8, SetRedFacts
  <2>2. /\ \A m \in Nodes : hf.red[m] = IF m = f THEN FALSE ELSE h.red[m]
        /\ rf.red = hf.red
    <3>1. \A v \in BOOLEAN, m \in Nodes : SetRed(h, f, v).red[m] = IF m = f THEN v ELSE h.red[m]
      BY <1>8, SetRedFacts
    <3>2. rf.red = hf.red
      BY <1>7, <1>8 DEF SetRed, Heap
    <3> QED BY <1>8, <3>1, <3>2
  <2> HIDE DEF hf, rf
  <2>3. hf \in Heap /\ rf \in Heap /\ SameLinks(g, rf) /\ hf.size = rf.size
    BY <1>7, <1>12, <2>1 DEF SameLinks
  <2>4. Rotated(rf, hf, cur, side, s)
    <3>1. /\ rf.root = r.root /\ rf.parent = r.parent /\ rf.child = r.child
          /\ hf.root = h.root /\ hf.parent = h.parent /\ hf.child = h.child
      BY <2>1 DEF SameLinks
    <3> QED BY <1>6, <2>2, <2>3, <3>1 DEF Rotated
  <2>5. Tree(hf, M, sub)
    BY <1>1, <2>1, SameTree
  <2>6. NoRedPair(hf, M, NULL)
    <3> SUFFICES ASSUME NEW m \in M, hf.red[m]
                 PROVE  hf.parent[m] # NULL /\ ~ hf.red[hf.parent[m]]
      BY DEF NoRedPair
    <3>1. m # f /\ h.red[m] /\ hf.parent[m] = h.parent[m]
      BY <1>1, <2>1, <2>2 DEF SameLinks
    <3>2. CASE m = x
      BY <1>1, <1>4, <1>8, <2>2, <3>1, <3>2
    <3>3. CASE m # x
      <4>1. h.parent[m] # NULL /\ ~ h.red[h.parent[m]]
        BY <1>1, <3>1, <3>3 DEF NoRedPair
      <4>2. h.parent[m] \in Nodes
        BY <1>1, <4>1, TreeLocal
      <4> QED BY <2>2, <3>1, <4>1, <4>2
    <3> QED BY <3>2, <3>3
  <2>7. \A m \in M \ {cur, s} : g.red[m] = hf.red[m]
    BY <1>1, <1>11, <1>13, <2>2
  <2>8. ~ g.red[cur] /\ ~ g.red[f] /\ (g.red[s] <=> h.red[cur]) /\ (hf.red[cur] <=> h.red[cur])
    BY <1>1, <1>3, <1>4, <1>8, <1>11, <1>13, <2>2
  <2>9. /\ hf.child[cur][Opp(side)] = s /\ hf.child[s][Opp(side)] = f
    BY <1>3, <2>1 DEF SameLinks
  <2> QED BY <1>1, <1>3, <2>3, <2>4, <2>5, <2>6, <2>7, <2>8, <2>9, RotateRedPairs
<1>15. Heights(k2, M, b1, s, Opp(side))
  <2>1. /\ bh \in [Nodes -> Nat] /\ bh[cur] \in Nat /\ bh[s] \in Nat
        /\ Height(bh, z) \in Nat
        /\ bh[cur] = Own(h, cur) + bh[s]
        /\ bh[s] = Height(bh, z) + 1
        /\ bh[s] = Own(h, s) + Height(bh, y) /\ Height(bh, y) \in Nat
        /\ bh[s] = Own(h, s) + Height(bh, f) /\ Height(bh, f) \in Nat
    BY <1>2, SiblingHeights
  <2>2. Own(h, s) = 1 /\ Own(k2, cur) = 1 /\ Own(k2, s) = Own(h, cur) /\ Own(h, cur) \in Nat
    <3>1. Own(h, s) = 1 /\ Own(h, cur) \in Nat
      BY DEF Own
    <3>2. Own(k2, cur) = 1
      BY <1>13 DEF Own
    <3>3. k2.red[s] = h.red[cur]
      BY <1>3, <1>13
    <3> QED BY <3>1, <3>2, <3>3 DEF Own
  <2>3. /\ Credit(cur, side, s, Opp(side)) = 0 /\ Credit(cur, Opp(side), s, Opp(side)) = 0
        /\ Credit(s, side, s, Opp(side)) = 0 /\ Credit(s, Opp(side), s, Opp(side)) = 1
        /\ \A m \in M \ {cur, s}, j \in Side :
             Credit(m, j, s, Opp(side)) = Credit(m, j, cur, side)
    BY <1>2, <1>3 DEF Credit
  <2>4. b1 \in [Nodes -> Nat] /\ b1[s] = bh[cur] /\ b1[cur] = bh[s]
        /\ \A m \in M \ {cur, s} : b1[m] = bh[m]
    BY <1>1, <1>3, <1>8, <2>1
  <2> HIDE DEF b1, y, z
  <2>5. /\ b1[cur] = Own(k2, cur) + Height(bh, z) + Credit(cur, side, s, Opp(side))
        /\ b1[cur] = Own(k2, cur) + Height(bh, y) + Credit(cur, Opp(side), s, Opp(side))
    BY <2>1, <2>2, <2>3, <2>4
  <2>6. /\ b1[s] = Own(k2, s) + b1[cur] + Credit(s, side, s, Opp(side))
        /\ b1[s] = Own(k2, s) + Height(bh, f) + Credit(s, Opp(side), s, Opp(side))
    BY <2>1, <2>2, <2>3, <2>4
  <2>7. \A m \in M \ {cur, s} : k2.red[m] = h.red[m]
    BY <1>13
  <2>8. RotatedHeights(k2, h, M, bh, cur, side, cur, side, s, b1, s, Opp(side))
    BY <2>3, <2>4, <2>5, <2>6, <2>7 DEF RotatedHeights, y, z
  <2> QED BY <1>1, <1>3, <1>6, <1>12, <2>8, RotateHeights
<1>16. Heights(g, M, b, NULL, 0)
  <2>1. Tree(k2, M, sub2) /\ k2 \in Heap
    BY <1>6, <1>12, SameTree DEF SameLinks
  <2>2. k2.child[s][Opp(side)] = f
    <3>1. \A m \in Nodes, j \in Side :
             r.child[m][j] = IF m = s /\ j = side THEN cur
                             ELSE IF m = cur /\ j = Opp(side) THEN y
                             ELSE IF m = h.parent[cur] /\ h.child[m][j] = cur THEN s
                             ELSE h.child[m][j]
      BY <1>6 DEF Rotated
    <3>2. r.child[s][Opp(side)] = f
      BY <1>2, <1>3, <1>4, <1>8, <3>1
    <3> QED BY <1>12, <3>2 DEF SameLinks
  <2>3. k2.red[f]
    BY <1>4, <1>13
  <2> HIDE DEF b1
  <2> QED BY <1>2, <1>3, <1>4, <1>11, <1>15, <2>1, <2>2, <2>3, BlackenHeights
<1>17. Tree(g, M, sub2)
  BY <1>6, <1>12, SameTree
<1>18. RedBlack(g, M, sub2, b, NULL, NULL, 0)
  BY <1>14, <1>16, <1>17 DEF RedBlack
<1>19. sub2 \in [Nodes -> SUBSET Nodes] /\ b \in [Nodes -> Nat]
  BY <1>16, <1>17 DEF Tree, Heights
<1> HIDE DEF b
<1> QED BY <1>5, <1>12, <1>18, <1>19

(***************************************************************************)
(* Part 3: actions                                                         *)
(***************************************************************************)

-----------------------------------------------------------------------------
(* What establishes the invariant at each loop head *)

\* The arguments of every call are of their type.
LEMMA CallType ==
  ASSUME NEW op \in InsertOps \cup {"none", "erase", "clear"}, NEW at \in NodeOrNull,
         NEW i \in Side, NEW node \in NodeOrNull
  PROVE  /\ Call(op, at, i, node) \in Request
         /\ Call(op, at, i, node).op = op
         /\ Call(op, at, i, node).node = node
BY DEF Call, Request

\* The size of the tree in the next state, outside the search of an erase.
LEMMA SizeNext ==
  ASSUME IsFiniteSet(members'), t'.size = Cardinality(members'),
         ~ (pc' = "search" /\ req'.op = "erase")
  PROVE  SizeInv' /\ t'.size \in Nat
<1>1. Cardinality(members') \in Nat
  BY FS_CardinalityType
<1> QED BY <1>1 DEF SizeInv, SizeMatches, Size

\* A call that returns leaves a red-black tree.
LEMMA IdleNext ==
  ASSUME t' \in Heap, t'.size \in Nat, members' \in SUBSET Nodes, SizeInv', req' \in Request,
         Return,
         \E sub \in [Nodes -> SUBSET Nodes], bh \in [Nodes -> Nat] :
           RedBlack(t', members', sub, bh, NULL, NULL, 0)
  PROVE  Inv'
<1>1. pc' = "idle" /\ cur' = NULL /\ side' = 0
  BY DEF Return
<1>2. TypeOK'
  BY <1>1 DEF TypeOK, NodeOrNull, Side
<1>3. PICK sub \in [Nodes -> SUBSET Nodes], bh \in [Nodes -> Nat] :
        RedBlack(t', members', sub, bh, NULL, NULL, 0)
  OBVIOUS
<1>4. LoopInv(sub, bh)'
  BY <1>1, <1>3 DEF LoopInv, Idle, IdleInv
<1> QED BY <1>2, <1>4 DEF Inv

\* The head of the loop of insertNormalise.
LEMMA InsertNormaliseNext ==
  ASSUME t' \in Heap, t'.size \in Nat, members' \in SUBSET Nodes, SizeInv', req' \in Request,
         NEW n \in members', t'.red[n], Loop("insertNormalise", n, 0),
         NEW sub \in [Nodes -> SUBSET Nodes], NEW bh \in [Nodes -> Nat],
         RedBlack(t', members', sub, bh, n, NULL, 0)
  PROVE  Inv'
<1>1. pc' = "insertNormalise" /\ cur' = n /\ side' = 0
  BY DEF Loop
<1>2. TypeOK'
  BY <1>1 DEF TypeOK, NodeOrNull, Side
<1>3. LoopInv(sub, bh)'
  BY <1>1 DEF LoopInv, Idle, InsertInv
<1> QED BY <1>2, <1>3 DEF Inv

\* The head of the loop of eraseNodeNormalise.
LEMMA EraseNormaliseNext ==
  ASSUME t' \in Heap, t'.size \in Nat, members' \in SUBSET Nodes, SizeInv', req' \in Request,
         NEW n \in members', NEW i \in Side, ~ IsRed(t', t'.child[n][i]),
         Loop("eraseNormalise", n, i),
         NEW sub \in [Nodes -> SUBSET Nodes], NEW bh \in [Nodes -> Nat],
         RedBlack(t', members', sub, bh, NULL, n, i)
  PROVE  Inv'
<1>1. pc' = "eraseNormalise" /\ cur' = n /\ side' = i
  BY DEF Loop
<1>2. TypeOK'
  BY <1>1 DEF TypeOK, NodeOrNull
<1>3. EraseInv(sub, bh)'
  BY <1>1 DEF EraseInv
<1>4. LoopInv(sub, bh)'
  BY <1>1, <1>3 DEF LoopInv, Idle
<1> QED BY <1>2, <1>4 DEF Inv

\* Between calls the tree is red-black.
LEMMA IdleFacts ==
  ASSUME Inv, pc = "idle"
  PROVE  /\ t \in Heap /\ members \in SUBSET Nodes /\ IsFiniteSet(members)
         /\ t.size = Cardinality(members)
         /\ \E sub \in [Nodes -> SUBSET Nodes], bh \in [Nodes -> Nat] :
              RedBlack(t, members, sub, bh, NULL, NULL, 0)
BY DEF Inv, TypeOK, SizeInv, SizeMatches, Size, LoopInv, Idle, IdleInv

\* A tree without a root has no nodes.
LEMMA RootOfTree ==
  ASSUME NEW h, NEW M, NEW sub, Tree(h, M, sub)
  PROVE  (h.root = NULL <=> M = {}) /\ (h.root # NULL => h.root \in M)
BY NullNotNode DEF Tree, Linked, Subtrees, Sub

-----------------------------------------------------------------------------
(* Insertion *)

\* Into an empty tree.
LEMMA InsertRootNodeInv ==
  ASSUME Inv, pc = "idle", NEW ins \in Nodes \ members, t.root = NULL,
         req' \in Request, InsertRootNode(ins)
  PROVE  Inv'
<1>1. PICK sub \in [Nodes -> SUBSET Nodes], bh \in [Nodes -> Nat] :
        RedBlack(t, members, sub, bh, NULL, NULL, 0)
  BY IdleFacts
<1>2. t \in Heap /\ t.size = Cardinality(members)
  BY IdleFacts
<1>3. members = {} /\ members' = {ins} /\ t' = RootOnly(t, ins) /\ Return
  <2>1. members = {}
    BY <1>1, RootOfTree DEF RedBlack
  <2> QED BY <2>1 DEF InsertRootNode
<1>4. /\ t' \in Heap /\ t'.size = t.size + 1
      /\ RedBlack(t', members', [sub EXCEPT ![ins] = {ins}], [bh EXCEPT ![ins] = 1],
                  NULL, NULL, 0)
  BY <1>2, <1>3, RootOnlyRedBlack
<1>5. IsFiniteSet(members') /\ t'.size = Cardinality(members')
  <2>1. IsFiniteSet({}) /\ Cardinality({}) = 0
    BY FS_EmptySet
  <2>2. IsFiniteSet({} \cup {ins}) /\ Cardinality({} \cup {ins}) = 0 + 1
    BY <2>1, FS_AddElement
  <2>3. {} \cup {ins} = {ins}
    OBVIOUS
  <2> QED BY <1>2, <1>3, <1>4, <2>1, <2>2, <2>3
<1>6. SizeInv' /\ t'.size \in Nat
  BY <1>3, <1>5, SizeNext DEF Return
<1>7. /\ [sub EXCEPT ![ins] = {ins}] \in [Nodes -> SUBSET Nodes]
      /\ [bh EXCEPT ![ins] = 1] \in [Nodes -> Nat]
  OBVIOUS
<1> QED BY <1>3, <1>4, <1>6, <1>7, IdleNext

\* Below a leaf, at the end of a search or without one.
LEMMA InsertUnderLeafInv ==
  ASSUME t \in Heap, IsFiniteSet(members), t.size = Cardinality(members),
         members \in SUBSET Nodes,
         NEW sub \in [Nodes -> SUBSET Nodes], NEW bh \in [Nodes -> Nat],
         RedBlack(t, members, sub, bh, NULL, NULL, 0),
         NEW leaf \in members, NEW i \in Side, t.child[leaf][i] = NULL,
         NEW ins \in Nodes \ members, req' \in Request,
         InsertUnderLeafNode(leaf, i, ins)
  PROVE  Inv'
<1>1. /\ t' = LinkLeaf(t, leaf, i, ins) /\ members' = members \cup {ins}
      /\ Loop("insertNormalise", ins, 0)
  BY DEF InsertUnderLeafNode
<1>2. /\ t' \in Heap /\ t'.size = t.size + 1 /\ t'.red[ins]
      /\ RedBlack(t', members', GraftSub(sub, leaf, ins), [bh EXCEPT ![ins] = 0], ins, NULL, 0)
  <2> DEFINE g == LinkLeaf(t, leaf, i, ins)
  <2>1. /\ g \in Heap /\ g.size = t.size + 1 /\ g.red[ins]
        /\ Grafted(g, t, leaf, i, ins)
        /\ RedBlack(g, members \cup {ins}, GraftSub(sub, leaf, ins), [bh EXCEPT ![ins] = 0],
                    ins, NULL, 0)
    BY LinkLeafRedBlack
  <2> QED BY <1>1, <2>1
<1>3. IsFiniteSet(members') /\ t'.size = Cardinality(members')
  BY <1>1, <1>2, FS_AddElement
<1>4. SizeInv' /\ t'.size \in Nat
  BY <1>1, <1>3, SizeNext DEF Loop
<1>5. /\ GraftSub(sub, leaf, ins) \in [Nodes -> SUBSET Nodes]
      /\ [bh EXCEPT ![ins] = 0] \in [Nodes -> Nat]
  BY <1>2 DEF RedBlack, Tree
<1>6. ins \in members' /\ members' \in SUBSET Nodes
  BY <1>1
<1> QED BY <1>1, <1>2, <1>4, <1>5, <1>6, InsertNormaliseNext

\* A search for the place of a node that is not in the tree begins.
LEMMA SearchToInsertInv ==
  ASSUME Inv, pc = "idle", NEW n \in members, NEW i \in Side, Search(n, i),
         NEW op \in InsertOps, NEW at \in NodeOrNull, NEW k \in Side,
         NEW ins \in Nodes \ members, req' = Call(op, at, k, ins)
  PROVE  Inv'
<1>1. t' = t /\ members' = members /\ pc' = "search" /\ cur' = n /\ side' = i
  BY DEF Search, Loop
<1>2. req' \in Request /\ req'.op = op /\ req'.node = ins /\ op # "erase"
  <2>1. ins \in NodeOrNull /\ op \in InsertOps \cup {"none", "erase", "clear"}
    BY DEF NodeOrNull
  <2>2. op # "erase"
    BY DEF InsertOps
  <2> QED BY <2>1, <2>2, CallType
<1>3. PICK sub \in [Nodes -> SUBSET Nodes], bh \in [Nodes -> Nat] :
        RedBlack(t, members, sub, bh, NULL, NULL, 0)
  BY IdleFacts
<1>4. t \in Heap /\ members \in SUBSET Nodes /\ t.size \in Nat
  BY DEF Inv, TypeOK
<1>5. SizeInv'
  <2>1. IsFiniteSet(members) /\ t.size = Cardinality(members)
    BY IdleFacts
  <2> QED BY <1>1, <1>2, <2>1 DEF SizeInv, SizeMatches, Size
<1>6. TypeOK'
  BY <1>1, <1>2, <1>4 DEF TypeOK, NodeOrNull
<1>7. SearchInv(sub, bh)'
  BY <1>1, <1>2, <1>3 DEF SearchInv, Erasing
<1>8. LoopInv(sub, bh)'
  BY <1>1, <1>7 DEF LoopInv, Idle
<1> QED BY <1>5, <1>6, <1>8 DEF Inv

\* insert_before and insert_after of a node.
LEMMA InsertBesideInv ==
  ASSUME Inv, pc = "idle", NEW k \in Side, NEW at \in members, NEW ins \in Nodes \ members,
         NEW op \in InsertOps, NEW i \in Side, req' = Call(op, at, i, ins),
         InsertBeside(k, at, ins)
  PROVE  Inv'
<1>1. PICK sub \in [Nodes -> SUBSET Nodes], bh \in [Nodes -> Nat] :
        RedBlack(t, members, sub, bh, NULL, NULL, 0)
  BY IdleFacts
<1>2. /\ t \in Heap /\ members \in SUBSET Nodes /\ IsFiniteSet(members)
      /\ t.size = Cardinality(members)
  BY IdleFacts
<1>3. at \in NodeOrNull /\ ins \in NodeOrNull
  BY <1>2 DEF NodeOrNull
<1>4. CASE t.child[at][k] = NULL
  <2>1. InsertUnderLeafNode(at, k, ins)
    BY <1>4 DEF InsertBeside
  <2>2. req' \in Request
    BY <1>3, CallType
  <2> QED BY <1>1, <1>2, <1>4, <2>1, <2>2, InsertUnderLeafInv
<1>5. CASE t.child[at][k] # NULL
  <2>1. Search(t.child[at][k], Opp(k)) /\ Opp(k) \in Side
    BY <1>5, SideFacts DEF InsertBeside
  <2>2. t.child[at][k] \in members
    BY <1>1, <1>2, <1>5, TreeLocal DEF RedBlack
  <2> QED BY <1>3, <2>1, <2>2, SearchToInsertInv
<1> QED BY <1>4, <1>5

\* insert_before(end()) and insert_after(end()).
LEMMA InsertAtEndInv ==
  ASSUME Inv, pc = "idle", NEW i \in Side, NEW ins \in Nodes \ members,
         NEW op \in InsertOps, req' = Call(op, NULL, 0, ins),
         IF t.root = NULL THEN InsertRootNode(ins) ELSE Search(t.root, i)
  PROVE  Inv'
<1>1. NULL \in NodeOrNull /\ ins \in NodeOrNull /\ 0 \in Side
  BY DEF NodeOrNull, Side
<1>2. CASE t.root = NULL
  <2>1. req' \in Request
    BY <1>1, CallType
  <2> QED BY <1>2, <2>1, InsertRootNodeInv
<1>3. CASE t.root # NULL
  <2>1. t.root \in members
    <3>1. \E sub \in [Nodes -> SUBSET Nodes] : Tree(t, members, sub)
      BY IdleFacts DEF RedBlack
    <3> QED BY <1>3, <3>1, RootOfTree
  <2> QED BY <1>1, <1>3, <2>1, SearchToInsertInv
<1> QED BY <1>2, <1>3


\* A search takes a step down, and below the left child of the node that an
\* erase will swap it stays there.
LEMMA SearchPassInv ==
  ASSUME Inv, SearchPass
  PROVE  Inv'
<1>1. /\ pc = "search" /\ pc' = pc /\ t' = t /\ members' = members
      /\ side' = side /\ req' = req
      /\ t.child[cur][side] # NULL /\ cur' = t.child[cur][side]
  BY DEF SearchPass
<1>2. PICK sub \in [Nodes -> SUBSET Nodes], bh \in [Nodes -> Nat] : SearchInv(sub, bh)
  BY <1>1 DEF Inv, LoopInv
<1>3. TypeOK /\ SizeInv
  BY DEF Inv
<1>4. /\ t \in Heap /\ members \in SUBSET Nodes /\ side \in Side /\ cur \in members
      /\ RedBlack(t, members, sub, bh, NULL, NULL, 0) /\ Tree(t, members, sub)
  BY <1>2, <1>3 DEF TypeOK, SearchInv, RedBlack
<1>5. cur' \in members /\ t.parent[cur'] = cur
  BY <1>1, <1>4, TreeLocal
<1>6. TypeOK' /\ SizeInv'
  <2>1. TypeOK'
    BY <1>1, <1>3, <1>4, <1>5 DEF TypeOK, NodeOrNull
  <2> QED BY <1>1, <1>3, <2>1 DEF SizeInv, SizeMatches, Size
<1>7. Erasing => /\ req.node \in members /\ IsDeg2(t, req.node)
                 /\ cur' \in sub[t.child[req.node][0]] /\ side = 1
  <2> SUFFICES ASSUME Erasing
               PROVE  /\ req.node \in members /\ IsDeg2(t, req.node)
                      /\ cur' \in sub[t.child[req.node][0]] /\ side = 1
    OBVIOUS
  <2>1. /\ req.node \in members /\ IsDeg2(t, req.node) /\ side = 1
        /\ cur \in sub[t.child[req.node][0]]
    BY <1>2 DEF SearchInv
  <2>2. t.child[req.node][0] \in members
    BY <1>4, <2>1, TreeLocal DEF IsDeg2, Side
  <2>3. \A m, n \in members :
          m \in sub[n] <=> m = n \/ (t.parent[m] # NULL /\ t.parent[m] \in sub[n])
    BY <1>4 DEF Tree, Subtrees
  <2>4. cur # NULL
    BY <1>4, NullNotNode
  <2> QED BY <1>5, <2>1, <2>2, <2>3, <2>4
<1>8. SearchInv(sub, bh)'
  <2>1. Erasing' <=> Erasing
    BY <1>1 DEF Erasing
  <2>2. ~ Erasing => req.node \in Nodes \ members
    BY <1>2 DEF SearchInv
  <2> QED BY <1>1, <1>4, <1>5, <1>7, <2>1, <2>2 DEF SearchInv
<1>9. LoopInv(sub, bh)'
  BY <1>1, <1>8 DEF LoopInv, Idle
<1> QED BY <1>6, <1>9 DEF Inv

\* The leaf is found and the node is put there.
LEMMA SearchInsertInv ==
  ASSUME Inv, SearchInsert
  PROVE  Inv'
<1>1. /\ pc = "search" /\ req.op # "erase" /\ req' = req
      /\ t.child[cur][side] = NULL
      /\ InsertUnderLeafNode(cur, side, req.node)
  BY DEF SearchInsert
<1>2. PICK sub \in [Nodes -> SUBSET Nodes], bh \in [Nodes -> Nat] : SearchInv(sub, bh)
  BY <1>1 DEF Inv, LoopInv
<1>3. /\ t \in Heap /\ members \in SUBSET Nodes /\ side \in Side /\ req \in Request
      /\ IsFiniteSet(members) /\ t.size = Cardinality(members)
  BY <1>1 DEF Inv, TypeOK, SizeInv, SizeMatches, Size
<1>4. /\ cur \in members /\ req.node \in Nodes \ members
      /\ RedBlack(t, members, sub, bh, NULL, NULL, 0)
  BY <1>1, <1>2 DEF SearchInv, Erasing
<1> QED BY <1>1, <1>3, <1>4, InsertUnderLeafInv

-----------------------------------------------------------------------------
(* insertNormalise *)

\* What is known at its head.
LEMMA InsertNormaliseFacts ==
  ASSUME Inv, pc = "insertNormalise"
  PROVE  /\ t \in Heap /\ t.size \in Nat /\ members \in SUBSET Nodes
         /\ IsFiniteSet(members) /\ t.size = Cardinality(members)
         /\ req \in Request /\ cur \in members /\ t.red[cur]
         /\ \E sub \in [Nodes -> SUBSET Nodes], bh \in [Nodes -> Nat] :
              RedBlack(t, members, sub, bh, cur, NULL, 0)
<1>1. TypeOK /\ SizeInv
  BY DEF Inv
<1>2. PICK sub \in [Nodes -> SUBSET Nodes], bh \in [Nodes -> Nat] : InsertInv(sub, bh)
  BY DEF Inv, LoopInv
<1> QED BY <1>1, <1>2 DEF TypeOK, SizeInv, SizeMatches, Size, InsertInv

\* The red node is the root.
LEMMA NormaliseRootInv ==
  ASSUME Inv, NormaliseRoot
  PROVE  Inv'
<1>1. /\ pc = "insertNormalise" /\ t.parent[cur] = NULL
      /\ t' = [t EXCEPT !.red[cur] = FALSE]
      /\ Return /\ members' = members /\ req' = req
  BY DEF NormaliseRoot
<1>2. /\ t \in Heap /\ t.size \in Nat /\ members \in SUBSET Nodes
      /\ IsFiniteSet(members) /\ t.size = Cardinality(members)
      /\ req \in Request /\ cur \in members /\ t.red[cur]
  BY <1>1, InsertNormaliseFacts
<1>3. PICK sub \in [Nodes -> SUBSET Nodes], bh \in [Nodes -> Nat] :
        RedBlack(t, members, sub, bh, cur, NULL, 0)
  BY <1>1, InsertNormaliseFacts
<1> DEFINE g == [t EXCEPT !.red[cur] = FALSE]
           b == [bh EXCEPT ![cur] = bh[cur] + 1]
<1>4. g \in Heap /\ g.size = t.size /\ RedBlack(g, members, sub, b, NULL, NULL, 0)
  BY <1>1, <1>2, <1>3, BlackenRootRedBlack
<1>5. b \in [Nodes -> Nat]
  BY <1>4 DEF RedBlack, Heights
<1> HIDE DEF g, b
<1>6. t' = g
  BY <1>1 DEF g
<1>7. SizeInv' /\ t'.size \in Nat
  BY <1>1, <1>2, <1>4, <1>6, SizeNext DEF Return
<1> QED BY <1>1, <1>2, <1>4, <1>5, <1>6, <1>7, IdleNext

\* Its parent is black.
LEMMA NormaliseUnderBlackInv ==
  ASSUME Inv, NormaliseUnderBlack
  PROVE  Inv'
<1>1. /\ pc = "insertNormalise" /\ t.parent[cur] # NULL /\ ~ t.red[t.parent[cur]]
      /\ Return /\ t' = t /\ members' = members /\ req' = req
  BY DEF NormaliseUnderBlack
<1>2. /\ t \in Heap /\ t.size \in Nat /\ members \in SUBSET Nodes
      /\ IsFiniteSet(members) /\ t.size = Cardinality(members)
      /\ req \in Request /\ cur \in members /\ t.red[cur]
  BY <1>1, InsertNormaliseFacts
<1>3. PICK sub \in [Nodes -> SUBSET Nodes], bh \in [Nodes -> Nat] :
        RedBlack(t, members, sub, bh, cur, NULL, 0)
  BY <1>1, InsertNormaliseFacts
<1>4. RedBlack(t, members, sub, bh, NULL, NULL, 0)
  BY <1>1, <1>2, <1>3, UnderBlackRedBlack
<1>5. SizeInv'
  BY <1>1, <1>2, SizeNext DEF Return
<1> QED BY <1>1, <1>2, <1>4, <1>5, IdleNext

\* Its parent and uncle are red.
LEMMA NormaliseRecolourInv ==
  ASSUME Inv, NormaliseRecolour
  PROVE  Inv'
<1>1. /\ pc = "insertNormalise" /\ Parent # NULL /\ t.red[Parent] /\ IsRed(t, Uncle)
      /\ t' = Recolour(t, Parent, Uncle, Grandparent)
      /\ Loop("insertNormalise", Grandparent, 0)
      /\ members' = members /\ req' = req
  BY DEF NormaliseRecolour
<1>2. /\ t \in Heap /\ t.size \in Nat /\ members \in SUBSET Nodes
      /\ IsFiniteSet(members) /\ t.size = Cardinality(members)
      /\ req \in Request /\ cur \in members /\ t.red[cur]
  BY <1>1, InsertNormaliseFacts
<1>3. PICK sub \in [Nodes -> SUBSET Nodes], bh \in [Nodes -> Nat] :
        RedBlack(t, members, sub, bh, cur, NULL, 0)
  BY <1>1, InsertNormaliseFacts
<1> DEFINE g == Recolour(t, Parent, Uncle, Grandparent)
<1>4. /\ t.parent[cur] = Parent /\ t.parent[Parent] = Grandparent
      /\ GetChildId(t, Grandparent, Parent) = ParentId
      /\ t.child[Grandparent][Opp(ParentId)] = Uncle
  BY DEF Parent, Grandparent, ParentId, Uncle
<1>5. /\ g \in Heap /\ g.size = t.size /\ Grandparent \in members /\ g.red[Grandparent]
      /\ \E b \in [Nodes -> Nat] : RedBlack(g, members, sub, b, Grandparent, NULL, 0)
  BY <1>1, <1>2, <1>3, <1>4, RecolourRedBlack
<1>6. PICK b \in [Nodes -> Nat] : RedBlack(g, members, sub, b, Grandparent, NULL, 0)
  BY <1>5
<1> HIDE DEF g
<1>7. t' = g
  BY <1>1 DEF g
<1>8. SizeInv' /\ t'.size \in Nat
  BY <1>1, <1>2, <1>5, <1>7, SizeNext DEF Loop
<1> QED BY <1>1, <1>2, <1>5, <1>6, <1>7, <1>8, InsertNormaliseNext

\* Its parent is red and its uncle is not.
LEMMA NormaliseRotateInv ==
  ASSUME Inv, NormaliseRotate
  PROVE  Inv'
<1> DEFINE g == RotateGrandparent(t, cur, Parent, Grandparent, ParentId)
<1>1. /\ pc = "insertNormalise" /\ Parent # NULL /\ t.red[Parent] /\ ~ IsRed(t, Uncle)
      /\ t' = g /\ Return /\ members' = members /\ req' = req
  BY DEF NormaliseRotate
<1>2. /\ t \in Heap /\ t.size \in Nat /\ members \in SUBSET Nodes
      /\ IsFiniteSet(members) /\ t.size = Cardinality(members)
      /\ req \in Request /\ cur \in members /\ t.red[cur]
  BY <1>1, InsertNormaliseFacts
<1>3. PICK sub \in [Nodes -> SUBSET Nodes], bh \in [Nodes -> Nat] :
        RedBlack(t, members, sub, bh, cur, NULL, 0)
  BY <1>1, InsertNormaliseFacts
<1>4. /\ t.parent[cur] = Parent /\ t.parent[Parent] = Grandparent
      /\ GetChildId(t, Grandparent, Parent) = ParentId
      /\ t.child[Grandparent][Opp(ParentId)] = Uncle
  BY DEF Parent, Grandparent, ParentId, Uncle
<1>5. /\ g \in Heap /\ g.size = t.size
      /\ \E sub2 \in [Nodes -> SUBSET Nodes], b2 \in [Nodes -> Nat] :
           RedBlack(g, members, sub2, b2, NULL, NULL, 0)
  BY <1>1, <1>2, <1>3, <1>4, RotateGrandparentRedBlack
<1> HIDE DEF g
<1>6. SizeInv' /\ t'.size \in Nat
  BY <1>1, <1>2, <1>5, SizeNext DEF Return
<1> QED BY <1>1, <1>2, <1>5, <1>6, IdleNext

-----------------------------------------------------------------------------
(* Erasure *)

\* Where no black node is missing, the side does not matter.
LEMMA NothingMissing ==
  ASSUME NEW h, NEW M, NEW sub, NEW bh, NEW x, NEW s, RedBlack(h, M, sub, bh, x, NULL, s)
  PROVE  RedBlack(h, M, sub, bh, x, NULL, 0)
<1>1. \A n \in M, i \in Side : Credit(n, i, NULL, s) = Credit(n, i, NULL, 0)
  BY NullNotNode DEF RedBlack, Tree, Credit
<1>2. Heights(h, M, bh, NULL, 0)
  BY <1>1 DEF RedBlack, Heights
<1> QED BY <1>2 DEF RedBlack

\* The node n with at most one child is unlinked; heap h is the tree with the
\* size that it is to have.
LEMMA UnlinkInv ==
  ASSUME NEW h \in Heap, NEW sub, NEW bh,
         RedBlack(h, members, sub, bh, NULL, NULL, 0), NEW n \in members, ~ IsDeg2(h, n),
         IsFiniteSet(members), h.size = Cardinality(members) - 1,
         req' \in Request, Unlink(h, n)
  PROVE  Inv'
<1> DEFINE c == Single(h, n)
           p == h.parent[n]
           nid == GetChildId(h, p, n)
<1>1. /\ Tree(h, members, sub) /\ members \in SUBSET Nodes /\ n \in Nodes
      /\ NULL \notin members
  BY NullNotNode DEF RedBlack, Tree
<1>2. /\ c # NULL => /\ c \in members /\ c # n
                     /\ h.red[c] /\ ~ h.red[n]
      /\ c \in NodeOrNull /\ c # n
  <2>1. c # NULL => c \in members /\ c # n /\ h.red[c] /\ ~ h.red[n]
    BY SingleFacts DEF OnlyChild
  <2> QED BY <1>1, <2>1 DEF NodeOrNull
<1>3. p # NULL => p \in members /\ p # n /\ nid \in Side
  BY <1>1, ChildIdFacts
<1>4. members' = members \ {n}
  BY DEF Unlink
<1>5. /\ members' \in SUBSET Nodes /\ IsFiniteSet(members')
      /\ h.size = Cardinality(members')
  BY <1>1, <1>4, FS_RemoveElement
<1>6. ASSUME NEW q, NEW s, Pruned(t', h, n, c), PrunedColours(t', h, members, n, c),
             MissingAfter(h, n, c, p, q, s)
      PROVE  \E sub2 \in [Nodes -> SUBSET Nodes], b2 \in [Nodes -> Nat] :
               RedBlack(t', members', sub2, b2, NULL, q, s)
  <2>1. Single(h, n) = c /\ h.parent[n] = p
    OBVIOUS
  <2> HIDE DEF c, p, nid
  <2>2. \E sub2 \in [Nodes -> SUBSET Nodes], b2 \in [Nodes -> Nat] :
          RedBlack(t', members \ {n}, sub2, b2, NULL, q, s)
    BY <1>6, <2>1, PruneRedBlack
  <2> QED BY <1>4, <2>2
<1>7. ASSUME t'.size = h.size, Return, Pruned(t', h, n, c), p = NULL \/ c # NULL \/ h.red[n],
             PrunedColours(t', h, members, n, c)
      PROVE  Inv'
  <2>1. MissingAfter(h, n, c, p, NULL, nid)
    BY <1>7 DEF MissingAfter
  <2> HIDE DEF c, p, nid
  <2>2. PICK sub2 \in [Nodes -> SUBSET Nodes], b2 \in [Nodes -> Nat] :
          RedBlack(t', members', sub2, b2, NULL, NULL, nid)
    BY <1>6, <1>7, <2>1
  <2>3. RedBlack(t', members', sub2, b2, NULL, NULL, 0)
    BY <2>2, NothingMissing
  <2>4. t' \in Heap
    BY <1>7 DEF Pruned
  <2>5. SizeInv' /\ t'.size \in Nat
    BY <1>5, <1>7, SizeNext DEF Return
  <2> QED BY <1>5, <1>7, <2>3, <2>4, <2>5, IdleNext
<1>8. CASE p = NULL /\ t' = ReplaceRoot(h, c) /\ Return
  <2>1. h.parent[n] = NULL
    BY <1>8
  <2> HIDE DEF c, p, nid
  <2>2. Pruned(t', h, n, c) /\ t'.size = h.size /\ PrunedColours(t', h, members, n, c)
    BY <1>1, <1>2, <1>8, <2>1, ReplaceRootPruned
  <2> QED BY <1>7, <1>8, <2>2
<1>9. CASE p # NULL /\ c = NULL /\ h.red[n] /\ t' = ConnectNone(h, p, nid) /\ Return
  <2>1. t' = ConnectChildAuto(h, p, c, nid)
    BY <1>9 DEF ConnectChildAuto
  <2>2. Pruned(t', h, n, c) /\ t'.size = h.size /\ t'.red = h.red
    <3> HIDE DEF c
    <3> QED BY <1>1, <1>2, <1>9, <2>1, ConnectPruned
  <2>3. PrunedColours(t', h, members, n, c)
    BY <1>1, <1>9, <2>2 DEF PrunedColours
  <2> QED BY <1>7, <1>9, <2>2, <2>3
<1>10. CASE /\ p # NULL /\ c # NULL /\ Return
            /\ t' = [ConnectChild(h, p, c, nid) EXCEPT !.red[c] = FALSE]
  <2> DEFINE g == ConnectChildAuto(h, p, c, nid)
  <2>1. t' = SetRed(g, c, FALSE)
    BY <1>10 DEF ConnectChildAuto, SetRed
  <2>2. Pruned(g, h, n, c) /\ g.size = h.size /\ g.red = h.red
    <3> HIDE DEF c
    <3> QED BY <1>1, <1>2, <1>10, ConnectPruned
  <2> HIDE DEF g
  <2>3. /\ SameLinks(t', g)
        /\ \A m \in Nodes : t'.red[m] = IF m = c THEN FALSE ELSE g.red[m]
    <3>1. g \in Heap /\ c \in Nodes /\ FALSE \in BOOLEAN
      BY <1>1, <1>2, <1>10, <2>2 DEF Pruned
    <3> HIDE DEF c
    <3>2. SameLinks(t', g)
      BY <2>1, <3>1, SetRedFacts
    <3>3. \A v \in BOOLEAN, m \in Nodes : SetRed(g, c, v).red[m] = IF m = c THEN v ELSE g.red[m]
      BY <3>1, SetRedFacts
    <3> QED BY <2>1, <3>1, <3>2, <3>3
  <2>4. Pruned(t', h, n, c) /\ t'.size = h.size
    BY <2>2, <2>3 DEF SameLinks, Pruned
  <2>5. PrunedColours(t', h, members, n, c)
    BY <1>1, <2>2, <2>3 DEF PrunedColours
  <2> QED BY <1>7, <1>10, <2>4, <2>5
<1>11. CASE /\ p # NULL /\ c = NULL /\ ~ h.red[n]
            /\ t' = ConnectNone(h, p, nid) /\ Loop("eraseNormalise", p, nid)
  <2>1. t' = ConnectChildAuto(h, p, c, nid)
    BY <1>11 DEF ConnectChildAuto
  <2>2. Pruned(t', h, n, c) /\ t'.size = h.size /\ t'.red = h.red
    <3> HIDE DEF c
    <3> QED BY <1>1, <1>2, <1>11, <2>1, ConnectPruned
  <2>3. PrunedColours(t', h, members, n, c)
    BY <1>1, <1>11, <2>2 DEF PrunedColours
  <2>4. PICK sub2 \in [Nodes -> SUBSET Nodes], b2 \in [Nodes -> Nat] :
          RedBlack(t', members', sub2, b2, NULL, p, nid)
    <3>1. MissingAfter(h, n, c, p, p, nid)
      BY <1>11 DEF MissingAfter
    <3> HIDE DEF c, p, nid
    <3> QED BY <1>6, <2>2, <2>3, <3>1
  <2>5. t'.child[p][nid] = NULL
    BY <1>1, <1>3, <1>11 DEF ConnectNone, Heap
  <2>6. t' \in Heap /\ p \in members' /\ nid \in Side /\ ~ IsRed(t', t'.child[p][nid])
    BY <1>3, <1>4, <1>11, <2>2, <2>5 DEF Pruned, IsRed
  <2>7. SizeInv' /\ t'.size \in Nat
    BY <1>5, <1>11, <2>2, SizeNext DEF Loop
  <2> HIDE DEF p, nid, c
  <2> QED BY <1>5, <1>11, <2>4, <2>6, <2>7, EraseNormaliseNext
<1>12. QED
  <2>1. \/ p = NULL /\ t' = ReplaceRoot(h, c) /\ Return
        \/ p # NULL /\ c = NULL /\ h.red[n] /\ t' = ConnectNone(h, p, nid) /\ Return
        \/ /\ p # NULL /\ c # NULL /\ h.red[n] # h.red[c]
           /\ t' = [ConnectChild(h, p, c, nid) EXCEPT !.red[c] = FALSE] /\ Return
        \/ /\ p # NULL /\ IF c = NULL THEN ~ h.red[n] ELSE h.red[n] = h.red[c]
           /\ t' = ConnectNone(h, p, nid) /\ Loop("eraseNormalise", p, nid)
    BY DEF Unlink
  <2>2. c # NULL => h.red[n] # h.red[c]
    BY <1>2
  <2> HIDE DEF c, p, nid
  <2> QED BY <1>8, <1>9, <1>10, <1>11, <2>1, <2>2

\* A tree does not know its size.
LEMMA ShrinkRedBlack ==
  ASSUME NEW h \in Heap, NEW M, NEW sub, NEW bh,
         RedBlack(h, M, sub, bh, NULL, NULL, 0), NEW g, Shrink(h) = g
  PROVE  /\ g \in Heap /\ g.size = h.size - 1
         /\ g.child = h.child
         /\ RedBlack(g, M, sub, bh, NULL, NULL, 0)
<1>1. /\ g.root = h.root /\ g.parent = h.parent /\ g.child = h.child /\ g.red = h.red
      /\ g.size = h.size - 1 /\ g \in Heap
  BY DEF Shrink, Heap
<1>2. Tree(g, M, sub)
  <2>1. Linked(g, M)
    BY <1>1 DEF RedBlack, Tree, Linked
  <2>2. Subtrees(g, M, sub)
    BY <1>1 DEF RedBlack, Tree, Subtrees
  <2> QED BY <2>1, <2>2 DEF RedBlack, Tree
<1>3. NoRedPair(g, M, NULL)
  BY <1>1 DEF RedBlack, NoRedPair
<1>4. Heights(g, M, bh, NULL, 0)
  BY <1>1 DEF RedBlack, Heights, Own
<1> QED BY <1>1, <1>2, <1>3, <1>4 DEF RedBlack

\* The node to be erased has at most one child.
LEMMA EraseDeg1Inv ==
  ASSUME Inv, NEW n \in members, EraseDeg1(n)
  PROVE  Inv'
<1>1. /\ pc = "idle" /\ ~ IsDeg2(t, n) /\ Unlink(Shrink(t), n)
      /\ req' = Call("erase", NULL, 0, n)
  BY DEF EraseDeg1
<1>2. PICK sub \in [Nodes -> SUBSET Nodes], bh \in [Nodes -> Nat] :
        RedBlack(t, members, sub, bh, NULL, NULL, 0)
  BY <1>1, IdleFacts
<1>3. /\ t \in Heap /\ IsFiniteSet(members) /\ t.size = Cardinality(members)
      /\ members \in SUBSET Nodes
  BY <1>1, IdleFacts
<1> DEFINE h == Shrink(t)
<1>4. /\ h \in Heap /\ h.size = t.size - 1 /\ h.child = t.child
      /\ RedBlack(h, members, sub, bh, NULL, NULL, 0)
  BY <1>2, <1>3, ShrinkRedBlack
<1>5. ~ IsDeg2(h, n)
  BY <1>1, <1>4 DEF IsDeg2
<1>6. Unlink(h, n)
  BY <1>1
<1> HIDE DEF h
<1>7. req' \in Request
  <2>1. NULL \in NodeOrNull /\ n \in NodeOrNull /\ 0 \in Side
    BY <1>3 DEF NodeOrNull, Side
  <2> QED BY <1>1, <2>1, CallType
<1> QED BY <1>3, <1>4, <1>5, <1>6, <1>7, UnlinkInv

\* The search for its predecessor begins.
LEMMA EraseDeg2Inv ==
  ASSUME Inv, NEW n \in members, EraseDeg2(n)
  PROVE  Inv'
<1>1. /\ pc = "idle" /\ IsDeg2(t, n) /\ req' = Call("erase", NULL, 0, n)
      /\ t' = Shrink(t) /\ members' = members
      /\ pc' = "search" /\ cur' = t.child[n][0] /\ side' = 1
  BY DEF EraseDeg2, Loop
<1>2. PICK sub \in [Nodes -> SUBSET Nodes], bh \in [Nodes -> Nat] :
        RedBlack(t, members, sub, bh, NULL, NULL, 0)
  BY <1>1, IdleFacts
<1>3. /\ t \in Heap /\ IsFiniteSet(members) /\ t.size = Cardinality(members)
      /\ members \in SUBSET Nodes
  BY <1>1, IdleFacts
<1>4. /\ t' \in Heap /\ t'.size = t.size - 1 /\ t'.child = t.child
      /\ RedBlack(t', members, sub, bh, NULL, NULL, 0)
  BY <1>1, <1>2, <1>3, ShrinkRedBlack
<1>5. /\ cur' \in members /\ cur' \in sub[cur'] /\ IsDeg2(t', n)
  <2>1. Tree(t, members, sub) /\ 0 \in Side /\ t.child[n][0] # NULL
    BY <1>1, <1>2 DEF RedBlack, Side, IsDeg2
  <2>2. cur' \in members
    BY <1>1, <1>3, <2>1, TreeLocal
  <2>3. cur' \in sub[cur']
    BY <1>3, <2>1, <2>2, TreeLocal
  <2> QED BY <1>1, <1>4, <2>2, <2>3 DEF IsDeg2
<1>6. req' \in Request /\ req'.op = "erase" /\ req'.node = n
  <2>1. NULL \in NodeOrNull /\ n \in NodeOrNull /\ 0 \in Side
    BY <1>3 DEF NodeOrNull, Side
  <2> QED BY <1>1, <2>1, CallType
<1>7. SizeInv' /\ t'.size \in Nat
  <2>1. t'.size = Cardinality(members) - 1
    BY <1>3, <1>4
  <2>2. Cardinality(members) - 1 \in Nat
    <3>1. IsFiniteSet(members \ {n}) /\ Cardinality(members \ {n}) = Cardinality(members) - 1
      BY <1>3, FS_RemoveElement
    <3>2. Cardinality(members \ {n}) \in Nat
      BY <3>1, FS_CardinalityType
    <3> QED BY <3>1, <3>2
  <2> QED BY <1>1, <1>3, <1>6, <2>1, <2>2 DEF SizeInv, SizeMatches, Size
<1>8. TypeOK'
  BY <1>1, <1>3, <1>4, <1>5, <1>6, <1>7 DEF TypeOK, NodeOrNull, Side
<1>9. SearchInv(sub, bh)'
  BY <1>1, <1>4, <1>5, <1>6 DEF SearchInv, Erasing
<1>10. LoopInv(sub, bh)'
  BY <1>1, <1>9 DEF LoopInv, Idle
<1> QED BY <1>7, <1>8, <1>10 DEF Inv

\* The predecessor is found: the two nodes change places, and the one to be
\* erased now has no right child.
LEMMA SearchEraseInv ==
  ASSUME Inv, SearchErase
  PROVE  Inv'
<1> DEFINE a == req.node
           h == SwapNode(t, a, cur)
<1>1. /\ pc = "search" /\ Erasing /\ t.child[cur][side] = NULL
      /\ Unlink(h, a) /\ req' = req
  BY DEF SearchErase, Erasing
<1>2. PICK sub \in [Nodes -> SUBSET Nodes], bh \in [Nodes -> Nat] : SearchInv(sub, bh)
  BY <1>1 DEF Inv, LoopInv
<1>3. /\ t \in Heap /\ members \in SUBSET Nodes /\ req \in Request
      /\ IsFiniteSet(members) /\ t.size = Cardinality(members) - 1
  BY <1>1 DEF Inv, TypeOK, SizeInv, SizeMatches, Size, Erasing
<1>4. /\ RedBlack(t, members, sub, bh, NULL, NULL, 0) /\ Tree(t, members, sub)
      /\ cur \in members /\ a \in members /\ IsDeg2(t, a)
      /\ cur \in sub[t.child[a][0]] /\ side = 1
  BY <1>1, <1>2 DEF SearchInv, RedBlack
<1> HIDE DEF a
<1>5. cur \in sub[a] /\ cur # a
  <2>1. 0 \in Side /\ Sub(sub, t.child[a][0]) = sub[t.child[a][0]]
    BY <1>4 DEF IsDeg2, Sub, Side
  <2>2. sub[t.child[a][0]] \subseteq sub[a] /\ a \notin sub[t.child[a][0]]
    BY <1>4, <2>1, SubtreesAt
  <2> QED BY <1>4, <2>2
<1>6. /\ h \in Heap /\ h.size = t.size
      /\ \E sub2 \in [Nodes -> SUBSET Nodes], b2 \in [Nodes -> Nat] :
           RedBlack(h, members, sub2, b2, NULL, NULL, 0)
      /\ \A j \in Side : t.child[cur][j] = NULL => h.child[a][j] = NULL
  BY <1>3, <1>4, <1>5, SwapNodeRedBlack
<1> HIDE DEF h
<1>7. ~ IsDeg2(h, a)
  BY <1>1, <1>4, <1>6 DEF IsDeg2, Side
<1> QED BY <1>1, <1>3, <1>4, <1>6, <1>7, UnlinkInv

-----------------------------------------------------------------------------
(* eraseNodeNormalise *)

\* What is known once the sibling is black.
LEMMA LevelledFacts ==
  ASSUME Inv, pc = "eraseNormalise"
  PROVE  /\ members \in SUBSET Nodes /\ IsFiniteSet(members)
         /\ cur \in members /\ side \in Side /\ req \in Request
         /\ Levelled \in Heap /\ Levelled.size = Cardinality(members)
         /\ ~ Levelled.red[S]
         /\ \E sub \in [Nodes -> SUBSET Nodes], bh \in [Nodes -> Nat] :
              RedBlack(Levelled, members, sub, bh, NULL, cur, side)
<1>1. PICK sub \in [Nodes -> SUBSET Nodes], bh \in [Nodes -> Nat] : EraseInv(sub, bh)
  BY DEF Inv, LoopInv
<1>2. /\ t \in Heap /\ members \in SUBSET Nodes /\ IsFiniteSet(members)
      /\ t.size = Cardinality(members) /\ side \in Side /\ req \in Request
  BY DEF Inv, TypeOK, SizeInv, SizeMatches, Size
<1>3. /\ RedBlack(t, members, sub, bh, NULL, cur, side)
      /\ cur \in members /\ ~ IsRed(t, t.child[cur][side])
  BY <1>1 DEF EraseInv
<1> DEFINE g == BlackSibling(t)
<1>4. /\ g \in Heap /\ g.size = t.size /\ ~ g.red[Sibling(g)]
      /\ \E sub2 \in [Nodes -> SUBSET Nodes], b2 \in [Nodes -> Nat] :
           RedBlack(g, members, sub2, b2, NULL, cur, side)
  BY <1>2, <1>3, BlackSiblingRedBlack
<1>5. Levelled = g /\ S = Sibling(g)
  BY DEF Levelled, S
<1> HIDE DEF g
<1> QED BY <1>2, <1>3, <1>4, <1>5

\* Both nephews and P are black.
LEMMA NormaliseErase3Inv ==
  ASSUME Inv, NormaliseErase3
  PROVE  Inv'
<1> DEFINE h == Levelled
           s == S
           gp == h.parent[cur]
           j == GetChildId(h, gp, cur)
<1>1. /\ pc = "eraseNormalise" /\ BlackNephews /\ ~ h.red[cur]
      /\ t' = SetRed(h, s, TRUE) /\ members' = members /\ req' = req
      /\ IF gp = NULL THEN Return ELSE Loop("eraseNormalise", gp, j)
  BY DEF NormaliseErase3, SetRed
<1>2. /\ members \in SUBSET Nodes /\ IsFiniteSet(members)
      /\ cur \in members /\ side \in Side /\ req \in Request
      /\ h \in Heap /\ h.size = Cardinality(members) /\ ~ h.red[s]
  BY <1>1, LevelledFacts
<1>3. PICK sub \in [Nodes -> SUBSET Nodes], bh \in [Nodes -> Nat] :
        RedBlack(h, members, sub, bh, NULL, cur, side)
  BY <1>1, LevelledFacts
<1>4. Sibling(h) = s
  BY DEF S
<1>5. \A i \in Side : ~ IsRed(h, h.child[s][i])
  BY <1>1 DEF BlackNephews
<1> HIDE DEF h, s, gp, j
<1>6. s \in members /\ s # cur /\ Tree(h, members, sub) /\ h.parent[cur] = gp
  <2>1. s \in members /\ s # cur
    BY <1>2, <1>3, <1>4, SiblingFacts
  <2> QED BY <1>3, <2>1 DEF RedBlack, gp
<1>7. /\ SameLinks(t', h) /\ t' \in Heap /\ t'.size = h.size
      /\ \A m \in Nodes : t'.red[m] = IF m = s THEN TRUE
                                       ELSE IF m = cur THEN FALSE ELSE h.red[m]
  <2>1. s \in Nodes /\ TRUE \in BOOLEAN /\ cur \in Nodes
    BY <1>2, <1>6
  <2>2. SameLinks(t', h)
    BY <1>1, <1>2, <2>1, SetRedFacts
  <2>3. \A v \in BOOLEAN, m \in Nodes : SetRed(h, s, v).red[m] = IF m = s THEN v ELSE h.red[m]
    BY <1>2, <2>1, SetRedFacts
  <2>4. \A m \in Nodes : t'.red[m] = IF m = s THEN TRUE ELSE h.red[m]
    BY <1>1, <2>1, <2>3
  <2>5. h.red[cur] = FALSE
    BY <1>1, <1>2, <2>1, HeapFacts
  <2> QED BY <2>2, <2>4, <2>5 DEF SameLinks
<1>8. SizeInv' /\ t'.size \in Nat
  <2>1. ~ (pc' = "search" /\ req'.op = "erase")
    BY <1>1 DEF Return, Loop
  <2> QED BY <1>1, <1>2, <1>7, <2>1, SizeNext
<1>9. ASSUME NEW q, NEW i,
             IF h.red[cur] \/ gp = NULL THEN q = NULL ELSE q = gp /\ i = GetChildId(h, gp, cur)
      PROVE  \E b \in [Nodes -> Nat] : RedBlack(t', members, sub, b, NULL, q, i)
  BY <1>2, <1>3, <1>4, <1>5, <1>6, <1>7, <1>9, RedSiblingRedBlack
<1>10. CASE gp = NULL
  <2>1. \E b \in [Nodes -> Nat] : RedBlack(t', members, sub, b, NULL, NULL, 0)
    BY <1>9, <1>10
  <2> QED BY <1>1, <1>2, <1>7, <1>8, <1>10, <2>1, IdleNext
<1>11. CASE gp # NULL
  <2>1. PICK b \in [Nodes -> Nat] : RedBlack(t', members, sub, b, NULL, gp, j)
    <3>1. j = GetChildId(h, gp, cur)
      BY DEF j
    <3> QED BY <1>1, <1>9, <1>11, <3>1
  <2>2. gp \in members /\ j \in Side /\ h.child[gp][j] = cur
    <3>1. GetChildId(h, gp, cur) = j
      BY DEF j
    <3> QED BY <1>2, <1>6, <1>11, <3>1, ChildIdFacts
  <2>3. ~ IsRed(t', t'.child[gp][j])
    <3>1. t'.child[gp][j] = cur
      BY <1>7, <2>2 DEF SameLinks
    <3>2. ~ t'.red[cur]
      BY <1>2, <1>6, <1>7
    <3> QED BY <3>1, <3>2 DEF IsRed
  <2>4. gp \in members' /\ members' \in SUBSET Nodes /\ req' \in Request
        /\ Loop("eraseNormalise", gp, j)
    BY <1>1, <1>2, <1>11, <2>2
  <2> QED BY <1>1, <1>7, <1>8, <2>1, <2>2, <2>3, <2>4, EraseNormaliseNext
<1> QED BY <1>10, <1>11

\* Both nephews are black and P is red.
LEMMA NormaliseErase4Inv ==
  ASSUME Inv, NormaliseErase4
  PROVE  Inv'
<1> DEFINE h == Levelled
           s == S
           gp == h.parent[cur]
           k == SetRed(h, cur, FALSE)
<1>1. /\ pc = "eraseNormalise" /\ BlackNephews /\ h.red[cur]
      /\ t' = SetRed(k, s, TRUE) /\ members' = members /\ req' = req /\ Return
  BY DEF NormaliseErase4, SetRed
<1>2. /\ members \in SUBSET Nodes /\ IsFiniteSet(members)
      /\ cur \in members /\ side \in Side /\ req \in Request
      /\ h \in Heap /\ h.size = Cardinality(members) /\ ~ h.red[s]
  BY <1>1, LevelledFacts
<1>3. PICK sub \in [Nodes -> SUBSET Nodes], bh \in [Nodes -> Nat] :
        RedBlack(h, members, sub, bh, NULL, cur, side)
  BY <1>1, LevelledFacts
<1>4. Sibling(h) = s
  BY DEF S
<1>5. \A i \in Side : ~ IsRed(h, h.child[s][i])
  BY <1>1 DEF BlackNephews
<1> HIDE DEF h, s, gp
<1>6. s \in members /\ s # cur /\ h.parent[cur] = gp
  <2>1. s \in members /\ s # cur
    BY <1>2, <1>3, <1>4, SiblingFacts
  <2> QED BY <2>1 DEF gp
<1>7. /\ SameLinks(t', h) /\ t' \in Heap /\ t'.size = h.size
      /\ \A m \in Nodes : t'.red[m] = IF m = s THEN TRUE
                                       ELSE IF m = cur THEN FALSE ELSE h.red[m]
  <2>1. s \in Nodes /\ TRUE \in BOOLEAN /\ cur \in Nodes /\ FALSE \in BOOLEAN
    BY <1>2, <1>6
  <2>2. SameLinks(k, h)
    BY <1>2, <2>1, SetRedFacts
  <2>3. \A v \in BOOLEAN, m \in Nodes : SetRed(h, cur, v).red[m] = IF m = cur THEN v ELSE h.red[m]
    BY <1>2, <2>1, SetRedFacts
  <2>4. \A m \in Nodes : k.red[m] = IF m = cur THEN FALSE ELSE h.red[m]
    BY <2>1, <2>3
  <2> HIDE DEF k
  <2>5. k \in Heap
    BY <2>2 DEF SameLinks
  <2>6. SameLinks(t', k)
    BY <1>1, <2>1, <2>5, SetRedFacts
  <2>7. \A v \in BOOLEAN, m \in Nodes : SetRed(k, s, v).red[m] = IF m = s THEN v ELSE k.red[m]
    BY <2>1, <2>5, SetRedFacts
  <2>8. \A m \in Nodes : t'.red[m] = IF m = s THEN TRUE ELSE k.red[m]
    BY <1>1, <2>1, <2>7
  <2> QED BY <2>2, <2>4, <2>6, <2>8 DEF SameLinks
<1> HIDE DEF k
<1>8. SizeInv' /\ t'.size \in Nat
  BY <1>1, <1>2, <1>7, SizeNext DEF Return
<1>9. ASSUME NEW q, NEW i,
             IF h.red[cur] \/ gp = NULL THEN q = NULL ELSE q = gp /\ i = GetChildId(h, gp, cur)
      PROVE  \E b \in [Nodes -> Nat] : RedBlack(t', members, sub, b, NULL, q, i)
  BY <1>2, <1>3, <1>4, <1>5, <1>6, <1>7, <1>9, RedSiblingRedBlack
<1>10. \E b \in [Nodes -> Nat] : RedBlack(t', members, sub, b, NULL, NULL, 0)
  BY <1>1, <1>9
<1> QED BY <1>1, <1>2, <1>7, <1>8, <1>10, IdleNext

\* A nephew is red.
LEMMA NormaliseErase56Inv ==
  ASSUME Inv, NormaliseErase56
  PROVE  Inv'
<1> DEFINE h == Levelled
           s == S
           u == RedOuterNephew(h, s)
           f == u.child[Sibling(u)][Opp(side)]
           g == RotateParent(u)
<1>1. /\ pc = "eraseNormalise" /\ ~ BlackNephews
      /\ t' = g /\ members' = members /\ req' = req /\ Return
  BY DEF NormaliseErase56
<1>2. /\ members \in SUBSET Nodes /\ IsFiniteSet(members)
      /\ cur \in members /\ side \in Side /\ req \in Request
      /\ h \in Heap /\ h.size = Cardinality(members) /\ ~ h.red[s]
  BY <1>1, LevelledFacts
<1>3. PICK sub \in [Nodes -> SUBSET Nodes], bh \in [Nodes -> Nat] :
        RedBlack(h, members, sub, bh, NULL, cur, side)
  BY <1>1, LevelledFacts
<1>4. Sibling(h) = s /\ ~ \A i \in Side : ~ IsRed(h, h.child[s][i])
  BY <1>1 DEF S, BlackNephews
<1> HIDE DEF h, s
<1>5. /\ u \in Heap /\ u.size = h.size
      /\ ~ u.red[Sibling(u)] /\ IsRed(u, f)
      /\ \E sub2 \in [Nodes -> SUBSET Nodes], b2 \in [Nodes -> Nat], x \in NodeOrNull :
           /\ RedBlack(u, members, sub2, b2, x, cur, side)
           /\ x # NULL => x # cur /\ u.parent[x] = f
  BY <1>2, <1>3, <1>4, OuterNephewRedBlack
<1> HIDE DEF u
<1>6. PICK sub2 \in [Nodes -> SUBSET Nodes], b2 \in [Nodes -> Nat], x \in NodeOrNull :
           /\ RedBlack(u, members, sub2, b2, x, cur, side)
           /\ x # NULL => x # cur /\ u.parent[x] = f
  BY <1>5
<1>7. u.child[Sibling(u)][Opp(side)] = f
  OBVIOUS
<1> HIDE DEF f
<1>8. /\ g \in Heap /\ g.size = u.size
      /\ \E sub3 \in [Nodes -> SUBSET Nodes], b3 \in [Nodes -> Nat] :
           RedBlack(g, members, sub3, b3, NULL, NULL, 0)
  BY <1>2, <1>5, <1>6, <1>7, RotateParentRedBlack
<1> HIDE DEF g
<1>9. SizeInv' /\ t'.size \in Nat
  BY <1>1, <1>2, <1>5, <1>8, SizeNext DEF Return
<1> QED BY <1>1, <1>2, <1>8, <1>9, IdleNext

-----------------------------------------------------------------------------
(* The theorems *)

\* A heap without a root is a tree without nodes.
LEMMA EmptyRedBlack ==
  ASSUME NEW h \in Heap, h.root = NULL
  PROVE  \E sub \in [Nodes -> SUBSET Nodes], bh \in [Nodes -> Nat] :
           RedBlack(h, {}, sub, bh, NULL, NULL, 0)
<1> DEFINE sub == [n \in Nodes |-> {}]
           bh == [n \in Nodes |-> 0]
<1>1. Tree(h, {}, sub)
  BY DEF Tree, Linked, Subtrees, Sub
<1>2. NoRedPair(h, {}, NULL) /\ Heights(h, {}, bh, NULL, 0)
  BY DEF NoRedPair, Heights
<1>3. sub \in [Nodes -> SUBSET Nodes] /\ bh \in [Nodes -> Nat]
  OBVIOUS
<1> HIDE DEF sub, bh
<1> QED BY <1>1, <1>2, <1>3 DEF RedBlack

\* clear() leaves an empty tree.
LEMMA ClearInv ==
  ASSUME Inv, Clear
  PROVE  Inv'
<1>1. /\ pc = "idle" /\ req' = Call("clear", NULL, 0, NULL) /\ members' = {}
      /\ t' = [t EXCEPT !.root = NULL, !.size = 0]
      /\ pc' = pc /\ cur' = cur /\ side' = side
  BY DEF Clear
<1>2. TypeOK
  BY DEF Inv
<1>3. t' \in Heap /\ t'.root = NULL /\ t'.size = 0
  <2> DEFINE f == [t EXCEPT !.root = NULL]
             g == [f EXCEPT !.size = 0]
  <2>1. f \in Heap /\ f.root = NULL
    BY <1>2 DEF TypeOK, Heap, NodeOrNull
  <2>2. t' = g
    BY <1>1
  <2> HIDE DEF f
  <2>3. g \in Heap /\ g.root = NULL /\ g.size = 0
    BY <2>1 DEF Heap
  <2> QED BY <2>2, <2>3
<1>4. req' \in Request
  <2>1. NULL \in NodeOrNull /\ 0 \in Side
    BY DEF NodeOrNull, Side
  <2> QED BY <1>1, <2>1, CallType
<1>5. SizeInv' /\ t'.size \in Nat
  BY <1>1, <1>3, FS_EmptySet, SizeNext
<1>6. TypeOK'
  BY <1>1, <1>2, <1>3, <1>4, <1>5 DEF TypeOK
<1>7. PICK sub \in [Nodes -> SUBSET Nodes], bh \in [Nodes -> Nat] :
        RedBlack(t', members', sub, bh, NULL, NULL, 0)
  BY <1>1, <1>3, EmptyRedBlack
<1>8. LoopInv(sub, bh)'
  BY <1>1, <1>7 DEF LoopInv, Idle, IdleInv
<1> QED BY <1>5, <1>6, <1>8 DEF Inv

\* A new tree satisfies the invariant.
LEMMA InitInv == Init => Inv
<1> SUFFICES ASSUME Init PROVE Inv
  OBVIOUS
<1>1. t = EmptyHeap /\ members = {} /\ pc = "idle" /\ cur = NULL /\ side = 0
      /\ req = Call("none", NULL, 0, NULL)
  BY DEF Init
<1>2. t \in Heap /\ t.root = NULL /\ t.size = 0
  BY <1>1 DEF EmptyHeap, Heap, NodeOrNull, NoChildren
<1>3. req \in Request
  <2>1. NULL \in NodeOrNull /\ 0 \in Side
    BY DEF NodeOrNull, Side
  <2> QED BY <1>1, <2>1, CallType
<1>4. TypeOK
  BY <1>1, <1>2, <1>3 DEF TypeOK, NodeOrNull, Side
<1>5. SizeInv
  BY <1>1, <1>2, FS_EmptySet DEF SizeInv, SizeMatches, Size
<1>6. PICK sub \in [Nodes -> SUBSET Nodes], bh \in [Nodes -> Nat] :
        RedBlack(t, members, sub, bh, NULL, NULL, 0)
  BY <1>1, <1>2, EmptyRedBlack
<1>7. LoopInv(sub, bh)
  BY <1>1, <1>6 DEF LoopInv, Idle, IdleInv
<1> QED BY <1>4, <1>5, <1>7 DEF Inv

\* Every step preserves it: each call of a client, and each pass of a loop.
LEMMA NextInv == Inv /\ [Next]_vars => Inv'
<1> SUFFICES ASSUME Inv, [Next]_vars PROVE Inv'
  OBVIOUS
<1>1. CASE UNCHANGED vars
  <2>1. TypeOK' /\ SizeInv'
    BY <1>1 DEF Inv, vars, TypeOK, SizeInv, SizeMatches, Size
  <2>2. PICK sub \in [Nodes -> SUBSET Nodes], bh \in [Nodes -> Nat] : LoopInv(sub, bh)
    BY DEF Inv
  <2>3. LoopInv(sub, bh)'
    BY <1>1, <2>2 DEF vars, LoopInv, Idle, IdleInv, SearchInv, InsertInv, EraseInv, Erasing
  <2> QED BY <2>1, <2>3 DEF Inv
<1>2. ASSUME NEW ins \in Nodes \ members, InsertRoot(ins) PROVE Inv'
  <2>1. pc = "idle" /\ t.root = NULL /\ InsertRootNode(ins)
        /\ req' = Call("insert_root", NULL, 0, ins)
    BY <1>2 DEF InsertRoot
  <2>2. req' \in Request
    <3>1. NULL \in NodeOrNull /\ ins \in NodeOrNull /\ 0 \in Side
      BY DEF NodeOrNull, Side
    <3> QED BY <2>1, <3>1, CallType DEF InsertOps
  <2> QED BY <2>1, <2>2, InsertRootNodeInv
<1>3. ASSUME NEW ins \in Nodes \ members, InsertBeforeEnd(ins) PROVE Inv'
  <2>1. /\ pc = "idle" /\ req' = Call("insert_before", NULL, 0, ins)
        /\ IF t.root = NULL THEN InsertRootNode(ins) ELSE Search(t.root, 1)
    BY <1>3 DEF InsertBeforeEnd
  <2>2. "insert_before" \in InsertOps /\ 1 \in Side
    BY DEF InsertOps, Side
  <2> QED BY <2>1, <2>2, InsertAtEndInv
<1>4. ASSUME NEW ins \in Nodes \ members, InsertAfterEnd(ins) PROVE Inv'
  <2>1. /\ pc = "idle" /\ req' = Call("insert_after", NULL, 0, ins)
        /\ IF t.root = NULL THEN InsertRootNode(ins) ELSE Search(t.root, 0)
    BY <1>4 DEF InsertAfterEnd
  <2>2. "insert_after" \in InsertOps /\ 0 \in Side
    BY DEF InsertOps, Side
  <2> QED BY <2>1, <2>2, InsertAtEndInv
<1>5. ASSUME NEW ins \in Nodes \ members, NEW at \in members, InsertBefore(at, ins) PROVE Inv'
  <2>1. /\ pc = "idle" /\ req' = Call("insert_before", at, 0, ins) /\ InsertBeside(0, at, ins)
    BY <1>5 DEF InsertBefore
  <2>2. "insert_before" \in InsertOps /\ 0 \in Side
    BY DEF InsertOps, Side
  <2> QED BY <2>1, <2>2, InsertBesideInv
<1>6. ASSUME NEW ins \in Nodes \ members, NEW at \in members, InsertAfter(at, ins) PROVE Inv'
  <2>1. /\ pc = "idle" /\ req' = Call("insert_after", at, 0, ins) /\ InsertBeside(1, at, ins)
    BY <1>6 DEF InsertAfter
  <2>2. "insert_after" \in InsertOps /\ 0 \in Side /\ 1 \in Side
    BY DEF InsertOps, Side
  <2> QED BY <2>1, <2>2, InsertBesideInv
<1>7. ASSUME NEW ins \in Nodes \ members, NEW at \in members, NEW i \in Side,
             InsertLeafNode(at, i, ins)
      PROVE  Inv'
  <2>1. /\ pc = "idle" /\ t.child[at][i] = NULL /\ InsertUnderLeafNode(at, i, ins)
        /\ req' = Call("insert_leaf_node", at, i, ins)
    BY <1>7 DEF InsertLeafNode
  <2>2. /\ t \in Heap /\ members \in SUBSET Nodes /\ IsFiniteSet(members)
        /\ t.size = Cardinality(members)
    BY <2>1, IdleFacts
  <2>3. PICK sub \in [Nodes -> SUBSET Nodes], bh \in [Nodes -> Nat] :
          RedBlack(t, members, sub, bh, NULL, NULL, 0)
    BY <2>1, IdleFacts
  <2>4. req' \in Request
    <3>1. at \in NodeOrNull /\ ins \in NodeOrNull
      BY <2>2 DEF NodeOrNull
    <3> QED BY <2>1, <3>1, CallType DEF InsertOps
  <2> QED BY <2>1, <2>2, <2>3, <2>4, InsertUnderLeafInv
<1>8. ASSUME NEW n \in members, EraseDeg2(n) PROVE Inv'
  BY <1>8, EraseDeg2Inv
<1>9. ASSUME NEW n \in members, EraseDeg1(n) PROVE Inv'
  BY <1>9, EraseDeg1Inv
<1>10. CASE ClientCall
  BY <1>2, <1>3, <1>4, <1>5, <1>6, <1>7, <1>8, <1>9, <1>10, ClearInv DEF ClientCall
<1>11. CASE Pass
  BY <1>11, SearchPassInv, SearchInsertInv, SearchEraseInv, NormaliseRootInv,
     NormaliseUnderBlackInv, NormaliseRecolourInv, NormaliseRotateInv,
     NormaliseErase3Inv, NormaliseErase4Inv, NormaliseErase56Inv DEF Pass
<1> QED BY <1>1, <1>10, <1>11 DEF Next

\* Whatever calls a client makes, on whatever set of nodes, the tree is a
\* red-black tree between them and what the loop heads of insertNormalise and
\* eraseNodeNormalise expect within them.
THEOREM Invariance == Spec => []Inv
<1>1. Init => Inv
  BY InitInv
<1>2. Inv /\ [Next]_vars => Inv'
  BY NextInv
<1> QED BY <1>1, <1>2, PTL DEF Spec

\* The tree and the loops' locals are of their types, and m_size never wraps.
THEOREM TypeCorrect == Spec => []TypeOK
<1>1. Inv => TypeOK
  BY DEF Inv
<1> QED BY <1>1, Invariance, PTL

\* m_size counts the nodes of the tree.
THEOREM SizeCorrect == Spec => []SizeMatches
<1>1. Inv => SizeMatches
  BY DEF Inv, SizeInv
<1> QED BY <1>1, Invariance, PTL

\* At every loop head some tree is there.
LEMMA TreeAlways ==
  ASSUME Inv
  PROVE  /\ t \in Heap
         /\ \E sub \in [Nodes -> SUBSET Nodes] : Tree(t, members, sub)
<1>1. TypeOK
  BY DEF Inv
<1>2. PICK sub \in [Nodes -> SUBSET Nodes], bh \in [Nodes -> Nat] : LoopInv(sub, bh)
  BY DEF Inv
<1>3. \E x, c, s : RedBlack(t, members, sub, bh, x, c, s)
  <2>1. pc \in {"idle", "search", "insertNormalise", "eraseNormalise"}
    BY <1>1 DEF TypeOK
  <2>2. CASE pc = "idle"
    BY <1>2, <2>2 DEF LoopInv, Idle, IdleInv
  <2>3. CASE pc = "search"
    BY <1>2, <2>3 DEF LoopInv, SearchInv
  <2>4. CASE pc = "insertNormalise"
    BY <1>2, <2>4 DEF LoopInv, InsertInv
  <2>5. CASE pc = "eraseNormalise"
    BY <1>2, <2>5 DEF LoopInv, EraseInv
  <2> QED BY <2>1, <2>2, <2>3, <2>4, <2>5
<1> QED BY <1>1, <1>3 DEF TypeOK, RedBlack

\* Parent and child links agree, over exactly the nodes the client put in.
THEOREM LinksCorrect == Spec => []LinksConsistent
<1>1. Inv => LinksConsistent
  <2> SUFFICES ASSUME Inv PROVE LinksConsistent
    OBVIOUS
  <2>1. PICK sub \in [Nodes -> SUBSET Nodes] : Tree(t, members, sub)
    BY TreeAlways
  <2>2. t \in Heap
    BY TreeAlways
  <2>3. t.root = NULL <=> members = {}
    BY <2>1, RootOfTree
  <2>4. t.root # NULL => t.root \in members /\ t.parent[t.root] = NULL
    BY <2>1, RootOfTree DEF Tree, Linked
  <2>5. ASSUME NEW n \in members \ {t.root}
        PROVE  /\ t.parent[n] \in members
               /\ \E i \in Side : t.child[t.parent[n]][i] = n
    BY <2>1 DEF Tree, Linked
  <2>6. ASSUME NEW n \in members, NEW i \in Side, t.child[n][i] # NULL
        PROVE  /\ t.child[n][i] \in members
               /\ t.parent[t.child[n][i]] = n
               /\ t.child[n][Opp(i)] # t.child[n][i]
    BY <2>1, <2>2, <2>6, TreeLocal
  <2> QED BY <2>3, <2>4, <2>5, <2>6 DEF LinksConsistent
<1> QED BY <1>1, Invariance, PTL

\* The locals of a running call are nodes of the tree, and the two nodes that
\* an erase is about to swap are different ones.
THEOREM LocalsCorrect == Spec => []LocalsInTree
<1>1. Inv => LocalsInTree
  <2> SUFFICES ASSUME Inv PROVE LocalsInTree
    OBVIOUS
  <2>1. PICK sub \in [Nodes -> SUBSET Nodes], bh \in [Nodes -> Nat] : LoopInv(sub, bh)
    BY DEF Inv
  <2>2. pc \in {"idle", "search", "insertNormalise", "eraseNormalise"} /\ t \in Heap
    BY DEF Inv, TypeOK
  <2>3. pc # "idle" => cur \in members
    BY <2>1, <2>2 DEF LoopInv, SearchInv, InsertInv, EraseInv
  <2>4. ASSUME pc = "search", req.op = "erase"
        PROVE  req.node \in members /\ req.node # cur /\ IsDeg2(t, req.node)
    <3>1. /\ req.node \in members /\ IsDeg2(t, req.node)
          /\ cur \in sub[t.child[req.node][0]] /\ Tree(t, members, sub)
      BY <2>1, <2>4 DEF LoopInv, SearchInv, Erasing, RedBlack
    <3>2. 0 \in Side /\ Sub(sub, t.child[req.node][0]) = sub[t.child[req.node][0]]
      BY <3>1 DEF IsDeg2, Sub, Side
    <3>3. req.node \notin sub[t.child[req.node][0]]
      BY <3>1, <3>2, SubtreesAt
    <3> QED BY <3>1, <3>3
  <2>5. pc = "search" /\ req.op # "erase" => req.node \in Nodes \ members
    BY <2>1 DEF LoopInv, SearchInv, Erasing
  <2>6. pc = "insertNormalise" => t.red[cur]
    BY <2>1 DEF LoopInv, InsertInv
  <2> QED BY <2>3, <2>4, <2>5, <2>6 DEF LocalsInTree
<1> QED BY <1>1, Invariance, PTL

\* No red node has a red parent or is the root, but for the one that
\* insertNormalise has at hand.
THEOREM ColoursCorrect == Spec => []Coloured
<1>1. Inv => Coloured
  <2> SUFFICES ASSUME Inv, NEW n \in members, t.red[n], ~ (pc = "insertNormalise" /\ n = cur)
               PROVE  t.parent[n] # NULL /\ ~ t.red[t.parent[n]]
    BY DEF Coloured
  <2>1. PICK sub \in [Nodes -> SUBSET Nodes], bh \in [Nodes -> Nat] : LoopInv(sub, bh)
    BY DEF Inv
  <2>2. pc \in {"idle", "search", "insertNormalise", "eraseNormalise"}
        /\ members \in SUBSET Nodes /\ n # NULL
    BY NullNotNode DEF Inv, TypeOK
  <2>3. CASE pc = "insertNormalise"
    BY <2>1, <2>3 DEF LoopInv, InsertInv, RedBlack, NoRedPair
  <2>4. CASE pc # "insertNormalise"
    <3>1. NoRedPair(t, members, NULL)
      BY <2>1, <2>2, <2>4 DEF LoopInv, Idle, IdleInv, SearchInv, EraseInv, RedBlack
    <3> QED BY <2>2, <3>1 DEF NoRedPair
  <2> QED BY <2>3, <2>4
<1> QED BY <1>1, Invariance, PTL

-----------------------------------------------------------------------------
(* The assertions of the source *)

\* insertNormalise: a red parent has a parent.
LEMMA NormaliseAssertsHold ==
  ASSUME Inv, pc = "insertNormalise"
  PROVE  NormaliseAsserts
<1> SUFFICES ASSUME Parent # NULL, t.red[Parent] PROVE Grandparent # NULL
  BY DEF NormaliseAsserts
<1>1. t \in Heap /\ cur \in members /\ t.red[cur]
  BY InsertNormaliseFacts
<1>2. PICK sub \in [Nodes -> SUBSET Nodes], bh \in [Nodes -> Nat] :
        RedBlack(t, members, sub, bh, cur, NULL, 0)
  BY InsertNormaliseFacts
<1>3. /\ t.parent[cur] = Parent /\ t.parent[Parent] = Grandparent
      /\ GetChildId(t, Grandparent, Parent) = ParentId
  BY DEF Parent, Grandparent, ParentId
<1> QED BY <1>1, <1>2, <1>3, RedPairFacts

\* eraseNodeNormalise: the nodes that its cases take for granted are there,
\* and have the colours that it says.
LEMMA NormaliseEraseAssertsHold ==
  ASSUME Inv, pc = "eraseNormalise"
  PROVE  NormaliseEraseAsserts
<1>1. PICK sub \in [Nodes -> SUBSET Nodes], bh \in [Nodes -> Nat] : EraseInv(sub, bh)
  BY DEF Inv, LoopInv
<1>2. /\ RedBlack(t, members, sub, bh, NULL, cur, side) /\ t \in Heap
      /\ side \in Side /\ cur \in members /\ NULL \notin members
  BY <1>1, NullNotNode DEF EraseInv, Inv, TypeOK
<1>3. Sibling(t) # NULL /\ (t.red[Sibling(t)] => ~ t.red[cur])
  <2>1. Sibling(t) \in members /\ t.parent[Sibling(t)] = cur
    BY <1>2, SiblingFacts
  <2>2. NoRedPair(t, members, NULL)
    BY <1>2 DEF RedBlack
  <2> QED BY <1>2, <2>1, <2>2 DEF NoRedPair
<1> DEFINE h == Levelled
           s == S
           u == RedOuterNephew(h, s)
           f == u.child[Sibling(u)][Opp(side)]
<1>4. h \in Heap /\ ~ h.red[s]
  BY LevelledFacts
<1>5. PICK sub2 \in [Nodes -> SUBSET Nodes], bh2 \in [Nodes -> Nat] :
        RedBlack(h, members, sub2, bh2, NULL, cur, side)
  BY LevelledFacts
<1>6. Sibling(h) = s
  BY DEF S
<1>7. BlackNephews <=> \A i \in Side : ~ IsRed(h, h.child[s][i])
  BY DEF BlackNephews
<1> HIDE DEF h, s
<1>8. s # NULL
  BY <1>2, <1>4, <1>5, <1>6, SiblingFacts
<1>9. ASSUME ~ BlackNephews
      PROVE  u.parent[Sibling(u)] = cur /\ IsRed(u, f)
  <2>1. /\ u \in Heap /\ IsRed(u, f)
        /\ \E sub3 \in [Nodes -> SUBSET Nodes], b3 \in [Nodes -> Nat], x \in NodeOrNull :
             /\ RedBlack(u, members, sub3, b3, x, cur, side)
             /\ x # NULL => x # cur /\ u.parent[x] = f
    BY <1>2, <1>4, <1>5, <1>6, <1>7, <1>9, OuterNephewRedBlack
  <2> HIDE DEF u
  <2>2. u.parent[Sibling(u)] = cur
    BY <1>2, <2>1, SiblingFacts
  <2> QED BY <2>1, <2>2
<1> QED BY <1>2, <1>3, <1>4, <1>8, <1>9 DEF NormaliseEraseAsserts, h, s

\* eraseNode, once the node has at most one child.
LEMMA UnlinkAssertsHold ==
  ASSUME NEW h \in Heap, NEW sub, NEW bh,
         RedBlack(h, members, sub, bh, NULL, NULL, 0), NEW n \in members, ~ IsDeg2(h, n),
         IsFiniteSet(members), h.size = Cardinality(members) - 1
  PROVE  UnlinkAsserts(h, n)
<1> DEFINE c == Single(h, n)
<1>1. /\ Tree(h, members, sub) /\ NoRedPair(h, members, NULL) /\ NULL \notin members
      /\ members \in SUBSET Nodes
  BY NullNotNode DEF RedBlack, Tree
<1>2. OnlyChild(h, members, bh, n, c)
  BY SingleFacts
<1> HIDE DEF c
<1>3. c # NULL => c \in members /\ c # n /\ h.red[c] /\ ~ h.red[n]
  BY <1>2 DEF OnlyChild
<1>4. ASSUME h.parent[n] = NULL PROVE h.root = n /\ ~ h.red[n] /\ members = sub[n]
  <2>1. h.root = n /\ ~ h.red[n]
    BY <1>1, <1>4 DEF Tree, Linked, NoRedPair
  <2>2. members = Sub(sub, h.root)
    BY <1>1 DEF Tree, Subtrees
  <2> QED BY <1>1, <2>1, <2>2 DEF Sub
<1>5. \A m \in members : IsLeaf(h, m) => sub[m] = {m}
  <2>1. \A m \in members : sub[m] = {m} \cup Sub(sub, h.child[m][0]) \cup Sub(sub, h.child[m][1])
    BY <1>1 DEF Tree, Subtrees
  <2>2. \A m \in members : IsLeaf(h, m) => h.child[m][0] = NULL /\ h.child[m][1] = NULL
    BY DEF IsLeaf, NoChildren, Side
  <2> QED BY <2>1, <2>2 DEF Sub
<1>6. ASSUME h.parent[n] = NULL, IsLeaf(h, n) PROVE h.size = 0
  <2>1. members = {n}
    BY <1>4, <1>5, <1>6
  <2> QED BY <2>1, FS_Singleton
<1>7. ASSUME h.parent[n] = NULL, c # NULL PROVE h.size = 1 /\ IsLeaf(h, c)
  <2>1. \A i \in Side : h.child[c][i] = NULL
    <3> SUFFICES ASSUME NEW i \in Side, NEW k, h.child[c][i] = k, k # NULL PROVE FALSE
      OBVIOUS
    <3>1. k \in members /\ h.parent[k] = c
      BY <1>1, <1>3, <1>7, TreeLocal
    <3>2. bh[c] = 0
      <4>1. bh[n] = bh[c] + 1 /\ ~ h.red[n]
        BY <1>2, <1>7 DEF OnlyChild
      <4>2. PICK j \in Side : h.child[n][j] = NULL
        BY <1>2, SideFacts DEF OnlyChild
      <4>3. bh[n] = Own(h, n) + Height(bh, NULL) + Credit(n, j, NULL, 0)
        BY <4>2, RedBlackLocal
      <4>4. Own(h, n) = 1 /\ Height(bh, NULL) = 0 /\ Credit(n, j, NULL, 0) = 0
        BY <1>1, <4>1 DEF Own, Height, Credit
      <4>5. bh[c] \in Nat
        BY <1>3, <1>7, RedBlackLocal
      <4> QED BY <4>1, <4>3, <4>4, <4>5
    <3>3. Height(bh, k) = 0
      <4>1. /\ Height(bh, k) \in Nat
            /\ bh[c] = Own(h, c) + Height(bh, k) + Credit(c, i, NULL, 0)
        BY <1>3, <1>7, RedBlackLocal
      <4>2. Own(h, c) = 0 /\ Credit(c, i, NULL, 0) = 0
        BY <1>1, <1>3, <1>7 DEF Own, Credit
      <4> QED BY <3>2, <4>1, <4>2
    <3>4. h.red[k]
      <4>1. bh[k] = 0
        BY <3>3 DEF Height
      <4>2. /\ bh[k] = Own(h, k) + Height(bh, h.child[k][i]) + Credit(k, i, NULL, 0)
            /\ Height(bh, h.child[k][i]) \in Nat
        BY <3>1, RedBlackLocal
      <4>3. Credit(k, i, NULL, 0) = 0
        BY <1>1, <3>1 DEF Credit
      <4> QED BY <4>1, <4>2, <4>3 DEF Own
    <3> QED BY <1>1, <1>3, <1>7, <3>1, <3>4 DEF NoRedPair
  <2>2. IsLeaf(h, c)
    <3>1. h.child[c] \in [Side -> NodeOrNull]
      BY <1>1, <1>3, <1>7 DEF Heap
    <3> QED BY <2>1, <3>1 DEF IsLeaf, NoChildren
  <2>3. members = {n, c}
    <3>1. PICK i \in Side : h.child[n][i] = c /\ h.child[n][Opp(i)] = NULL
      BY <1>2 DEF OnlyChild
    <3>2. sub[n] = {n} \cup Sub(sub, c) \cup Sub(sub, NULL)
      BY <1>1, <3>1, SubtreesAt
    <3>3. Sub(sub, NULL) = {} /\ Sub(sub, c) = {c}
      BY <1>3, <1>5, <1>7, <2>2 DEF Sub
    <3> QED BY <1>4, <1>7, <3>2, <3>3
  <2>4. h.size = 1
    <3>1. IsFiniteSet({n}) /\ Cardinality({n}) = 1
      BY FS_Singleton
    <3>2. c \notin {n}
      BY <1>3, <1>7
    <3>3. Cardinality({n} \cup {c}) = Cardinality({n}) + 1
      BY <3>1, <3>2, FS_AddElement
    <3>4. members = {n} \cup {c}
      BY <2>3
    <3> QED BY <3>1, <3>3, <3>4
  <2> QED BY <2>2, <2>4
<1> QED BY <1>3, <1>4, <1>6, <1>7 DEF UnlinkAsserts, c

\* swap_node: what it says of the links is so of any two nodes of a tree.
LEMMA SwapAssertsHold ==
  ASSUME NEW h, NEW M, NEW sub, Tree(h, M, sub), NEW a \in M, NEW b \in M
  PROVE  SwapAsserts(h, a, b)
<1>1. \A n \in M : Connected(h, n)
  BY DEF Tree, Linked, Connected
<1>2. \A n \in M : /\ h.parent[n] = NULL <=> h.root = n
                   /\ h.parent[n] # NULL => h.parent[n] \in M
  BY DEF Tree, Linked
<1> QED BY <1>1, <1>2 DEF SwapAsserts

\* Every assert of redblack_tree.hpp holds, for any number of nodes.
THEOREM AssertionsCorrect == Spec => []AssertionsHold
<1>1. Inv => AssertionsHold
  <2> SUFFICES ASSUME Inv PROVE AssertionsHold
    OBVIOUS
  <2>1. pc = "insertNormalise" => NormaliseAsserts
    BY NormaliseAssertsHold
  <2>2. pc = "eraseNormalise" => NormaliseEraseAsserts
    BY NormaliseEraseAssertsHold
  <2>3. ASSUME Idle, NEW n \in members, ~ IsDeg2(t, n)
        PROVE  UnlinkAsserts(Shrink(t), n)
    <3> DEFINE h == Shrink(t)
    <3>1. PICK sub \in [Nodes -> SUBSET Nodes], bh \in [Nodes -> Nat] :
            RedBlack(t, members, sub, bh, NULL, NULL, 0)
      BY <2>3, IdleFacts DEF Idle
    <3>2. t \in Heap /\ IsFiniteSet(members) /\ t.size = Cardinality(members)
      BY <2>3, IdleFacts DEF Idle
    <3>3. /\ h \in Heap /\ h.size = t.size - 1 /\ h.child = t.child
          /\ RedBlack(h, members, sub, bh, NULL, NULL, 0)
      BY <3>1, <3>2, ShrinkRedBlack
    <3>4. ~ IsDeg2(h, n)
      BY <2>3, <3>3 DEF IsDeg2
    <3> HIDE DEF h
    <3>5. UnlinkAsserts(h, n)
      BY <3>2, <3>3, <3>4, UnlinkAssertsHold
    <3> QED BY <3>5 DEF h
  <2>4. ASSUME pc = "search", req.op = "erase", t.child[cur][side] = NULL
        PROVE  LET h == SwapNode(t, req.node, cur)
               IN  /\ req.node # cur
                   /\ SwapAsserts(h, req.node, cur) /\ UnlinkAsserts(h, req.node)
    <3> DEFINE a == req.node
               h == SwapNode(t, a, cur)
    <3>1. /\ t \in Heap /\ members \in SUBSET Nodes
          /\ IsFiniteSet(members) /\ t.size = Cardinality(members) - 1
      BY <2>4 DEF Inv, TypeOK, SizeInv, SizeMatches, Size
    <3>2. PICK sub \in [Nodes -> SUBSET Nodes], bh \in [Nodes -> Nat] : SearchInv(sub, bh)
      BY <2>4 DEF Inv, LoopInv
    <3>3. /\ RedBlack(t, members, sub, bh, NULL, NULL, 0) /\ Tree(t, members, sub)
          /\ cur \in members /\ a \in members /\ IsDeg2(t, a)
          /\ cur \in sub[t.child[a][0]] /\ side = 1
      BY <2>4, <3>2 DEF SearchInv, RedBlack, Erasing
    <3> HIDE DEF a
    <3>4. cur \in sub[a] /\ cur # a
      <4>1. 0 \in Side /\ Sub(sub, t.child[a][0]) = sub[t.child[a][0]]
        BY <3>3 DEF IsDeg2, Sub, Side
      <4>2. sub[t.child[a][0]] \subseteq sub[a] /\ a \notin sub[t.child[a][0]]
        BY <3>3, <4>1, SubtreesAt
      <4> QED BY <3>3, <4>2
    <3>5. /\ h \in Heap /\ h.size = t.size
          /\ \E sub2 \in [Nodes -> SUBSET Nodes], b2 \in [Nodes -> Nat] :
               RedBlack(h, members, sub2, b2, NULL, NULL, 0)
          /\ \A j \in Side : t.child[cur][j] = NULL => h.child[a][j] = NULL
      BY <3>1, <3>3, <3>4, SwapNodeRedBlack
    <3> HIDE DEF h
    <3>6. ~ IsDeg2(h, a)
      BY <2>4, <3>3, <3>5 DEF IsDeg2, Side
    <3>7. UnlinkAsserts(h, a)
      BY <3>1, <3>3, <3>5, <3>6, UnlinkAssertsHold
    <3>8. SwapAsserts(h, a, cur)
      <4>1. \E sub2 : Tree(h, members, sub2)
        BY <3>5 DEF RedBlack
      <4> QED BY <3>3, <4>1, SwapAssertsHold
    <3> QED BY <3>4, <3>7, <3>8 DEF h, a
  <2>5. ASSUME Idle PROVE RootAsserts
    <3>1. PICK sub \in [Nodes -> SUBSET Nodes], bh \in [Nodes -> Nat] :
            RedBlack(t, members, sub, bh, NULL, NULL, 0)
      BY <2>5, IdleFacts DEF Idle
    <3>2. t.size = Cardinality(members) /\ Tree(t, members, sub)
      BY <2>5, <3>1, IdleFacts DEF Idle, RedBlack
    <3>3. t.root = NULL <=> members = {}
      BY <3>2, RootOfTree
    <3> QED BY <3>2, <3>3, FS_EmptySet DEF RootAsserts
  <2> QED BY <2>1, <2>2, <2>3, <2>4, <2>5 DEF AssertionsHold
<1> QED BY <1>1, Invariance, PTL

(***************************************************************************)
(* Part 4: walks                                                           *)
(***************************************************************************)

\* A set of natural numbers that has a member has a least one.
LEMMA Least ==
  ASSUME NEW T \in SUBSET Nat, T # {}
  PROVE  \E m \in T : \A n \in T : m <= n
<1> DEFINE R == { ss \in Nat \X Nat : ss[1] < ss[2] }
<1>1. IsWellFoundedOn(R, Nat)
  BY NatLessThanWellFounded DEF OpToRel
<1>2. \A x, y \in Nat : x < y => <<x, y>> \in R
  OBVIOUS
<1>3. \E m \in T : \A n \in T : ~ (<<n, m>> \in R)
  <2> HIDE DEF R
  <2> QED BY <1>1, WFMin
<1> HIDE DEF R
<1>4. PICK m \in T : \A n \in T : ~ (<<n, m>> \in R)
  BY <1>3
<1>5. ASSUME NEW n \in T PROVE m <= n
  <2>1. m \in Nat /\ n \in Nat
    OBVIOUS
  <2>2. ~ (n < m)
    BY <1>2, <1>4, <2>1
  <2> QED BY <2>1, <2>2
<1> QED BY <1>5

\* What holds of 0 and of each successor of a number of which it holds, holds of
\* all natural numbers.
LEMMA Induction ==
  ASSUME NEW D \in SUBSET Nat, 0 \in D, \A n \in D : n + 1 \in D
  PROVE  D = Nat
<1> SUFFICES ASSUME D # Nat PROVE FALSE
  OBVIOUS
<1>1. PICK m \in Nat \ D : \A n \in Nat \ D : m <= n
  <2>1. Nat \ D # {} /\ Nat \ D \in SUBSET Nat
    OBVIOUS
  <2> QED BY <2>1, Least
<1>2. m - 1 \in Nat /\ m - 1 \in D
  BY <1>1
<1> QED BY <1>1, <1>2

\* A function applied N times over, from x0.
LEMMA Iterate ==
  ASSUME NEW X, NEW x0 \in X, NEW F \in [X -> X], NEW N \in Nat
  PROVE  \E g \in [0 .. N -> X] : g[0] = x0 /\ \A k \in 1 .. N : g[k] = F[g[k - 1]]
<1> DEFINE Is(m, g) == g[0] = x0 /\ \A k \in 1 .. m : g[k] = F[g[k - 1]]
           D == { m \in Nat : \E g \in [0 .. m -> X] : Is(m, g) }
<1>1. 0 \in D
  <2> DEFINE g == [k \in 0 .. 0 |-> x0]
  <2>1. g \in [0 .. 0 -> X] /\ Is(0, g)
    OBVIOUS
  <2> QED BY <2>1
<1>2. ASSUME NEW m \in D PROVE m + 1 \in D
  <2>1. PICK g \in [0 .. m -> X] : Is(m, g)
    OBVIOUS
  <2> DEFINE q == [k \in 0 .. m + 1 |-> IF k = m + 1 THEN F[g[m]] ELSE g[k]]
  <2>2. q \in [0 .. m + 1 -> X]
    OBVIOUS
  <2>3. Is(m + 1, q)
    <3>1. q[0] = x0
      BY <2>1
    <3>2. ASSUME NEW k \in 1 .. m + 1 PROVE q[k] = F[q[k - 1]]
      <4>1. k - 1 \in 0 .. m /\ q[k - 1] = g[k - 1]
        OBVIOUS
      <4>2. CASE k = m + 1
        BY <4>1, <4>2
      <4>3. CASE k # m + 1
        BY <2>1, <4>1, <4>3
      <4> QED BY <4>2, <4>3
    <3> QED BY <3>1, <3>2
  <2> HIDE DEF Is
  <2> QED BY <2>2, <2>3
<1>3. D = Nat
  <2> HIDE DEF D
  <2> QED BY <1>1, <1>2, Induction DEF D
<1> QED BY <1>3

-----------------------------------------------------------------------------
(* Induction over a tree *)

Weight(sub, n) == IF n = NULL THEN 0 ELSE Cardinality(sub[n])

\* The subtree below a child has fewer nodes.
LEMMA WeightFacts ==
  ASSUME NEW h, NEW M, NEW sub, Tree(h, M, sub)
  PROVE  /\ Cardinality(Nodes) \in Nat
         /\ Weight(sub, NULL) = 0
         /\ \A n \in M : /\ Weight(sub, n) \in 1 .. Cardinality(Nodes)
                         /\ \A i \in Side : Weight(sub, h.child[n][i]) < Weight(sub, n)
                         /\ \A i \in Side : Weight(sub, h.child[n][i]) \in 0 .. Cardinality(Nodes)
<1>1. IsFiniteSet(Nodes) /\ Cardinality(Nodes) \in Nat
  BY NodesFinite, FS_CardinalityType
<1>2. ASSUME NEW n \in M
      PROVE  /\ n # NULL /\ n \in sub[n] /\ sub[n] \subseteq Nodes
             /\ IsFiniteSet(sub[n]) /\ Cardinality(sub[n]) \in 1 .. Cardinality(Nodes)
  <2>1. n # NULL /\ n \in sub[n] /\ sub[n] \subseteq Nodes
    BY NullNotNode DEF Tree, Subtrees
  <2>2. IsFiniteSet(sub[n]) /\ Cardinality(sub[n]) <= Cardinality(Nodes)
    BY <1>1, <2>1, FS_Subset
  <2>3. Cardinality(sub[n]) \in Nat /\ Cardinality(sub[n]) # 0
    BY <2>1, <2>2, FS_CardinalityType, FS_EmptySet
  <2> QED BY <1>1, <2>1, <2>2, <2>3
<1>3. ASSUME NEW n \in M, NEW i \in Side
      PROVE  /\ Weight(sub, h.child[n][i]) < Weight(sub, n)
             /\ Weight(sub, h.child[n][i]) \in 0 .. Cardinality(Nodes)
  <2> DEFINE c == h.child[n][i]
  <2>1. CASE c = NULL
    BY <1>1, <1>2, <2>1 DEF Weight
  <2>2. CASE c # NULL
    <3>1. c \in M
      BY <2>2 DEF Tree, Linked
    <3>2. sub[c] \subseteq sub[n] /\ n \notin sub[c]
      BY <2>2, SubtreesAt DEF Sub
    <3>3. sub[c] # sub[n]
      BY <1>2, <3>2
    <3>4. Cardinality(sub[c]) < Cardinality(sub[n])
      <4>1. IsFiniteSet(sub[n]) /\ Cardinality(sub[n]) \in Nat
        BY <1>2
      <4>2. Cardinality(sub[c]) <= Cardinality(sub[n]) /\ Cardinality(sub[c]) # Cardinality(sub[n])
            /\ Cardinality(sub[c]) \in Nat
        BY <3>2, <3>3, <4>1, FS_Subset, FS_CardinalityType
      <4> QED BY <4>1, <4>2
    <3> QED BY <1>2, <2>2, <3>1, <3>4 DEF Weight
  <2> QED BY <2>1, <2>2
<1> QED BY <1>1, <1>2, <1>3 DEF Weight

\* What holds of a node whenever it holds of its children, holds of all nodes.
LEMMA TreeUp ==
  ASSUME NEW h, NEW M, NEW sub, Tree(h, M, sub), NEW P,
         \A n \in M : (\A i \in Side : h.child[n][i] # NULL => h.child[n][i] \in P) => n \in P
  PROVE  M \subseteq P
<1> SUFFICES ASSUME NEW m \in M, m \notin P PROVE FALSE
  OBVIOUS
<1> DEFINE T == { Weight(sub, n) : n \in M \ P }
<1>1. T \in SUBSET Nat /\ T # {}
  BY WeightFacts
<1>2. PICK k \in T : \A j \in T : k <= j
  BY <1>1, Least
<1>3. PICK n \in M \ P : k = Weight(sub, n)
  OBVIOUS
<1>4. PICK i \in Side : h.child[n][i] # NULL /\ h.child[n][i] \notin P
  OBVIOUS
<1>5. h.child[n][i] \in M
  BY <1>4 DEF Tree, Linked
<1>6. Weight(sub, h.child[n][i]) \in T
  BY <1>4, <1>5
<1>7. Weight(sub, h.child[n][i]) < Weight(sub, n) /\ Weight(sub, n) \in Nat
      /\ Weight(sub, h.child[n][i]) \in Nat
  BY WeightFacts
<1> HIDE DEF T
<1> QED BY <1>2, <1>3, <1>6, <1>7

\* What holds of the root, and of the children of a node of which it holds, holds
\* of all nodes.
LEMMA TreeDown ==
  ASSUME NEW h, NEW M, NEW sub, Tree(h, M, sub), NEW P,
         h.root # NULL => h.root \in P,
         \A n \in M : n \in P => \A i \in Side : h.child[n][i] # NULL => h.child[n][i] \in P
  PROVE  M \subseteq P
<1> DEFINE Q == { n \in M : n \in P => sub[n] \subseteq P }
<1>1. ASSUME NEW n \in M, \A i \in Side : h.child[n][i] # NULL => h.child[n][i] \in Q
      PROVE  n \in Q
  <2> SUFFICES ASSUME n \in P PROVE sub[n] \subseteq P
    OBVIOUS
  <2>1. ASSUME NEW i \in Side PROVE Sub(sub, h.child[n][i]) \subseteq P
    BY <1>1 DEF Sub
  <2>2. sub[n] = {n} \cup Sub(sub, h.child[n][0]) \cup Sub(sub, h.child[n][1])
    BY DEF Tree, Subtrees
  <2> QED BY <2>1, <2>2 DEF Side
<1>2. M \subseteq Q
  <2> HIDE DEF Q
  <2> QED BY <1>1, TreeUp
<1>3. M = Sub(sub, h.root) /\ h.root \in M \cup {NULL}
  BY DEF Tree, Subtrees, Linked
<1> QED BY <1>2, <1>3 DEF Sub

-----------------------------------------------------------------------------
(* The functions that recurse to a bounded depth exist. *)

Depths == 0 .. Cardinality(Nodes)

\* The depths are the numbers up to that of the nodes.
LEMMA DepthsFacts == Cardinality(Nodes) \in Nat /\ Depths = 0 .. Cardinality(Nodes)
  BY NodesFinite, FS_CardinalityType DEF Depths

\* The black node that is missing below cur counts where it is missing.
LeftCredit(n) == IF pc = "eraseNormalise" THEN Credit(n, 0, cur, side) ELSE 0
PassCredit(n, i) == IF pc = "eraseNormalise" /\ n = cur /\ i = side THEN 1 ELSE 0

\* The counts at a node, from those at its children.
CountsAbove(h, n, below) ==
  UNION { { b + Own(h, n) + PassCredit(n, i) : b \in below[h.child[n][i]] } : i \in Side }

\* The levels of the recursion of Subtree.
LEMMA SubtreeIs ==
  ASSUME t \in Heap
  PROVE  \E b \in [Depths -> [NodeOrNull -> SUBSET Nodes]] :
           /\ Subtree = [n \in Nodes |-> b[Cardinality(Nodes)][n]]
           /\ \A k \in Depths, n \in NodeOrNull :
                b[k][n] = IF n = NULL \/ k = 0 THEN {}
                          ELSE {n} \cup b[k - 1][t.child[n][0]] \cup b[k - 1][t.child[n][1]]
<1> DEFINE N == Cardinality(Nodes)
           X == [NodeOrNull -> SUBSET Nodes]
           x0 == [n \in NodeOrNull |-> {}]
           F == [L \in X |-> [n \in NodeOrNull |->
                  IF n = NULL THEN {} ELSE {n} \cup L[t.child[n][0]] \cup L[t.child[n][1]]]]
           G(q) == [k \in 0 .. N |->
                      [n \in NodeOrNull |->
                         IF n = NULL \/ k = 0 THEN {}
                         ELSE {n} \cup q[k - 1][t.child[n][0]] \cup q[k - 1][t.child[n][1]]]]
           b == CHOOSE q : q = G(q)
<1>1. \A n \in Nodes : t.child[n][0] \in NodeOrNull /\ t.child[n][1] \in NodeOrNull
  BY HeapFacts DEF Side
<1>2. N \in Nat /\ Depths = 0 .. N
  BY DepthsFacts
<1>3. F \in [X -> X] /\ x0 \in X
  BY <1>1 DEF NodeOrNull
<1>4. PICK f \in [0 .. N -> X] : f[0] = x0 /\ \A k \in 1 .. N : f[k] = F[f[k - 1]]
  <2> HIDE DEF F, X, x0, N
  <2> QED BY <1>2, <1>3, Iterate
<1>5. f = G(f)
  <2>1. ASSUME NEW k \in 0 .. N
        PROVE  f[k] = [n \in NodeOrNull |->
                         IF n = NULL \/ k = 0 THEN {}
                         ELSE {n} \cup f[k - 1][t.child[n][0]] \cup f[k - 1][t.child[n][1]]]
    <3>1. CASE k = 0
      BY <1>4, <3>1
    <3>2. CASE k # 0
      <4>1. k \in 1 .. N /\ k - 1 \in 0 .. N
        BY <1>2, <3>2
      <4>2. f[k] = F[f[k - 1]] /\ f[k - 1] \in X
        BY <1>4, <4>1
      <4> QED BY <3>2, <4>2
    <3> QED BY <3>1, <3>2
  <2> QED BY <2>1
<1>6. b = G(b)
  <2> HIDE DEF G
  <2> QED BY <1>5
<1>7. ASSUME NEW k \in Depths
      PROVE  b[k] = [n \in NodeOrNull |->
                       IF n = NULL \/ k = 0 THEN {}
                       ELSE {n} \cup b[k - 1][t.child[n][0]] \cup b[k - 1][t.child[n][1]]]
  <2>1. \A c : c = G(c) => c[k] = [n \in NodeOrNull |->
                       IF n = NULL \/ k = 0 THEN {}
                       ELSE {n} \cup c[k - 1][t.child[n][0]] \cup c[k - 1][t.child[n][1]]]
    BY <1>2
  <2> HIDE DEF b, G
  <2> QED BY <1>6, <2>1
<1>8. b \in [Depths -> X]
  <2> DEFINE D == { k \in Nat : k \in Depths => b[k] \in X }
  <2> HIDE DEF b
  <2>1. 0 \in D
    <3>1. 0 \in Depths
      BY <1>2
    <3>2. b[0] = x0
      BY <1>7, <3>1
    <3> QED BY <1>3, <3>2
  <2>2. ASSUME NEW k \in D PROVE k + 1 \in D
    <3> SUFFICES ASSUME k + 1 \in Depths PROVE b[k + 1] \in X
      OBVIOUS
    <3>1. k \in Depths /\ b[k] \in X /\ (k + 1) - 1 = k /\ k + 1 # 0 /\ k + 1 \in 0 .. N
      BY <1>2
    <3>2. b[k + 1] = F[b[k]]
      BY <1>7, <3>1
    <3> QED BY <1>3, <3>1, <3>2
  <2>3. D = Nat
    <3> HIDE DEF D
    <3> QED BY <2>1, <2>2, Induction DEF D
  <2>4. b = [k \in Depths |-> b[k]]
    <3>1. \A c : c = G(c) => c = [k \in Depths |-> c[k]]
      BY <1>2
    <3> HIDE DEF G
    <3> QED BY <1>6, <3>1
  <2>5. \A k \in Depths : b[k] \in X
    <3> HIDE DEF X
    <3> QED BY <1>2, <2>3
  <2> HIDE DEF X
  <2> QED BY <2>4, <2>5
<1>9. Subtree = [n \in Nodes |-> b[Cardinality(Nodes)][n]]
  BY DEF Subtree
<1>10. \A k \in Depths, n \in NodeOrNull :
        b[k][n] = IF n = NULL \/ k = 0 THEN {}
                  ELSE {n} \cup b[k - 1][t.child[n][0]] \cup b[k - 1][t.child[n][1]]
  <2> HIDE DEF b
  <2> QED BY <1>7
<1> HIDE DEF b, F, G, N, x0
<1> QED BY <1>8, <1>9, <1>10

\* The levels of the recursion of BlackHeight.
LEMMA BlackHeightIs ==
  ASSUME t \in Heap
  PROVE  \E b \in [Depths -> [NodeOrNull -> Nat]] :
           /\ BlackHeight = [n \in Nodes |-> b[Cardinality(Nodes)][n]]
           /\ \A k \in Depths, n \in NodeOrNull :
                b[k][n] = IF n = NULL \/ k = 0 THEN 0
                          ELSE Own(t, n) + LeftCredit(n) + b[k - 1][t.child[n][0]]
<1> DEFINE N == Cardinality(Nodes)
           X == [NodeOrNull -> Nat]
           x0 == [n \in NodeOrNull |-> 0]
           F == [L \in X |-> [n \in NodeOrNull |->
                  IF n = NULL THEN 0 ELSE Own(t, n) + LeftCredit(n) + L[t.child[n][0]]]]
           G(q) == [k \in 0 .. N |->
                      [n \in NodeOrNull |->
                         IF n = NULL \/ k = 0 THEN 0
                         ELSE Own(t, n) + LeftCredit(n) + q[k - 1][t.child[n][0]]]]
           b == CHOOSE q : q = G(q)
<1>1. \A n \in Nodes : t.child[n][0] \in NodeOrNull /\ t.child[n][1] \in NodeOrNull
  BY HeapFacts DEF Side
<1>2. N \in Nat /\ Depths = 0 .. N
  BY DepthsFacts
<1>3. F \in [X -> X] /\ x0 \in X
  BY <1>1 DEF NodeOrNull, Own, LeftCredit, Credit
<1>4. PICK f \in [0 .. N -> X] : f[0] = x0 /\ \A k \in 1 .. N : f[k] = F[f[k - 1]]
  <2> HIDE DEF F, X, x0, N
  <2> QED BY <1>2, <1>3, Iterate
<1>5. f = G(f)
  <2>1. ASSUME NEW k \in 0 .. N
        PROVE  f[k] = [n \in NodeOrNull |->
                         IF n = NULL \/ k = 0 THEN 0
                         ELSE Own(t, n) + LeftCredit(n) + f[k - 1][t.child[n][0]]]
    <3>1. CASE k = 0
      BY <1>4, <3>1
    <3>2. CASE k # 0
      <4>1. k \in 1 .. N /\ k - 1 \in 0 .. N
        BY <1>2, <3>2
      <4>2. f[k] = F[f[k - 1]] /\ f[k - 1] \in X
        BY <1>4, <4>1
      <4> QED BY <3>2, <4>2
    <3> QED BY <3>1, <3>2
  <2> QED BY <2>1
<1>6. b = G(b)
  <2> HIDE DEF G
  <2> QED BY <1>5
<1>7. ASSUME NEW k \in Depths
      PROVE  b[k] = [n \in NodeOrNull |->
                       IF n = NULL \/ k = 0 THEN 0
                       ELSE Own(t, n) + LeftCredit(n) + b[k - 1][t.child[n][0]]]
  <2>1. \A c : c = G(c) => c[k] = [n \in NodeOrNull |->
                       IF n = NULL \/ k = 0 THEN 0
                       ELSE Own(t, n) + LeftCredit(n) + c[k - 1][t.child[n][0]]]
    BY <1>2
  <2> HIDE DEF b, G
  <2> QED BY <1>6, <2>1
<1>8. b \in [Depths -> X]
  <2> DEFINE D == { k \in Nat : k \in Depths => b[k] \in X }
  <2> HIDE DEF b
  <2>1. 0 \in D
    <3>1. 0 \in Depths
      BY <1>2
    <3>2. b[0] = x0
      BY <1>7, <3>1
    <3> QED BY <1>3, <3>2
  <2>2. ASSUME NEW k \in D PROVE k + 1 \in D
    <3> SUFFICES ASSUME k + 1 \in Depths PROVE b[k + 1] \in X
      OBVIOUS
    <3>1. k \in Depths /\ b[k] \in X /\ (k + 1) - 1 = k /\ k + 1 # 0 /\ k + 1 \in 0 .. N
      BY <1>2
    <3>2. b[k + 1] = F[b[k]]
      BY <1>7, <3>1
    <3> QED BY <1>3, <3>1, <3>2
  <2>3. D = Nat
    <3> HIDE DEF D
    <3> QED BY <2>1, <2>2, Induction DEF D
  <2>4. b = [k \in Depths |-> b[k]]
    <3>1. \A c : c = G(c) => c = [k \in Depths |-> c[k]]
      BY <1>2
    <3> HIDE DEF G
    <3> QED BY <1>6, <3>1
  <2>5. \A k \in Depths : b[k] \in X
    <3> HIDE DEF X
    <3> QED BY <1>2, <2>3
  <2> HIDE DEF X
  <2> QED BY <2>4, <2>5
<1>9. BlackHeight = [n \in Nodes |-> b[Cardinality(Nodes)][n]]
  BY DEF BlackHeight, LeftCredit
<1>10. \A k \in Depths, n \in NodeOrNull :
        b[k][n] = IF n = NULL \/ k = 0 THEN 0
                  ELSE Own(t, n) + LeftCredit(n) + b[k - 1][t.child[n][0]]
  <2> HIDE DEF b
  <2> QED BY <1>7
<1> HIDE DEF b, F, G, N, x0
<1> QED BY <1>8, <1>9, <1>10

\* The levels of the recursion of BlackCounts.
LEMMA BlackCountsIs ==
  ASSUME NEW h \in Heap
  PROVE  \E b \in [Depths -> [NodeOrNull -> SUBSET Nat]] :
           /\ BlackCounts(h) = b[Cardinality(Nodes)][h.root]
           /\ \A k \in Depths, n \in NodeOrNull :
                b[k][n] = IF n = NULL \/ k = 0 THEN {0}
                          ELSE CountsAbove(h, n, b[k - 1])
<1> DEFINE N == Cardinality(Nodes)
           X == [NodeOrNull -> SUBSET Nat]
           x0 == [n \in NodeOrNull |-> {0}]
           F == [L \in X |-> [n \in NodeOrNull |->
                  IF n = NULL THEN {0} ELSE CountsAbove(h, n, L)]]
           G(q) == [k \in 0 .. N |->
                      [n \in NodeOrNull |->
                         IF n = NULL \/ k = 0 THEN {0}
                         ELSE CountsAbove(h, n, q[k - 1])]]
           b == CHOOSE q : q = G(q)
<1>1. \A n \in Nodes, i \in Side : h.child[n][i] \in NodeOrNull
  BY HeapFacts
<1>2. N \in Nat /\ Depths = 0 .. N
  BY DepthsFacts
<1>3. F \in [X -> X] /\ x0 \in X
  BY <1>1 DEF NodeOrNull, CountsAbove, Own, PassCredit
<1>4. PICK f \in [0 .. N -> X] : f[0] = x0 /\ \A k \in 1 .. N : f[k] = F[f[k - 1]]
  <2> HIDE DEF F, X, x0, N
  <2> QED BY <1>2, <1>3, Iterate
<1>5. f = G(f)
  <2>1. ASSUME NEW k \in 0 .. N
        PROVE  f[k] = [n \in NodeOrNull |->
                         IF n = NULL \/ k = 0 THEN {0}
                         ELSE CountsAbove(h, n, f[k - 1])]
    <3>1. CASE k = 0
      BY <1>4, <3>1
    <3>2. CASE k # 0
      <4>1. k \in 1 .. N /\ k - 1 \in 0 .. N
        BY <1>2, <3>2
      <4>2. f[k] = F[f[k - 1]] /\ f[k - 1] \in X
        BY <1>4, <4>1
      <4> QED BY <3>2, <4>2
    <3> QED BY <3>1, <3>2
  <2> QED BY <2>1
<1>6. b = G(b)
  <2> HIDE DEF G
  <2> QED BY <1>5
<1>7. ASSUME NEW k \in Depths
      PROVE  b[k] = [n \in NodeOrNull |->
                       IF n = NULL \/ k = 0 THEN {0}
                       ELSE CountsAbove(h, n, b[k - 1])]
  <2>1. \A c : c = G(c) => c[k] = [n \in NodeOrNull |->
                       IF n = NULL \/ k = 0 THEN {0}
                       ELSE CountsAbove(h, n, c[k - 1])]
    BY <1>2
  <2> HIDE DEF b, G
  <2> QED BY <1>6, <2>1
<1>8. b \in [Depths -> X]
  <2> DEFINE D == { k \in Nat : k \in Depths => b[k] \in X }
  <2> HIDE DEF b
  <2>1. 0 \in D
    <3>1. 0 \in Depths
      BY <1>2
    <3>2. b[0] = x0
      BY <1>7, <3>1
    <3> QED BY <1>3, <3>2
  <2>2. ASSUME NEW k \in D PROVE k + 1 \in D
    <3> SUFFICES ASSUME k + 1 \in Depths PROVE b[k + 1] \in X
      OBVIOUS
    <3>1. k \in Depths /\ b[k] \in X /\ (k + 1) - 1 = k /\ k + 1 # 0 /\ k + 1 \in 0 .. N
      BY <1>2
    <3>2. b[k + 1] = F[b[k]]
      BY <1>7, <3>1
    <3> QED BY <1>3, <3>1, <3>2
  <2>3. D = Nat
    <3> HIDE DEF D
    <3> QED BY <2>1, <2>2, Induction DEF D
  <2>4. b = [k \in Depths |-> b[k]]
    <3>1. \A c : c = G(c) => c = [k \in Depths |-> c[k]]
      BY <1>2
    <3> HIDE DEF G
    <3> QED BY <1>6, <3>1
  <2>5. \A k \in Depths : b[k] \in X
    <3> HIDE DEF X
    <3> QED BY <1>2, <2>3
  <2> HIDE DEF X
  <2> QED BY <2>4, <2>5
<1>9. BlackCounts(h) = b[Cardinality(Nodes)][h.root]
  BY DEF BlackCounts, CountsAbove, Own, PassCredit
<1>10. \A k \in Depths, n \in NodeOrNull :
        b[k][n] = IF n = NULL \/ k = 0 THEN {0}
                  ELSE CountsAbove(h, n, b[k - 1])
  <2> HIDE DEF b
  <2> QED BY <1>7
<1> HIDE DEF b, F, G, N, x0
<1> QED BY <1>8, <1>9, <1>10

\* The levels of the recursion of Depth.
LEMMA DepthIs ==
  ASSUME NEW h \in Heap
  PROVE  \E b \in [Depths -> [NodeOrNull -> Nat]] :
           /\ \A x : Depth(h, x) = b[Cardinality(Nodes)][h.parent[x]]
           /\ \A k \in Depths, n \in NodeOrNull :
                b[k][n] = IF n = NULL \/ k = 0 THEN 0
                          ELSE 1 + b[k - 1][h.parent[n]]
<1> DEFINE N == Cardinality(Nodes)
           X == [NodeOrNull -> Nat]
           x0 == [n \in NodeOrNull |-> 0]
           F == [L \in X |-> [n \in NodeOrNull |->
                  IF n = NULL THEN 0 ELSE 1 + L[h.parent[n]]]]
           G(q) == [k \in 0 .. N |->
                      [n \in NodeOrNull |->
                         IF n = NULL \/ k = 0 THEN 0
                         ELSE 1 + q[k - 1][h.parent[n]]]]
           b == CHOOSE q : q = G(q)
<1>1. \A n \in Nodes : h.parent[n] \in NodeOrNull
  BY HeapFacts
<1>2. N \in Nat /\ Depths = 0 .. N
  BY DepthsFacts
<1>3. F \in [X -> X] /\ x0 \in X
  BY <1>1 DEF NodeOrNull
<1>4. PICK f \in [0 .. N -> X] : f[0] = x0 /\ \A k \in 1 .. N : f[k] = F[f[k - 1]]
  <2> HIDE DEF F, X, x0, N
  <2> QED BY <1>2, <1>3, Iterate
<1>5. f = G(f)
  <2>1. ASSUME NEW k \in 0 .. N
        PROVE  f[k] = [n \in NodeOrNull |->
                         IF n = NULL \/ k = 0 THEN 0
                         ELSE 1 + f[k - 1][h.parent[n]]]
    <3>1. CASE k = 0
      BY <1>4, <3>1
    <3>2. CASE k # 0
      <4>1. k \in 1 .. N /\ k - 1 \in 0 .. N
        BY <1>2, <3>2
      <4>2. f[k] = F[f[k - 1]] /\ f[k - 1] \in X
        BY <1>4, <4>1
      <4> QED BY <3>2, <4>2
    <3> QED BY <3>1, <3>2
  <2> QED BY <2>1
<1>6. b = G(b)
  <2> HIDE DEF G
  <2> QED BY <1>5
<1>7. ASSUME NEW k \in Depths
      PROVE  b[k] = [n \in NodeOrNull |->
                       IF n = NULL \/ k = 0 THEN 0
                       ELSE 1 + b[k - 1][h.parent[n]]]
  <2>1. \A c : c = G(c) => c[k] = [n \in NodeOrNull |->
                       IF n = NULL \/ k = 0 THEN 0
                       ELSE 1 + c[k - 1][h.parent[n]]]
    BY <1>2
  <2> HIDE DEF b, G
  <2> QED BY <1>6, <2>1
<1>8. b \in [Depths -> X]
  <2> DEFINE D == { k \in Nat : k \in Depths => b[k] \in X }
  <2> HIDE DEF b
  <2>1. 0 \in D
    <3>1. 0 \in Depths
      BY <1>2
    <3>2. b[0] = x0
      BY <1>7, <3>1
    <3> QED BY <1>3, <3>2
  <2>2. ASSUME NEW k \in D PROVE k + 1 \in D
    <3> SUFFICES ASSUME k + 1 \in Depths PROVE b[k + 1] \in X
      OBVIOUS
    <3>1. k \in Depths /\ b[k] \in X /\ (k + 1) - 1 = k /\ k + 1 # 0 /\ k + 1 \in 0 .. N
      BY <1>2
    <3>2. b[k + 1] = F[b[k]]
      BY <1>7, <3>1
    <3> QED BY <1>3, <3>1, <3>2
  <2>3. D = Nat
    <3> HIDE DEF D
    <3> QED BY <2>1, <2>2, Induction DEF D
  <2>4. b = [k \in Depths |-> b[k]]
    <3>1. \A c : c = G(c) => c = [k \in Depths |-> c[k]]
      BY <1>2
    <3> HIDE DEF G
    <3> QED BY <1>6, <3>1
  <2>5. \A k \in Depths : b[k] \in X
    <3> HIDE DEF X
    <3> QED BY <1>2, <2>3
  <2> HIDE DEF X
  <2> QED BY <2>4, <2>5
<1>9. \A x : Depth(h, x) = b[Cardinality(Nodes)][h.parent[x]]
  BY DEF Depth
<1>10. \A k \in Depths, n \in NodeOrNull :
        b[k][n] = IF n = NULL \/ k = 0 THEN 0
                  ELSE 1 + b[k - 1][h.parent[n]]
  <2> HIDE DEF b
  <2> QED BY <1>7
<1> HIDE DEF b, F, G, N, x0
<1> QED BY <1>8, <1>9, <1>10

\* The levels of the recursion of InOrderBelow.
LEMMA InOrderIs ==
  ASSUME NEW h \in Heap
  PROVE  \E b \in [Depths -> [NodeOrNull -> Seq(Nodes)]] :
           /\ InOrderBelow(h) = b[Cardinality(Nodes)]
           /\ \A k \in Depths, n \in NodeOrNull :
                b[k][n] = IF n = NULL \/ k = 0 THEN <<>>
                          ELSE b[k - 1][h.child[n][0]] \o <<n>> \o b[k - 1][h.child[n][1]]
<1> DEFINE N == Cardinality(Nodes)
           X == [NodeOrNull -> Seq(Nodes)]
           x0 == [n \in NodeOrNull |-> <<>>]
           F == [L \in X |-> [n \in NodeOrNull |->
                  IF n = NULL THEN <<>> ELSE L[h.child[n][0]] \o <<n>> \o L[h.child[n][1]]]]
           G(q) == [k \in 0 .. N |->
                      [n \in NodeOrNull |->
                         IF n = NULL \/ k = 0 THEN <<>>
                         ELSE q[k - 1][h.child[n][0]] \o <<n>> \o q[k - 1][h.child[n][1]]]]
           b == CHOOSE q : q = G(q)
<1>1. \A n \in Nodes : h.child[n][0] \in NodeOrNull /\ h.child[n][1] \in NodeOrNull
  BY HeapFacts DEF Side
<1>2. N \in Nat /\ Depths = 0 .. N
  BY DepthsFacts
<1>3. F \in [X -> X] /\ x0 \in X
  BY <1>1 DEF NodeOrNull
<1>4. PICK f \in [0 .. N -> X] : f[0] = x0 /\ \A k \in 1 .. N : f[k] = F[f[k - 1]]
  <2> HIDE DEF F, X, x0, N
  <2> QED BY <1>2, <1>3, Iterate
<1>5. f = G(f)
  <2>1. ASSUME NEW k \in 0 .. N
        PROVE  f[k] = [n \in NodeOrNull |->
                         IF n = NULL \/ k = 0 THEN <<>>
                         ELSE f[k - 1][h.child[n][0]] \o <<n>> \o f[k - 1][h.child[n][1]]]
    <3>1. CASE k = 0
      BY <1>4, <3>1
    <3>2. CASE k # 0
      <4>1. k \in 1 .. N /\ k - 1 \in 0 .. N
        BY <1>2, <3>2
      <4>2. f[k] = F[f[k - 1]] /\ f[k - 1] \in X
        BY <1>4, <4>1
      <4> QED BY <3>2, <4>2
    <3> QED BY <3>1, <3>2
  <2> QED BY <2>1
<1>6. b = G(b)
  <2> HIDE DEF G
  <2> QED BY <1>5
<1>7. ASSUME NEW k \in Depths
      PROVE  b[k] = [n \in NodeOrNull |->
                       IF n = NULL \/ k = 0 THEN <<>>
                       ELSE b[k - 1][h.child[n][0]] \o <<n>> \o b[k - 1][h.child[n][1]]]
  <2>1. \A c : c = G(c) => c[k] = [n \in NodeOrNull |->
                       IF n = NULL \/ k = 0 THEN <<>>
                       ELSE c[k - 1][h.child[n][0]] \o <<n>> \o c[k - 1][h.child[n][1]]]
    BY <1>2
  <2> HIDE DEF b, G
  <2> QED BY <1>6, <2>1
<1>8. b \in [Depths -> X]
  <2> DEFINE D == { k \in Nat : k \in Depths => b[k] \in X }
  <2> HIDE DEF b
  <2>1. 0 \in D
    <3>1. 0 \in Depths
      BY <1>2
    <3>2. b[0] = x0
      BY <1>7, <3>1
    <3> QED BY <1>3, <3>2
  <2>2. ASSUME NEW k \in D PROVE k + 1 \in D
    <3> SUFFICES ASSUME k + 1 \in Depths PROVE b[k + 1] \in X
      OBVIOUS
    <3>1. k \in Depths /\ b[k] \in X /\ (k + 1) - 1 = k /\ k + 1 # 0 /\ k + 1 \in 0 .. N
      BY <1>2
    <3>2. b[k + 1] = F[b[k]]
      BY <1>7, <3>1
    <3> QED BY <1>3, <3>1, <3>2
  <2>3. D = Nat
    <3> HIDE DEF D
    <3> QED BY <2>1, <2>2, Induction DEF D
  <2>4. b = [k \in Depths |-> b[k]]
    <3>1. \A c : c = G(c) => c = [k \in Depths |-> c[k]]
      BY <1>2
    <3> HIDE DEF G
    <3> QED BY <1>6, <3>1
  <2>5. \A k \in Depths : b[k] \in X
    <3> HIDE DEF X
    <3> QED BY <1>2, <2>3
  <2> HIDE DEF X
  <2> QED BY <2>4, <2>5
<1>9. InOrderBelow(h) = b[Cardinality(Nodes)]
  BY DEF InOrderBelow
<1>10. \A k \in Depths, n \in NodeOrNull :
        b[k][n] = IF n = NULL \/ k = 0 THEN <<>>
                  ELSE b[k - 1][h.child[n][0]] \o <<n>> \o b[k - 1][h.child[n][1]]
  <2> HIDE DEF b
  <2> QED BY <1>7
<1> HIDE DEF b, F, G, N, x0
<1> QED BY <1>8, <1>9, <1>10

-----------------------------------------------------------------------------
(* Subtrees and heights are what the definitions compute. *)

\* The node below which a black node is missing, if any.
Missing == IF pc = "eraseNormalise" THEN cur ELSE NULL

\* What is known at every loop head, whichever loop it is.
LEMMA LoopHead ==
  ASSUME Inv, NEW sub \in [Nodes -> SUBSET Nodes], NEW bh \in [Nodes -> Nat], LoopInv(sub, bh)
  PROVE  /\ t \in Heap /\ members \in SUBSET Nodes /\ Tree(t, members, sub)
         /\ Heights(t, members, bh, Missing, side)
<1>1. TypeOK
  BY DEF Inv
<1>2. /\ t \in Heap /\ members \in SUBSET Nodes
      /\ pc \in {"idle", "search", "insertNormalise", "eraseNormalise"}
  BY <1>1 DEF TypeOK
<1>3. CASE pc = "eraseNormalise"
  BY <1>2, <1>3 DEF LoopInv, EraseInv, RedBlack, Missing
<1>4. CASE pc # "eraseNormalise"
  <2>1. Tree(t, members, sub) /\ Heights(t, members, bh, NULL, 0)
    BY <1>2, <1>4 DEF LoopInv, Idle, IdleInv, SearchInv, InsertInv, RedBlack
  <2>2. \A n \in members, i \in Side : Credit(n, i, NULL, 0) = Credit(n, i, NULL, side)
    BY <1>2, NullNotNode DEF Credit
  <2>3. Heights(t, members, bh, NULL, side)
    BY <2>1, <2>2 DEF Heights
  <2> QED BY <1>2, <1>4, <2>1, <2>3 DEF Missing
<1> QED BY <1>3, <1>4

\* Subtree computes the subtrees of a tree.
LEMMA SubtreeFacts ==
  ASSUME t \in Heap, NEW M, NEW sub, Tree(t, M, sub)
  PROVE  Subtree \in [Nodes -> SUBSET Nodes] /\ \A n \in M : Subtree[n] = sub[n]
<1>1. PICK b \in [Depths -> [NodeOrNull -> SUBSET Nodes]] :
           /\ Subtree = [n \in Nodes |-> b[Cardinality(Nodes)][n]]
           /\ \A k \in Depths, n \in NodeOrNull :
                b[k][n] = IF n = NULL \/ k = 0 THEN {}
                          ELSE {n} \cup b[k - 1][t.child[n][0]] \cup b[k - 1][t.child[n][1]]
  BY SubtreeIs
<1>2. Cardinality(Nodes) \in Nat /\ Depths = 0 .. Cardinality(Nodes) /\ M \in SUBSET Nodes
  BY DepthsFacts DEF Tree
<1> DEFINE P == { n \in M : \A k \in Depths : k >= Weight(sub, n) => b[k][n] = sub[n] }
<1>3. ASSUME NEW n \in M, \A i \in Side : t.child[n][i] # NULL => t.child[n][i] \in P
      PROVE  n \in P
  <2> SUFFICES ASSUME NEW k \in Depths, k >= Weight(sub, n) PROVE b[k][n] = sub[n]
    OBVIOUS
  <2>1. n # NULL /\ n \in Nodes /\ Weight(sub, n) \in 1 .. Cardinality(Nodes)
    BY <1>2, NullNotNode, WeightFacts
  <2>2. k # 0 /\ k - 1 \in Depths /\ k \in Nat
    BY <1>2, <2>1
  <2>3. ASSUME NEW i \in Side PROVE b[k - 1][t.child[n][i]] = Sub(sub, t.child[n][i])
    <3>1. CASE t.child[n][i] = NULL
      BY <1>1, <2>2, <3>1 DEF Sub, NodeOrNull
    <3>2. CASE t.child[n][i] # NULL
      <4>1. Weight(sub, t.child[n][i]) < Weight(sub, n)
            /\ Weight(sub, t.child[n][i]) \in 0 .. Cardinality(Nodes)
        BY WeightFacts
      <4>2. k - 1 >= Weight(sub, t.child[n][i])
        BY <1>2, <2>1, <2>2, <4>1
      <4> QED BY <1>3, <2>2, <3>2, <4>2 DEF Sub
    <3> QED BY <3>1, <3>2
  <2>4. b[k][n] = {n} \cup b[k - 1][t.child[n][0]] \cup b[k - 1][t.child[n][1]]
    BY <1>1, <2>1, <2>2 DEF NodeOrNull
  <2>5. sub[n] = {n} \cup Sub(sub, t.child[n][0]) \cup Sub(sub, t.child[n][1])
    BY DEF Tree, Subtrees
  <2> QED BY <2>3, <2>4, <2>5 DEF Side
<1>4. M \subseteq P
  <2> HIDE DEF P
  <2> QED BY <1>3, TreeUp
<1>5. ASSUME NEW n \in M PROVE Subtree[n] = sub[n]
  <2>1. n \in P /\ n \in Nodes /\ Weight(sub, n) \in 1 .. Cardinality(Nodes)
    BY <1>2, <1>4, WeightFacts
  <2>2. Cardinality(Nodes) \in Depths /\ Cardinality(Nodes) >= Weight(sub, n)
    BY <1>2, <2>1
  <2>3. b[Cardinality(Nodes)][n] = sub[n]
    BY <2>1, <2>2
  <2> QED BY <1>1, <2>1, <2>3
<1>6. Subtree \in [Nodes -> SUBSET Nodes]
  <2>1. \A n \in Nodes : b[Cardinality(Nodes)][n] \in SUBSET Nodes
    <3>1. b[Cardinality(Nodes)] \in [NodeOrNull -> SUBSET Nodes]
      <4>1. Cardinality(Nodes) \in Depths
        BY <1>2
      <4> QED BY <4>1
    <3>2. Nodes \subseteq NodeOrNull
      BY DEF NodeOrNull
    <3> QED BY <3>1, <3>2
  <2> QED BY <1>1, <2>1
<1> QED BY <1>5, <1>6

\* BlackHeight computes the number of black nodes on each path, if there is one.
LEMMA BlackHeightFacts ==
  ASSUME t \in Heap, NEW M, NEW sub, Tree(t, M, sub), NEW bh,
         Heights(t, M, bh, Missing, side)
  PROVE  BlackHeight \in [Nodes -> Nat] /\ \A n \in M : BlackHeight[n] = bh[n]
<1>1. PICK b \in [Depths -> [NodeOrNull -> Nat]] :
           /\ BlackHeight = [n \in Nodes |-> b[Cardinality(Nodes)][n]]
           /\ \A k \in Depths, n \in NodeOrNull :
                b[k][n] = IF n = NULL \/ k = 0 THEN 0
                          ELSE Own(t, n) + LeftCredit(n) + b[k - 1][t.child[n][0]]
  BY BlackHeightIs
<1>2. Cardinality(Nodes) \in Nat /\ Depths = 0 .. Cardinality(Nodes) /\ M \in SUBSET Nodes
  BY DepthsFacts DEF Tree
<1> DEFINE P == { n \in M : \A k \in Depths : k >= Weight(sub, n) => b[k][n] = bh[n] }
<1>3. ASSUME NEW n \in M, \A i \in Side : t.child[n][i] # NULL => t.child[n][i] \in P
      PROVE  n \in P
  <2> SUFFICES ASSUME NEW k \in Depths, k >= Weight(sub, n) PROVE b[k][n] = bh[n]
    OBVIOUS
  <2>1. n # NULL /\ n \in Nodes /\ Weight(sub, n) \in 1 .. Cardinality(Nodes)
    BY <1>2, NullNotNode, WeightFacts
  <2>2. k # 0 /\ k - 1 \in Depths /\ k \in Nat /\ 0 \in Side
    BY <1>2, <2>1 DEF Side
  <2>3. b[k - 1][t.child[n][0]] = Height(bh, t.child[n][0])
    <3>1. CASE t.child[n][0] = NULL
      BY <1>1, <2>2, <3>1 DEF Height, NodeOrNull
    <3>2. CASE t.child[n][0] # NULL
      <4>1. Weight(sub, t.child[n][0]) < Weight(sub, n)
            /\ Weight(sub, t.child[n][0]) \in 0 .. Cardinality(Nodes)
        BY <2>2, WeightFacts
      <4>2. k - 1 >= Weight(sub, t.child[n][0])
        BY <1>2, <2>1, <2>2, <4>1
      <4> QED BY <1>3, <2>2, <3>2, <4>2 DEF Height
    <3> QED BY <3>1, <3>2
  <2>4. b[k][n] = Own(t, n) + LeftCredit(n) + b[k - 1][t.child[n][0]]
    BY <1>1, <2>1, <2>2 DEF NodeOrNull
  <2>5. bh[n] = Own(t, n) + Height(bh, t.child[n][0]) + Credit(n, 0, Missing, side)
    BY <2>2 DEF Heights
  <2>6. LeftCredit(n) = Credit(n, 0, Missing, side) /\ Own(t, n) \in Nat
        /\ Credit(n, 0, Missing, side) \in Nat
    BY <2>1 DEF LeftCredit, Missing, Credit, Own
  <2>7. Height(bh, t.child[n][0]) \in Nat
    <3>1. t.child[n][0] # NULL => t.child[n][0] \in M
      BY <2>2 DEF Tree, Linked
    <3> QED BY <1>2, <3>1 DEF Height, Heights
  <2> QED BY <2>3, <2>4, <2>5, <2>6, <2>7
<1>4. M \subseteq P
  <2> HIDE DEF P
  <2> QED BY <1>3, TreeUp
<1>5. ASSUME NEW n \in M PROVE BlackHeight[n] = bh[n]
  <2>1. n \in P /\ n \in Nodes /\ Weight(sub, n) \in 1 .. Cardinality(Nodes)
    BY <1>2, <1>4, WeightFacts
  <2>2. Cardinality(Nodes) \in Depths /\ Cardinality(Nodes) >= Weight(sub, n)
    BY <1>2, <2>1
  <2>3. b[Cardinality(Nodes)][n] = bh[n]
    BY <2>1, <2>2
  <2> QED BY <1>1, <2>1, <2>3
<1>6. BlackHeight \in [Nodes -> Nat]
  BY <1>1, <1>2 DEF NodeOrNull
<1> QED BY <1>5, <1>6

\* A tree has no more than one function of subtrees, and one of heights.
LEMMA SameRedBlack ==
  ASSUME NEW h, NEW M, NEW sub, NEW bh, NEW x, NEW c, NEW s, RedBlack(h, M, sub, bh, x, c, s),
         NEW sub2 \in [Nodes -> SUBSET Nodes], NEW bh2 \in [Nodes -> Nat],
         \A n \in M : sub2[n] = sub[n] /\ bh2[n] = bh[n]
  PROVE  RedBlack(h, M, sub2, bh2, x, c, s)
<1>1. /\ h.root \in M \cup {NULL}
      /\ \A n \in M, i \in Side : h.child[n][i] # NULL => h.child[n][i] \in M
  BY DEF RedBlack, Tree, Linked
<1>2. Sub(sub2, h.root) = Sub(sub, h.root)
  BY <1>1 DEF Sub
<1>3. \A n \in M, i \in Side : Sub(sub2, h.child[n][i]) = Sub(sub, h.child[n][i])
                             /\ Height(bh2, h.child[n][i]) = Height(bh, h.child[n][i])
  BY <1>1 DEF Sub, Height
<1>4. 0 \in Side /\ 1 \in Side
  BY DEF Side
<1>5. Tree(h, M, sub2)
  <2>1. Subtrees(h, M, sub)
    BY DEF RedBlack, Tree
  <2>2. M = Sub(sub2, h.root)
    BY <1>2, <2>1 DEF Subtrees
  <2>3. ASSUME NEW n \in M
        PROVE  /\ sub2[n] \subseteq M
               /\ sub2[n] = {n} \cup Sub(sub2, h.child[n][0]) \cup Sub(sub2, h.child[n][1])
               /\ Sub(sub2, h.child[n][0]) \cap Sub(sub2, h.child[n][1]) = {}
               /\ \A i \in Side : n \notin Sub(sub2, h.child[n][i])
    <3>1. /\ sub2[n] = sub[n]
          /\ Sub(sub2, h.child[n][0]) = Sub(sub, h.child[n][0])
          /\ Sub(sub2, h.child[n][1]) = Sub(sub, h.child[n][1])
      BY <1>3, <1>4
    <3> QED BY <1>3, <2>1, <3>1 DEF Subtrees
  <2>4. \A m, n \in M :
          m \in sub2[n] <=> m = n \/ (h.parent[m] # NULL /\ h.parent[m] \in sub2[n])
    BY <2>1 DEF Subtrees
  <2>5. Subtrees(h, M, sub2)
    BY <2>2, <2>3, <2>4 DEF Subtrees
  <2> QED BY <2>5 DEF RedBlack, Tree
<1>6. Heights(h, M, bh2, c, s)
  BY <1>3 DEF RedBlack, Heights
<1> QED BY <1>5, <1>6 DEF RedBlack

\* What the loop heads need of the tree: one tree, one height at each node, and
\* no red pair, apart from the exceptions of the loop.
THEOREM LoopsCorrect == Spec => []LoopInvariants
<1>1. Inv => LoopInvariants
  <2> SUFFICES ASSUME Inv PROVE LoopInvariants
    OBVIOUS
  <2>1. PICK sub \in [Nodes -> SUBSET Nodes], bh \in [Nodes -> Nat] : LoopInv(sub, bh)
    BY DEF Inv
  <2>2. /\ t \in Heap /\ Tree(t, members, sub)
        /\ Heights(t, members, bh, Missing, side)
    BY <2>1, LoopHead
  <2>3. Subtree \in [Nodes -> SUBSET Nodes] /\ \A n \in members : Subtree[n] = sub[n]
    BY <2>2, SubtreeFacts
  <2>4. BlackHeight \in [Nodes -> Nat] /\ \A n \in members : BlackHeight[n] = bh[n]
    BY <2>2, BlackHeightFacts
  <2>5. ASSUME NEW x, NEW c, NEW s, RedBlack(t, members, sub, bh, x, c, s)
        PROVE  RedBlack(t, members, Subtree, BlackHeight, x, c, s)
    BY <2>3, <2>4, <2>5, SameRedBlack
  <2>6. ASSUME SearchInv(sub, bh) PROVE SearchInv(Subtree, BlackHeight)
    <3>1. Erasing => t.child[req.node][0] \in members
      BY <2>2, <2>6 DEF SearchInv, IsDeg2, Tree, Linked, Side
    <3> QED BY <2>3, <2>5, <2>6, <3>1 DEF SearchInv
  <2>7. LoopInv(Subtree, BlackHeight)
    BY <2>1, <2>5, <2>6 DEF LoopInv, IdleInv, InsertInv, EraseInv
  <2> QED BY <2>7 DEF Inv, LoopInvariants
<1> QED BY <1>1, Invariance, PTL

\* There is one number of black nodes on all paths down from the root.
THEOREM BalanceCorrect == Spec => []Balanced
<1>1. Inv => Balanced
  <2> SUFFICES ASSUME Inv PROVE Balanced
    OBVIOUS
  <2> DEFINE M == members
  <2>1. PICK sub \in [Nodes -> SUBSET Nodes], bh \in [Nodes -> Nat] : LoopInv(sub, bh)
    BY DEF Inv
  <2>2. /\ t \in Heap /\ Tree(t, M, sub) /\ M \in SUBSET Nodes
        /\ Heights(t, M, bh, Missing, side)
    BY <2>1, LoopHead
  <2>3. PICK b \in [Depths -> [NodeOrNull -> SUBSET Nat]] :
             /\ BlackCounts(t) = b[Cardinality(Nodes)][t.root]
             /\ \A k \in Depths, n \in NodeOrNull :
                  b[k][n] = IF n = NULL \/ k = 0 THEN {0}
                            ELSE CountsAbove(t, n, b[k - 1])
    BY <2>2, BlackCountsIs
  <2>4. Cardinality(Nodes) \in Nat /\ Depths = 0 .. Cardinality(Nodes)
    BY DepthsFacts
  <2> DEFINE P == { n \in M : \A k \in Depths : k >= Weight(sub, n) => b[k][n] = {bh[n]} }
  <2>5. ASSUME NEW n \in M, \A i \in Side : t.child[n][i] # NULL => t.child[n][i] \in P
        PROVE  n \in P
    <3> SUFFICES ASSUME NEW k \in Depths, k >= Weight(sub, n) PROVE b[k][n] = {bh[n]}
      OBVIOUS
    <3>1. n # NULL /\ n \in Nodes /\ Weight(sub, n) \in 1 .. Cardinality(Nodes)
      BY <2>2, NullNotNode, WeightFacts
    <3>2. k # 0 /\ k - 1 \in Depths /\ k \in Nat
      BY <2>4, <3>1
    <3>3. ASSUME NEW i \in Side PROVE b[k - 1][t.child[n][i]] = {Height(bh, t.child[n][i])}
      <4>1. CASE t.child[n][i] = NULL
        BY <2>3, <3>2, <4>1 DEF Height, NodeOrNull
      <4>2. CASE t.child[n][i] # NULL
        <5>1. Weight(sub, t.child[n][i]) < Weight(sub, n)
              /\ Weight(sub, t.child[n][i]) \in 0 .. Cardinality(Nodes)
          BY <2>2, WeightFacts
        <5>2. k - 1 >= Weight(sub, t.child[n][i])
          BY <2>4, <3>1, <3>2, <5>1
        <5> QED BY <2>5, <3>2, <4>2, <5>2 DEF Height
      <4> QED BY <4>1, <4>2
    <3>4. b[k][n] = CountsAbove(t, n, b[k - 1])
      BY <2>3, <3>1, <3>2 DEF NodeOrNull
    <3>5. ASSUME NEW i \in Side
          PROVE  Height(bh, t.child[n][i]) + Own(t, n) + PassCredit(n, i) = bh[n]
      <4>1. PassCredit(n, i) = Credit(n, i, Missing, side)
        BY <3>1 DEF PassCredit, Credit, Missing
      <4>2. bh[n] = Own(t, n) + Height(bh, t.child[n][i]) + Credit(n, i, Missing, side)
        BY <2>2 DEF Heights
      <4>3. Height(bh, t.child[n][i]) \in Nat /\ Own(t, n) \in Nat
            /\ Credit(n, i, Missing, side) \in Nat
        <5>1. t.child[n][i] # NULL => t.child[n][i] \in M
          BY <2>2 DEF Tree, Linked
        <5> QED BY <2>2, <5>1 DEF Height, Own, Credit
      <4> QED BY <4>1, <4>2, <4>3
    <3>6. CountsAbove(t, n, b[k - 1]) = {bh[n]}
      <4>1. \A i \in Side : \A m \in b[k - 1][t.child[n][i]] :
              m + Own(t, n) + PassCredit(n, i) = bh[n]
        BY <3>3, <3>5
      <4>2. \A i \in Side : Height(bh, t.child[n][i]) \in b[k - 1][t.child[n][i]]
        BY <3>3
      <4>3. 0 \in Side
        BY DEF Side
      <4>4. \A x \in CountsAbove(t, n, b[k - 1]) : x = bh[n]
        BY <4>1 DEF CountsAbove
      <4>5. bh[n] \in CountsAbove(t, n, b[k - 1])
        <5>1. bh[n] = Height(bh, t.child[n][0]) + Own(t, n) + PassCredit(n, 0)
          BY <3>5, <4>3
        <5> DEFINE T(i) == { m + Own(t, n) + PassCredit(n, i) : m \in b[k - 1][t.child[n][i]] }
        <5>2. bh[n] \in T(0)
          BY <4>2, <4>3, <5>1
        <5>3. CountsAbove(t, n, b[k - 1]) = UNION { T(i) : i \in Side }
          BY DEF CountsAbove
        <5> HIDE DEF T
        <5> QED BY <4>3, <5>2, <5>3
      <4> QED BY <4>4, <4>5
    <3> QED BY <3>4, <3>6
  <2>6. M \subseteq P
    <3> HIDE DEF P
    <3> QED BY <2>2, <2>5, TreeUp
  <2>7. \E v : BlackCounts(t) = {v}
    <3>1. Cardinality(Nodes) \in Depths
      BY <2>4
    <3>2. CASE t.root = NULL
      BY <2>3, <3>1, <3>2 DEF NodeOrNull
    <3>3. CASE t.root # NULL
      <4>1. t.root \in M
        BY <2>2, <3>3 DEF Tree, Linked
      <4>2. Cardinality(Nodes) >= Weight(sub, t.root)
        BY <2>2, <2>4, <4>1, WeightFacts
      <4> QED BY <2>3, <2>6, <3>1, <4>1, <4>2
    <3> QED BY <3>2, <3>3
  <2> QED BY <2>7 DEF Balanced
<1> QED BY <1>1, Invariance, PTL

-----------------------------------------------------------------------------
(* Progress *)

\* The nodes above n, itself included.
Above(sub, M, n) == { m \in M : n \in sub[m] }

\* A node has one node more above it than its parent.
LEMMA AboveFacts ==
  ASSUME NEW h \in Heap, NEW M, NEW sub, Tree(h, M, sub)
  PROVE  \A n \in M :
           /\ Cardinality(Above(sub, M, n)) \in 1 .. Cardinality(Nodes)
           /\ h.parent[n] = NULL => Cardinality(Above(sub, M, n)) = 1
           /\ h.parent[n] # NULL =>
                /\ h.parent[n] \in M
                /\ Cardinality(Above(sub, M, n)) = Cardinality(Above(sub, M, h.parent[n])) + 1
<1> SUFFICES ASSUME NEW n \in M
             PROVE  /\ Cardinality(Above(sub, M, n)) \in 1 .. Cardinality(Nodes)
                    /\ h.parent[n] = NULL => Cardinality(Above(sub, M, n)) = 1
                    /\ h.parent[n] # NULL =>
                         /\ h.parent[n] \in M
                         /\ Cardinality(Above(sub, M, n))
                              = Cardinality(Above(sub, M, h.parent[n])) + 1
  OBVIOUS
<1>1. IsFiniteSet(Nodes) /\ M \in SUBSET Nodes
  BY NodesFinite DEF Tree
<1>2. \A m \in M : IsFiniteSet(Above(sub, M, m)) /\ Cardinality(Above(sub, M, m)) \in Nat
                   /\ Cardinality(Above(sub, M, m)) <= Cardinality(Nodes)
  <2> TAKE m \in M
  <2>1. Above(sub, M, m) \in SUBSET Nodes
    BY <1>1 DEF Above
  <2> QED BY <1>1, <2>1, FS_Subset, FS_CardinalityType
<1>3. n \in sub[n]
  BY TreeLocal
<1>4. \A m \in M : n \in sub[m] <=> n = m \/ (h.parent[n] # NULL /\ h.parent[n] \in sub[m])
  BY DEF Tree, Subtrees
<1>5. n \in Above(sub, M, n)
  BY <1>3 DEF Above
<1>6. Cardinality(Above(sub, M, n)) # 0
  BY <1>2, <1>5, FS_EmptySet
<1>7. ASSUME h.parent[n] = NULL PROVE Cardinality(Above(sub, M, n)) = 1
  <2>1. Above(sub, M, n) = {n}
    BY <1>4, <1>5, <1>7 DEF Above
  <2> QED BY <2>1, FS_Singleton
<1>8. ASSUME h.parent[n] # NULL
      PROVE  /\ h.parent[n] \in M
             /\ Cardinality(Above(sub, M, n)) = Cardinality(Above(sub, M, h.parent[n])) + 1
  <2> DEFINE p == h.parent[n]
  <2>1. p \in M /\ \E i \in Side : h.child[p][i] = n
    BY <1>8 DEF Tree, Linked
  <2>2. p \notin sub[n]
    <3>1. PICK i \in Side : h.child[p][i] = n
      BY <2>1
    <3>2. n # NULL
      BY TreeLocal
    <3> QED BY <2>1, <3>1, <3>2, SubtreesAt DEF Sub
  <2>3. Above(sub, M, n) = Above(sub, M, p) \cup {n}
    BY <1>4, <1>5, <1>8 DEF Above
  <2>4. n \notin Above(sub, M, p)
    BY <2>2 DEF Above
  <2> QED BY <1>2, <2>1, <2>3, <2>4, FS_AddElement
<1> QED BY <1>2, <1>6, <1>7, <1>8

\* Depth counts the nodes above a node.
LEMMA DepthFacts ==
  ASSUME NEW h \in Heap, NEW M, NEW sub, Tree(h, M, sub)
  PROVE  \A n \in M : Depth(h, n) = Cardinality(Above(sub, M, n)) - 1
<1>1. PICK b \in [Depths -> [NodeOrNull -> Nat]] :
           /\ \A x : Depth(h, x) = b[Cardinality(Nodes)][h.parent[x]]
           /\ \A k \in Depths, n \in NodeOrNull :
                b[k][n] = IF n = NULL \/ k = 0 THEN 0 ELSE 1 + b[k - 1][h.parent[n]]
  BY DepthIs
<1>2. Cardinality(Nodes) \in Nat /\ Depths = 0 .. Cardinality(Nodes) /\ M \in SUBSET Nodes
  BY DepthsFacts DEF Tree
<1> DEFINE A(n) == Cardinality(Above(sub, M, n))
           P == { n \in M : \A k \in Depths : k >= A(n) => b[k][n] = A(n) }
<1>3. \A n \in M : /\ A(n) \in 1 .. Cardinality(Nodes)
                   /\ h.parent[n] = NULL => A(n) = 1
                   /\ h.parent[n] # NULL => h.parent[n] \in M /\ A(n) = A(h.parent[n]) + 1
  BY AboveFacts
<1> HIDE DEF A
<1>4. ASSUME NEW n \in M, h.parent[n] # NULL => h.parent[n] \in P PROVE n \in P
  <2> SUFFICES ASSUME NEW k \in Depths, k >= A(n) PROVE b[k][n] = A(n)
    OBVIOUS
  <2>1. n # NULL /\ n \in NodeOrNull /\ A(n) \in 1 .. Cardinality(Nodes)
    BY <1>2, <1>3, NullNotNode DEF NodeOrNull
  <2>2. k # 0 /\ k - 1 \in Depths /\ k \in Nat
    BY <1>2, <2>1
  <2>3. b[k][n] = 1 + b[k - 1][h.parent[n]]
    BY <1>1, <2>1, <2>2
  <2>4. CASE h.parent[n] = NULL
    BY <1>1, <1>3, <2>2, <2>3, <2>4 DEF NodeOrNull
  <2>5. CASE h.parent[n] # NULL
    <3>1. h.parent[n] \in P /\ A(n) = A(h.parent[n]) + 1 /\ A(h.parent[n]) \in Nat
      BY <1>3, <1>4, <2>5
    <3>2. k - 1 >= A(h.parent[n])
      BY <2>2, <3>1
    <3> QED BY <2>2, <2>3, <3>1, <3>2
  <2> QED BY <2>4, <2>5
<1>5. h.root # NULL => h.root \in P
  <2> HIDE DEF P
  <2> QED BY <1>4 DEF Tree, Linked
<1>6. ASSUME NEW n \in M, n \in P, NEW i \in Side, h.child[n][i] # NULL
      PROVE  h.child[n][i] \in P
  <2>1. h.child[n][i] \in M /\ h.parent[h.child[n][i]] = n
    BY <1>6, TreeLocal
  <2> HIDE DEF P
  <2> QED BY <1>4, <1>6, <2>1
<1>7. M \subseteq P
  <2> HIDE DEF P
  <2> QED BY <1>5, <1>6, TreeDown
<1>8. ASSUME NEW n \in M PROVE Depth(h, n) = A(n) - 1
  <2>1. Cardinality(Nodes) \in Depths /\ A(n) \in Nat
    BY <1>2, <1>3
  <2>2. Depth(h, n) = b[Cardinality(Nodes)][h.parent[n]]
    BY <1>1
  <2>3. CASE h.parent[n] = NULL
    <3>1. b[Cardinality(Nodes)][NULL] = 0
      <4>1. NULL \in NodeOrNull
        BY DEF NodeOrNull
      <4> QED BY <1>1, <2>1, <4>1
    <3>2. A(n) = 1
      BY <1>3, <2>3
    <3> QED BY <2>2, <2>3, <3>1, <3>2
  <2>4. CASE h.parent[n] # NULL
    <3>1. h.parent[n] \in P /\ A(n) = A(h.parent[n]) + 1
          /\ A(h.parent[n]) \in 1 .. Cardinality(Nodes)
      BY <1>3, <1>7, <2>4
    <3>2. Cardinality(Nodes) >= A(h.parent[n])
      BY <1>2, <3>1
    <3> QED BY <2>1, <2>2, <3>1, <3>2
  <2> QED BY <2>3, <2>4
<1> QED BY <1>8 DEF A

\* A heap with the same links is the same tree.
LEMMA LinksTree ==
  ASSUME NEW h, NEW M, NEW sub, Tree(h, M, sub), NEW g,
         g.root = h.root, g.parent = h.parent, g.child = h.child
  PROVE  Tree(g, M, sub)
<1>1. Linked(g, M)
  BY DEF Tree, Linked
<1>2. Subtrees(g, M, sub)
  BY DEF Tree, Subtrees
<1> QED BY <1>1, <1>2 DEF Tree


\* What Remaining is: more in a search than in a repair.
RemainingIs(sub) ==
  /\ Idle => Remaining = 0
  /\ pc = "search" => Remaining = 3 * Cardinality(Nodes) + 1
                                  - Cardinality(Above(sub, members, cur))
  /\ ~ Idle /\ pc # "search" => Remaining = Cardinality(Above(sub, members, cur))
  /\ ~ Idle => /\ cur \in members
               /\ Cardinality(Above(sub, members, cur)) \in 1 .. Cardinality(Nodes)

\* What remains, from the depth of cur and the number of nodes.
LEMMA RemainingFacts ==
  \A sub : Inv /\ Tree(t, members, sub) => RemainingIs(sub)
<1> SUFFICES ASSUME Inv, NEW sub, Tree(t, members, sub) PROVE RemainingIs(sub)
  OBVIOUS
<1>1. TypeOK /\ t \in Heap
  BY DEF Inv, TypeOK
<1>2. PICK s2 \in [Nodes -> SUBSET Nodes], bh \in [Nodes -> Nat] : LoopInv(s2, bh)
  BY DEF Inv
<1>3. ~ Idle => cur \in members
  BY <1>1, <1>2 DEF TypeOK, LoopInv, Idle, SearchInv, InsertInv, EraseInv
<1>4. ~ Idle => /\ Depth(t, cur) = Cardinality(Above(sub, members, cur)) - 1
                /\ Cardinality(Above(sub, members, cur)) \in 1 .. Cardinality(Nodes)
  BY <1>1, <1>3, AboveFacts, DepthFacts
<1>5. Cardinality(Nodes) \in Nat
  BY DepthsFacts
<1>6. CASE pc = "idle"
  BY <1>6 DEF RemainingIs, Remaining, Idle
<1>7. CASE pc = "search"
  BY <1>3, <1>4, <1>5, <1>7 DEF RemainingIs, Remaining, Idle
<1>8. CASE pc # "idle" /\ pc # "search"
  BY <1>3, <1>4, <1>5, <1>8 DEF RemainingIs, Remaining, Idle
<1> QED BY <1>6, <1>7, <1>8

\* The same after a step.
LEMMA RemainingNext ==
  \A sub : Inv' /\ Tree(t', members', sub) => RemainingIs(sub)'
<1> DEFINE Now == \A sub : Inv /\ Tree(t, members, sub) => RemainingIs(sub)
<1>1. Now
  BY RemainingFacts
<1> HIDE DEF Now
<1>2. Now'
  BY <1>1, PTL
<1> QED BY <1>2 DEF Now

\* There is a tree after a step, too.
LEMMA TreeNext == Inv' => \E sub : Tree(t', members', sub)
<1> DEFINE Now == Inv => \E sub : Tree(t, members, sub)
<1>1. Now
  BY TreeAlways
<1> HIDE DEF Now
<1>2. Now'
  BY <1>1, PTL
<1> QED BY <1>2 DEF Now

\* A step out of a search, or out of a call, makes progress.
LEMMA LeavingProgress ==
  ASSUME Inv, Inv', ~ Idle, (pc = "search" /\ pc' # "search") \/ pc' = "idle"
  PROVE  Remaining' < Remaining
<1>1. PICK sub : Tree(t, members, sub)
  BY TreeAlways
<1>2. PICK sub2 : Tree(t', members', sub2)
  BY TreeNext
<1>3. RemainingIs(sub) /\ RemainingIs(sub2)'
  BY <1>1, <1>2, RemainingFacts, RemainingNext
<1>4. Cardinality(Nodes) \in Nat
  BY DepthsFacts
<1>5. pc' = "idle" => Remaining' = 0
  BY <1>3 DEF RemainingIs, Idle
<1>6. pc' # "idle" /\ pc' # "search" => Remaining' \in 1 .. Cardinality(Nodes)
  BY <1>3 DEF RemainingIs, Idle
<1>7. pc = "search" => Remaining \in Nat /\ Remaining > 2 * Cardinality(Nodes)
  BY <1>3, <1>4 DEF RemainingIs
<1>8. Remaining \in Nat /\ Remaining > 0
  BY <1>3, <1>4, <1>7 DEF RemainingIs
<1> QED BY <1>4, <1>5, <1>6, <1>7, <1>8

\* A pass that stays in its loop, in a tree with the same links, makes progress
\* when it goes down in a search and up in a repair.
LEMMA StayingProgress ==
  ASSUME Inv, Inv', ~ Idle, pc' = pc, members' = members,
         t'.root = t.root, t'.parent = t.parent, t'.child = t.child,
         IF pc = "search" THEN cur' # NULL /\ t.parent[cur'] = cur
         ELSE cur' = t.parent[cur] \/ (t.parent[cur] # NULL /\ cur' = t.parent[t.parent[cur]])
  PROVE  Remaining' < Remaining
<1>1. PICK sub : Tree(t, members, sub)
  BY TreeAlways
<1>2. Tree(t', members', sub)
  BY <1>1, LinksTree
<1>3. RemainingIs(sub) /\ RemainingIs(sub)'
  BY <1>1, <1>2, RemainingFacts, RemainingNext
<1> DEFINE A(n) == Cardinality(Above(sub, members, n))
<1>4. Cardinality(Nodes) \in Nat /\ t \in Heap /\ members \in SUBSET Nodes
  BY DepthsFacts DEF Inv, TypeOK
<1>5. \A n \in members : /\ n # NULL
                         /\ A(n) \in 1 .. Cardinality(Nodes)
                         /\ t.parent[n] = NULL => A(n) = 1
                         /\ t.parent[n] # NULL => t.parent[n] \in members
                                                  /\ A(n) = A(t.parent[n]) + 1
  BY <1>1, <1>4, AboveFacts, NullNotNode
<1>6. cur \in members /\ cur' \in members
  BY <1>3 DEF RemainingIs, Idle
<1>7. CASE pc = "search"
  <2>1. Remaining = 3 * Cardinality(Nodes) + 1 - A(cur)
        /\ Remaining' = 3 * Cardinality(Nodes) + 1 - A(cur')
    BY <1>3, <1>7 DEF RemainingIs
  <2>2. A(cur') = A(cur) + 1
    BY <1>5, <1>6, <1>7
  <2> HIDE DEF A
  <2> QED BY <1>4, <1>5, <1>6, <2>1, <2>2
<1>8. CASE pc # "search"
  <2>1. Remaining = A(cur) /\ Remaining' = A(cur')
    BY <1>3, <1>8 DEF RemainingIs, Idle
  <2> HIDE DEF A
  <2> QED BY <1>4, <1>5, <1>6, <1>8, <2>1
<1> QED BY <1>7, <1>8

\* Every pass of a loop brings the call nearer to its end.
THEOREM ProgressCorrect == Spec => PassesProgress
<1>1. Inv /\ Inv' /\ [Next]_vars => [~ Idle => Remaining' < Remaining]_vars
  <2> SUFFICES ASSUME Inv, Inv', Next, ~ Idle PROVE Remaining' < Remaining
    OBVIOUS
  <2>1. Pass
    BY DEF Next, ClientCall, Idle, InsertRoot, InsertBeforeEnd, InsertAfterEnd, InsertBefore,
       InsertAfter, InsertLeafNode, EraseDeg2, EraseDeg1, Clear
  <2>2. t \in Heap /\ members \in SUBSET Nodes /\ side \in Side /\ cur \in members
    <3>1. PICK sub : Tree(t, members, sub)
      BY TreeAlways
    <3>2. cur \in members
      BY <3>1, RemainingFacts DEF RemainingIs
    <3> QED BY <3>2 DEF Inv, TypeOK
  <2>3. CASE SearchPass
    <3>1. pc = "search" /\ t.child[cur][side] # NULL /\ cur' = t.child[cur][side]
          /\ t' = t /\ members' = members /\ pc' = pc
      BY <2>3 DEF SearchPass
    <3>2. PICK sub : Tree(t, members, sub)
      BY TreeAlways
    <3>3. t.parent[cur'] = cur
      BY <2>2, <3>1, <3>2, TreeLocal
    <3> QED BY <3>1, <3>3, StayingProgress
  <2>4. CASE SearchInsert
    <3>1. pc = "search" /\ pc' = "insertNormalise"
      BY <2>4 DEF SearchInsert, InsertUnderLeafNode, Loop
    <3> QED BY <3>1, LeavingProgress
  <2>5. CASE SearchErase
    <3>1. pc = "search" /\ pc' # "search"
      BY <2>5 DEF SearchErase, Unlink, Loop, Return
    <3> QED BY <3>1, LeavingProgress
  <2>6. CASE NormaliseRoot \/ NormaliseUnderBlack \/ NormaliseRotate \/ NormaliseErase4
             \/ NormaliseErase56
    <3>1. pc' = "idle"
      BY <2>6 DEF NormaliseRoot, NormaliseUnderBlack, NormaliseRotate, NormaliseErase4,
         NormaliseErase56, Return
    <3> QED BY <3>1, LeavingProgress
  <2>7. CASE NormaliseRecolour
    <3>1. pc = "insertNormalise" /\ pc' = pc /\ Parent # NULL /\ cur' = Grandparent
          /\ members' = members /\ t' = Recolour(t, Parent, Uncle, Grandparent)
      BY <2>7 DEF NormaliseRecolour, Loop
    <3>2. t'.root = t.root /\ t'.parent = t.parent /\ t'.child = t.child
      BY <2>2, <3>1 DEF Recolour, Heap
    <3> QED BY <3>1, <3>2, StayingProgress DEF Parent, Grandparent
  <2>8. CASE NormaliseErase3
    <3>1. pc = "eraseNormalise" /\ ~ Levelled.red[cur] /\ members' = members
          /\ t' = [Levelled EXCEPT !.red[S] = TRUE]
          /\ \/ pc' = "idle"
             \/ pc' = pc /\ cur' = Levelled.parent[cur]
      BY <2>8 DEF NormaliseErase3, Loop, Return
    <3>2. Levelled = t
      <4>1. PICK sub \in [Nodes -> SUBSET Nodes], bh \in [Nodes -> Nat] :
              RedBlack(t, members, sub, bh, NULL, cur, side)
        BY <3>1 DEF Inv, LoopInv, EraseInv
      <4>2. Sibling(t) \in members /\ Sibling(t) # cur
        BY <2>2, <4>1, SiblingFacts
      <4> SUFFICES ASSUME t.red[Sibling(t)] PROVE FALSE
        BY DEF Levelled, BlackSibling
      <4> DEFINE g == TreeRotate(t, cur, side)
      <4>3. Levelled = [g EXCEPT !.red[cur] = TRUE, !.red[Sibling(t)] = FALSE]
        BY DEF Levelled, BlackSibling
      <4>4. g \in Heap
        <5>1. RedBlack(t, members, sub, bh, NULL, cur, side) => Tree(t, members, sub)
          BY DEF RedBlack
        <5>2. Sibling(t) = t.child[cur][Opp(side)] /\ Sibling(t) # NULL
          BY <2>2, <4>2, NullNotNode DEF Sibling
        <5>3. Rotated(g, t, cur, side, t.child[cur][Opp(side)])
          BY <2>2, <4>1, <5>1, <5>2, RotateTree
        <5> QED BY <5>3 DEF Rotated
      <4> HIDE DEF g
      <4>5. cur \in Nodes /\ Sibling(t) \in Nodes
        BY <2>2, <4>2
      <4>6. Levelled.red[cur] = TRUE
        BY <4>2, <4>3, <4>4, <4>5 DEF Heap
      <4> QED BY <3>1, <4>6
    <3>3. t'.root = t.root /\ t'.parent = t.parent /\ t'.child = t.child
      BY <2>2, <3>1, <3>2 DEF Heap
    <3>4. CASE pc' = "idle"
      BY <3>4, LeavingProgress
    <3>5. CASE pc' = pc /\ cur' = Levelled.parent[cur]
      <4>1. cur' = t.parent[cur]
        BY <3>2, <3>5
      <4> QED BY <3>1, <3>3, <3>5, <4>1, StayingProgress
    <3> QED BY <3>1, <3>4, <3>5
  <2> QED BY <2>1, <2>3, <2>4, <2>5, <2>6, <2>7, <2>8 DEF Pass
<1> QED BY <1>1, Invariance, PTL DEF Spec, PassesProgress

=============================================================================
