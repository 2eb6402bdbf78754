------------------------ MODULE RedBlackTreeListProofs ------------------------
(***************************************************************************)
(* The tree as the list of its nodes, in order, and what the iterators and *)
(* the searches find in it.  There are two parts, which go on where        *)
(* RedBlackTreeProofs ends:                                                *)
(*   5. the list   what each change of part 1 does to the sequence of the  *)
(*                 nodes: rotations and colours leave it alone, a new leaf *)
(*                 is inserted next to the node it hangs under, and so on. *)
(*                 The refinement of OrderedList follows;                  *)
(*   6. searches   the loops that follow links without a bound: in a tree  *)
(*                 the iterators reach the neighbour in the order of the   *)
(*                 list, and the descent of a search ends at the node on   *)
(*                 the right of the cut that the search is for.            *)
(***************************************************************************)
EXTENDS RedBlackTreeProofs, SequenceTheorems

(***************************************************************************)
(* Part 5: the list                                                        *)
(***************************************************************************)

(* Sequences without repetition *)

Elements(s) == { s[j] : j \in DOMAIN s }
Distinct(s) == \A i, j \in DOMAIN s : s[i] = s[j] => i = j

\* The elements of a concatenation.
LEMMA ConcatElements ==
  ASSUME NEW D, NEW s \in Seq(D), NEW r \in Seq(D)
  PROVE  Elements(s \o r) = Elements(s) \cup Elements(r)
<1> DEFINE c == s \o r
<1>1. /\ DOMAIN s = 1 .. Len(s) /\ DOMAIN r = 1 .. Len(r) /\ Len(s) \in Nat /\ Len(r) \in Nat
      /\ DOMAIN c = 1 .. Len(s) + Len(r)
      /\ \A i \in 1 .. Len(s) + Len(r) : c[i] = IF i <= Len(s) THEN s[i] ELSE r[i - Len(s)]
  BY ConcatProperties, LenProperties
<1> HIDE DEF c
<1>2. ASSUME NEW i \in DOMAIN c PROVE c[i] \in Elements(s) \cup Elements(r)
  BY <1>1 DEF Elements
<1>3. ASSUME NEW i \in DOMAIN s PROVE s[i] \in Elements(c)
  <2>1. i \in DOMAIN c /\ c[i] = s[i]
    BY <1>1
  <2> QED BY <2>1 DEF Elements
<1>4. ASSUME NEW i \in DOMAIN r PROVE r[i] \in Elements(c)
  <2>1. i + Len(s) \in DOMAIN c /\ c[i + Len(s)] = r[i]
    BY <1>1
  <2> QED BY <2>1 DEF Elements
<1>5. Elements(c) = Elements(s) \cup Elements(r)
  BY <1>2, <1>3, <1>4 DEF Elements
<1> QED BY <1>5 DEF c

\* Two sequences without repetition that share no element have none together.
LEMMA ConcatDistinct ==
  ASSUME NEW D, NEW s \in Seq(D), NEW r \in Seq(D), Distinct(s), Distinct(r),
         Elements(s) \cap Elements(r) = {}
  PROVE  Distinct(s \o r)
<1> DEFINE c == s \o r
<1>1. /\ DOMAIN s = 1 .. Len(s) /\ DOMAIN r = 1 .. Len(r) /\ Len(s) \in Nat /\ Len(r) \in Nat
      /\ DOMAIN c = 1 .. Len(s) + Len(r)
      /\ \A i \in 1 .. Len(s) + Len(r) : c[i] = IF i <= Len(s) THEN s[i] ELSE r[i - Len(s)]
  BY ConcatProperties, LenProperties
<1> HIDE DEF c
<1>2. \A i \in DOMAIN s, j \in DOMAIN r : s[i] # r[j]
  BY DEF Elements
<1>3. SUFFICES ASSUME NEW i \in DOMAIN c, NEW j \in DOMAIN c, c[i] = c[j] PROVE i = j
  BY DEF Distinct, c
<1>4. CASE i <= Len(s) /\ j <= Len(s)
  BY <1>1, <1>3, <1>4 DEF Distinct
<1>5. CASE ~ (i <= Len(s)) /\ ~ (j <= Len(s))
  <2>1. i - Len(s) \in DOMAIN r /\ j - Len(s) \in DOMAIN r /\ r[i - Len(s)] = r[j - Len(s)]
    BY <1>1, <1>3, <1>5
  <2>2. i - Len(s) = j - Len(s)
    BY <2>1 DEF Distinct
  <2> QED BY <1>1, <2>2
<1>6. CASE i <= Len(s) /\ ~ (j <= Len(s))
  <2>1. i \in DOMAIN s /\ j - Len(s) \in DOMAIN r /\ s[i] = r[j - Len(s)]
    BY <1>1, <1>3, <1>6
  <2> QED BY <1>2, <2>1
<1>7. CASE ~ (i <= Len(s)) /\ j <= Len(s)
  <2>1. j \in DOMAIN s /\ i - Len(s) \in DOMAIN r /\ s[j] = r[i - Len(s)]
    BY <1>1, <1>3, <1>7
  <2> QED BY <1>2, <2>1
<1> QED BY <1>4, <1>5, <1>6, <1>7

\* The sequence of one node.
LEMMA SingleSequence ==
  ASSUME NEW D, NEW n \in D
  PROVE  /\ <<n>> \in Seq(D) /\ Len(<<n>>) = 1 /\ <<n>>[1] = n
         /\ Elements(<<n>>) = {n} /\ Distinct(<<n>>)
  BY DEF Elements, Distinct

\* The empty sequence.
LEMMA NoElements ==
  <<>> \in Seq(Nodes) /\ Elements(<<>>) = {} /\ Distinct(<<>>) /\ Len(<<>>) = 0
  BY DEF Elements, Distinct

-----------------------------------------------------------------------------
(* The sequences of the subtrees *)

Around(w, h, n) == w[h.child[n][0]] \o <<n>> \o w[h.child[n][1]]

Walks(h, M, w) ==
  /\ w \in [NodeOrNull -> Seq(Nodes)]
  /\ w[NULL] = <<>>
  /\ \A n \in M : w[n] = Around(w, h, n)

\* On a tree, InOrderBelow gives each node its left subtree, itself and its right one.
LEMMA InOrderWalks ==
  ASSUME NEW h \in Heap, NEW M, NEW sub, Tree(h, M, sub)
  PROVE  Walks(h, M, InOrderBelow(h)) /\ InOrder(h) = InOrderBelow(h)[h.root]
<1>1. PICK b \in [Depths -> [NodeOrNull -> Seq(Nodes)]] :
           /\ InOrderBelow(h) = b[Cardinality(Nodes)]
           /\ \A k \in Depths, n \in NodeOrNull :
                b[k][n] = IF n = NULL \/ k = 0 THEN <<>>
                          ELSE b[k - 1][h.child[n][0]] \o <<n>> \o b[k - 1][h.child[n][1]]
  BY InOrderIs
<1> DEFINE N == Cardinality(Nodes)
<1>2. N \in Nat /\ Depths = 0 .. N /\ M \in SUBSET Nodes /\ N \in Depths
  BY DepthsFacts DEF Tree
<1>3. \A k \in Depths : b[k][NULL] = <<>>
  BY <1>1 DEF NodeOrNull
<1>4. ASSUME NEW n \in M, NEW k \in Depths, k >= Weight(sub, n)
      PROVE  /\ k - 1 \in Depths
             /\ b[k][n] = Around(b[k - 1], h, n)
             /\ \A i \in Side : /\ k - 1 >= Weight(sub, h.child[n][i])
                                /\ h.child[n][i] # NULL => h.child[n][i] \in M
  <2>1. n # NULL /\ n \in NodeOrNull /\ Weight(sub, n) \in 1 .. N
    BY <1>2, NullNotNode, WeightFacts DEF NodeOrNull
  <2>2. k # 0 /\ k - 1 \in Depths /\ k \in Nat
    BY <1>2, <1>4, <2>1
  <2>3. b[k][n] = Around(b[k - 1], h, n)
    BY <1>1, <2>1, <2>2 DEF Around
  <2>4. \A i \in Side : Weight(sub, h.child[n][i]) < Weight(sub, n)
                        /\ Weight(sub, h.child[n][i]) \in 0 .. N
    BY WeightFacts
  <2>5. \A i \in Side : k - 1 >= Weight(sub, h.child[n][i])
    BY <1>2, <1>4, <2>1, <2>2, <2>4
  <2> QED BY <2>2, <2>3, <2>5 DEF Tree, Linked
<1> DEFINE P == { n \in M : \A k \in Depths : k >= Weight(sub, n) => b[k][n] = b[N][n] }
<1>5. \A n \in M : N >= Weight(sub, n)
  BY <1>2, WeightFacts
<1>6. ASSUME NEW n \in M, \A i \in Side : h.child[n][i] # NULL => h.child[n][i] \in P
      PROVE  n \in P
  <2> SUFFICES ASSUME NEW k \in Depths, k >= Weight(sub, n) PROVE b[k][n] = b[N][n]
    OBVIOUS
  <2>1. /\ b[k][n] = Around(b[k - 1], h, n) /\ k - 1 \in Depths
        /\ \A i \in Side : k - 1 >= Weight(sub, h.child[n][i])
    BY <1>4
  <2>2. /\ b[N][n] = Around(b[N - 1], h, n) /\ N - 1 \in Depths
        /\ \A i \in Side : N - 1 >= Weight(sub, h.child[n][i])
    BY <1>2, <1>4, <1>5
  <2>3. ASSUME NEW i \in Side PROVE b[k - 1][h.child[n][i]] = b[N - 1][h.child[n][i]]
    <3>1. CASE h.child[n][i] = NULL
      BY <1>3, <2>1, <2>2, <3>1
    <3>2. CASE h.child[n][i] # NULL
      BY <1>6, <2>1, <2>2, <3>2
    <3> QED BY <3>1, <3>2
  <2> QED BY <2>1, <2>2, <2>3 DEF Around, Side
<1>7. M \subseteq P
  <2> HIDE DEF P
  <2> QED BY <1>6, TreeUp
<1>8. ASSUME NEW n \in M PROVE b[N][n] = Around(b[N], h, n)
  <2>1. /\ b[N][n] = Around(b[N - 1], h, n) /\ N - 1 \in Depths
        /\ \A i \in Side : /\ N - 1 >= Weight(sub, h.child[n][i])
                           /\ h.child[n][i] # NULL => h.child[n][i] \in M
    BY <1>2, <1>4, <1>5
  <2>2. ASSUME NEW i \in Side PROVE b[N - 1][h.child[n][i]] = b[N][h.child[n][i]]
    <3>1. CASE h.child[n][i] = NULL
      BY <1>2, <1>3, <2>1, <3>1
    <3>2. CASE h.child[n][i] # NULL
      BY <1>7, <2>1, <3>2
    <3> QED BY <3>1, <3>2
  <2> QED BY <2>1, <2>2 DEF Around, Side
<1>9. b[N] \in [NodeOrNull -> Seq(Nodes)]
  BY <1>2
<1>10. Walks(h, M, InOrderBelow(h))
  BY <1>1, <1>2, <1>3, <1>8, <1>9 DEF Walks
<1> QED BY <1>10 DEF InOrder

\* The sequence of a subtree has each of its nodes once.
LEMMA WalkFacts ==
  ASSUME NEW h \in Heap, NEW M, NEW sub, Tree(h, M, sub), NEW w, Walks(h, M, w)
  PROVE  /\ \A n \in M : Elements(w[n]) = sub[n] /\ Distinct(w[n])
         /\ w[h.root] \in Seq(Nodes) /\ Elements(w[h.root]) = M /\ Distinct(w[h.root])
<1> DEFINE P == { n \in M : Elements(w[n]) = sub[n] /\ Distinct(w[n]) }
<1>1. /\ w[NULL] = <<>> /\ \A n \in NodeOrNull : w[n] \in Seq(Nodes)
      /\ \A n \in M : w[n] = w[h.child[n][0]] \o <<n>> \o w[h.child[n][1]]
  BY DEF Walks, Around
<1>2. ASSUME NEW n \in M, \A i \in Side : h.child[n][i] # NULL => h.child[n][i] \in P
      PROVE  n \in P
  <2> DEFINE a == w[h.child[n][0]]
             b == w[h.child[n][1]]
  <2>1. \A i \in Side : /\ w[h.child[n][i]] \in Seq(Nodes)
                        /\ Elements(w[h.child[n][i]]) = Sub(sub, h.child[n][i])
                        /\ Distinct(w[h.child[n][i]])
    <3> TAKE i \in Side
    <3>1. n \in Nodes /\ h.child[n][i] \in NodeOrNull
      BY HeapFacts DEF Tree
    <3>2. CASE h.child[n][i] = NULL
      BY <1>1, <3>1, <3>2, NoElements DEF Sub
    <3>3. CASE h.child[n][i] # NULL
      BY <1>1, <1>2, <3>1, <3>3 DEF Sub
    <3> QED BY <3>2, <3>3
  <2>2. /\ a \in Seq(Nodes) /\ Elements(a) = Sub(sub, h.child[n][0]) /\ Distinct(a)
        /\ b \in Seq(Nodes) /\ Elements(b) = Sub(sub, h.child[n][1]) /\ Distinct(b)
    BY <2>1 DEF Side
  <2>3. /\ sub[n] = {n} \cup Sub(sub, h.child[n][0]) \cup Sub(sub, h.child[n][1])
        /\ Sub(sub, h.child[n][0]) \cap Sub(sub, h.child[n][1]) = {}
        /\ n \notin Sub(sub, h.child[n][0]) /\ n \notin Sub(sub, h.child[n][1])
    BY DEF Tree, Subtrees, Side
  <2>4. w[n] = (a \o <<n>>) \o b
    BY <1>1
  <2> HIDE DEF a, b
  <2>5. n \in Nodes /\ <<n>> \in Seq(Nodes) /\ Elements(<<n>>) = {n} /\ Distinct(<<n>>)
    <3>1. n \in Nodes
      BY DEF Tree
    <3> QED BY <3>1, SingleSequence
  <2>6. a \o <<n>> \in Seq(Nodes) /\ Elements(a \o <<n>>) = Elements(a) \cup {n}
    <3>1. a \in Seq(Nodes) /\ <<n>> \in Seq(Nodes)
      BY <2>2, <2>5
    <3>2. a \o <<n>> \in Seq(Nodes)
      BY <3>1, ConcatProperties
    <3>3. Elements(a \o <<n>>) = Elements(a) \cup Elements(<<n>>)
      BY <3>1, ConcatElements
    <3> QED BY <2>5, <3>2, <3>3
  <2>7. Distinct(a \o <<n>>)
    BY <2>2, <2>3, <2>5, ConcatDistinct
  <2>8. Elements((a \o <<n>>) \o b) = Elements(a) \cup {n} \cup Elements(b)
    <3>1. a \o <<n>> \in Seq(Nodes) /\ b \in Seq(Nodes)
      BY <2>2, <2>6
    <3>2. Elements((a \o <<n>>) \o b) = Elements(a \o <<n>>) \cup Elements(b)
      BY <3>1, ConcatElements
    <3> QED BY <2>6, <3>2
  <2>9. Distinct((a \o <<n>>) \o b)
    <3>1. Elements(a \o <<n>>) \cap Elements(b) = {}
      BY <2>2, <2>3, <2>6
    <3> QED BY <2>2, <2>6, <2>7, <3>1, ConcatDistinct
  <2> QED BY <2>2, <2>3, <2>4, <2>8, <2>9
<1>3. M \subseteq P
  <2> HIDE DEF P
  <2> QED BY <1>2, TreeUp
<1>4. CASE h.root = NULL
  BY <1>1, <1>4, NoElements, RootOfTree DEF NodeOrNull
<1>5. CASE h.root # NULL
  <2>1. h.root \in M /\ M = sub[h.root] /\ h.root \in NodeOrNull
    BY <1>5 DEF Tree, Linked, Subtrees, Sub, NodeOrNull
  <2> QED BY <1>1, <1>3, <2>1
<1> QED BY <1>3, <1>4, <1>5

\* s2 is s with the part m replaced by m2.
Replaced(s, s2, m, m2) ==
  \E p, q \in Seq(Nodes) : s = (p \o m) \o q /\ s2 = (p \o m2) \o q

\* Concatenation of sequences of nodes is associative,
LEMMA Associative ==
  \A s, r, u \in Seq(Nodes) : s \o r \in Seq(Nodes) /\ (s \o r) \o u = s \o (r \o u)
  BY ConcatProperties, ConcatAssociative

\* and the other way round.
LEMMA Regrouped ==
  ASSUME NEW s \in Seq(Nodes), NEW r \in Seq(Nodes), NEW u \in Seq(Nodes)
  PROVE  s \o (r \o u) = (s \o r) \o u
  BY Associative

\* Concatenation under a name, for the steps that only regroup,
Cat(s, r) == s \o r

\* which is associative too,
LEMMA CatAssociative ==
  \A s, r, u \in Seq(Nodes) : Cat(s, r) \in Seq(Nodes) /\ Cat(Cat(s, r), u) = Cat(s, Cat(r, u))
  BY Associative DEF Cat

\* such as moving the inner brackets of five sequences outwards.
LEMMA FiveParts ==
  ASSUME NEW a \in Seq(Nodes), NEW p \in Seq(Nodes), NEW k \in Seq(Nodes),
         NEW q \in Seq(Nodes), NEW b \in Seq(Nodes)
  PROVE  /\ Cat(Cat(a, Cat(Cat(p, k), q)), b) = Cat(Cat(Cat(a, p), k), Cat(q, b))
         /\ Cat(Cat(a, Cat(Cat(p, k), q)), b) = Cat(Cat(a, p), Cat(k, Cat(q, b)))
<1>1. /\ Cat(a, p) \in Seq(Nodes) /\ Cat(p, k) \in Seq(Nodes) /\ Cat(k, q) \in Seq(Nodes)
      /\ Cat(q, b) \in Seq(Nodes) /\ Cat(Cat(p, k), q) \in Seq(Nodes)
      /\ Cat(Cat(a, p), k) \in Seq(Nodes)
  BY CatAssociative
<1>2. Cat(Cat(a, Cat(Cat(p, k), q)), b) = Cat(a, Cat(Cat(p, k), Cat(q, b)))
  BY <1>1, CatAssociative
<1>3. Cat(a, Cat(Cat(p, k), Cat(q, b))) = Cat(Cat(a, Cat(p, k)), Cat(q, b))
  BY <1>1, CatAssociative
<1>4. Cat(a, Cat(p, k)) = Cat(Cat(a, p), k)
  BY CatAssociative
<1>5. Cat(Cat(Cat(a, p), k), Cat(q, b)) = Cat(Cat(a, p), Cat(k, Cat(q, b)))
  BY <1>1, CatAssociative
<1> QED BY <1>2, <1>3, <1>4, <1>5

\* A replacement inside a longer sequence.
LEMMA ReplacedAround ==
  ASSUME NEW s, NEW s2, NEW m \in Seq(Nodes), NEW m2 \in Seq(Nodes), Replaced(s, s2, m, m2),
         NEW a \in Seq(Nodes), NEW b \in Seq(Nodes)
  PROVE  Replaced((a \o s) \o b, (a \o s2) \o b, m, m2)
<1>1. PICK p \in Seq(Nodes), q \in Seq(Nodes) : s = (p \o m) \o q /\ s2 = (p \o m2) \o q
  BY DEF Replaced
<1>2. ASSUME NEW k \in Seq(Nodes)
      PROVE  (a \o ((p \o k) \o q)) \o b = ((a \o p) \o k) \o (q \o b)
  <2>1. Cat(Cat(a, Cat(Cat(p, k), q)), b) = Cat(Cat(Cat(a, p), k), Cat(q, b))
    BY FiveParts
  <2> QED BY <2>1 DEF Cat
<1>3. a \o p \in Seq(Nodes) /\ q \o b \in Seq(Nodes)
  BY Associative
<1>4. /\ (a \o s) \o b = ((a \o p) \o m) \o (q \o b)
      /\ (a \o s2) \o b = ((a \o p) \o m2) \o (q \o b)
  BY <1>1, <1>2
<1> QED BY <1>3, <1>4 DEF Replaced

\* A sequence is a part of itself.
LEMMA ReplacedWhole ==
  ASSUME NEW m \in Seq(Nodes), NEW m2 \in Seq(Nodes)
  PROVE  Replaced(m, m2, m, m2)
<1>1. m = (<<>> \o m) \o <<>> /\ m2 = (<<>> \o m2) \o <<>> /\ <<>> \in Seq(Nodes)
  BY ConcatEmptySeq, NoElements
<1> QED BY <1>1 DEF Replaced

\* A node between its sides, the side i named first.
Beside(a, n, b, i) == IF i = 0 THEN (a \o <<n>>) \o b ELSE (b \o <<n>>) \o a

\* A replacement on one side of a node.
LEMMA BesideFacts ==
  ASSUME NEW a \in Seq(Nodes), NEW b \in Seq(Nodes), NEW n \in Nodes, NEW i \in Side
  PROVE  /\ Beside(a, n, b, i) \in Seq(Nodes)
         /\ <<n>> \in Seq(Nodes)
         /\ \A a2 \in Seq(Nodes), m \in Seq(Nodes), m2 \in Seq(Nodes) :
              Replaced(a, a2, m, m2) => Replaced(Beside(a, n, b, i), Beside(a2, n, b, i), m, m2)
<1>1. <<n>> \in Seq(Nodes)
  BY SingleSequence
<1>2. a \o <<n>> \in Seq(Nodes) /\ b \o <<n>> \in Seq(Nodes) /\ <<n>> \o b \in Seq(Nodes)
  BY <1>1, Associative
<1>3. Beside(a, n, b, i) \in Seq(Nodes)
  BY <1>2, Associative DEF Beside
<1>4. ASSUME NEW a2 \in Seq(Nodes), NEW m \in Seq(Nodes), NEW m2 \in Seq(Nodes),
             Replaced(a, a2, m, m2)
      PROVE  Replaced(Beside(a, n, b, i), Beside(a2, n, b, i), m, m2)
  <2>1. CASE i = 0
    <3>1. \A k \in Seq(Nodes) : Beside(k, n, b, i) = (<<>> \o k) \o (<<n>> \o b)
      BY <1>1, <2>1, Associative, ConcatEmptySeq DEF Beside
    <3>2. Replaced((<<>> \o a) \o (<<n>> \o b), (<<>> \o a2) \o (<<n>> \o b), m, m2)
      BY <1>2, <1>4, NoElements, ReplacedAround
    <3> QED BY <3>1, <3>2
  <2>2. CASE i = 1
    <3>1. \A k \in Seq(Nodes) : Beside(k, n, b, i) = ((b \o <<n>>) \o k) \o <<>>
      <4> TAKE k \in Seq(Nodes)
      <4>1. (b \o <<n>>) \o k \in Seq(Nodes)
        BY <1>2, Associative
      <4>2. ((b \o <<n>>) \o k) \o <<>> = (b \o <<n>>) \o k
        BY <4>1, ConcatEmptySeq
      <4> QED BY <2>2, <4>2 DEF Beside
    <3>2. Replaced(((b \o <<n>>) \o a) \o <<>>, ((b \o <<n>>) \o a2) \o <<>>, m, m2)
      BY <1>2, <1>4, NoElements, ReplacedAround
    <3> QED BY <3>1, <3>2
  <2> QED BY <2>1, <2>2 DEF Side
<1> QED BY <1>1, <1>3, <1>4

\* The sequence of a node, seen from either of its sides.
LEMMA WalkAt ==
  ASSUME NEW h \in Heap, NEW M \in SUBSET Nodes, NEW w, Walks(h, M, w), NEW n \in M, NEW i \in Side
  PROVE  /\ w[n] = Beside(w[h.child[n][i]], n, w[h.child[n][Opp(i)]], i)
         /\ w[h.child[n][i]] \in Seq(Nodes) /\ w[h.child[n][Opp(i)]] \in Seq(Nodes)
         /\ w[n] \in Seq(Nodes)
<1>1. n \in Nodes /\ n \in NodeOrNull /\ Opp(i) \in Side
  BY SideFacts DEF NodeOrNull
<1>2. h.child[n][i] \in NodeOrNull /\ h.child[n][Opp(i)] \in NodeOrNull
  BY <1>1, HeapFacts
<1>3. w[n] = Around(w, h, n) /\ w \in [NodeOrNull -> Seq(Nodes)]
  BY DEF Walks
<1>4. /\ w[h.child[n][i]] \in Seq(Nodes) /\ w[h.child[n][Opp(i)]] \in Seq(Nodes)
      /\ w[n] \in Seq(Nodes)
  BY <1>1, <1>2, <1>3
<1>5. CASE i = 0
  <2>1. Opp(i) = 1
    BY <1>5 DEF Opp
  <2> QED BY <1>3, <1>4, <1>5, <2>1 DEF Around, Beside
<1>6. CASE i = 1
  <2>1. Opp(i) = 0
    BY <1>6 DEF Opp
  <2> QED BY <1>3, <1>4, <1>6, <2>1 DEF Around, Beside
<1> QED BY <1>5, <1>6 DEF Side

\* A node in the subtree of another has its subtree there.
LEMMA SubtreesNest ==
  ASSUME NEW h \in Heap, NEW M, NEW sub, Tree(h, M, sub), NEW a \in M, NEW c \in M, a \in sub[c]
  PROVE  sub[a] \subseteq sub[c]
<1> DEFINE P == { m \in M : m \in sub[a] => m \in sub[c] }
<1>1. \A m, n \in M :
        m \in sub[n] <=> m = n \/ (h.parent[m] # NULL /\ h.parent[m] \in sub[n])
  BY DEF Tree, Subtrees
<1>2. h.root # NULL => h.root \in P
  <2> SUFFICES ASSUME h.root # NULL PROVE h.root \in P
    OBVIOUS
  <2>1. h.root \in M /\ h.parent[h.root] = NULL
    BY DEF Tree, Linked
  <2>2. h.root \in sub[a] => h.root = a
    BY <1>1, <2>1
  <2> QED BY <2>1, <2>2
<1>3. ASSUME NEW n \in M, n \in P, NEW i \in Side, h.child[n][i] # NULL
      PROVE  h.child[n][i] \in P
  <2>1. h.child[n][i] \in M /\ h.parent[h.child[n][i]] = n /\ n # NULL
    BY <1>3, TreeLocal
  <2> QED BY <1>1, <1>3, <2>1
<1>4. M \subseteq P
  <2> HIDE DEF P
  <2> QED BY <1>2, <1>3, TreeDown
<1>5. sub[a] \subseteq M
  BY DEF Tree, Subtrees
<1> QED BY <1>4, <1>5

\* Nodes whose links are the same have the same sequences.
LEMMA SameWalk ==
  ASSUME NEW h \in Heap, NEW M, NEW sub, Tree(h, M, sub), NEW w, Walks(h, M, w),
         NEW g, NEW M2, NEW w2, Walks(g, M2, w2), NEW Q, Q \subseteq M, Q \subseteq M2,
         \A x \in Q, i \in Side : /\ g.child[x][i] = h.child[x][i]
                                  /\ h.child[x][i] # NULL => h.child[x][i] \in Q
  PROVE  \A x \in Q : w2[x] = w[x]
<1> DEFINE P == { x \in M : x \in Q => w2[x] = w[x] }
<1>1. w[NULL] = <<>> /\ w2[NULL] = <<>>
  BY DEF Walks
<1>2. ASSUME NEW n \in M, \A i \in Side : h.child[n][i] # NULL => h.child[n][i] \in P
      PROVE  n \in P
  <2> SUFFICES ASSUME n \in Q PROVE w2[n] = w[n]
    OBVIOUS
  <2>1. ASSUME NEW i \in Side PROVE w2[g.child[n][i]] = w[h.child[n][i]]
    BY <1>1, <1>2
  <2>2. w2[n] = Around(w2, g, n) /\ w[n] = Around(w, h, n)
    BY DEF Walks
  <2> QED BY <2>1, <2>2 DEF Around, Side
<1>3. M \subseteq P
  <2> HIDE DEF P
  <2> QED BY <1>2, TreeUp
<1> QED BY <1>3

\* When the node a of a tree is replaced by a2 where its parent or the root
\* pointer points at it, the sequence of a is replaced by that of a2.
LEMMA ReplacedInWalk ==
  ASSUME NEW h \in Heap, NEW M, NEW sub, Tree(h, M, sub), NEW w, Walks(h, M, w),
         NEW g \in Heap, NEW M2 \in SUBSET Nodes, NEW w2, Walks(g, M2, w2),
         NEW a \in M, NEW a2 \in NodeOrNull,
         \A x \in M : a \notin sub[x] /\ x \notin sub[a] => w2[x] = w[x],
         \A x \in M : a \in sub[x] /\ x # a =>
           /\ x \in M2
           /\ \A i \in Side : g.child[x][i] = IF h.child[x][i] = a THEN a2 ELSE h.child[x][i],
         g.root = IF h.root = a THEN a2 ELSE h.root
  PROVE  Replaced(w[h.root], w2[g.root], w[a], w2[a2])
<1> DEFINE Now(x) == IF x = a THEN a2 ELSE x
           P == { x \in M : a \in sub[x] => Replaced(w[x], w2[Now(x)], w[a], w2[a2]) }
<1>1. /\ w[NULL] = <<>> /\ w2[NULL] = <<>> /\ M \in SUBSET Nodes
      /\ \A x \in NodeOrNull : w[x] \in Seq(Nodes) /\ w2[x] \in Seq(Nodes)
      /\ a \in NodeOrNull
  BY DEF Walks, Tree, NodeOrNull
<1>2. ASSUME NEW n \in M, \A i \in Side : h.child[n][i] # NULL => h.child[n][i] \in P
      PROVE  n \in P
  <2> SUFFICES ASSUME a \in sub[n] PROVE Replaced(w[n], w2[Now(n)], w[a], w2[a2])
    OBVIOUS
  <2>1. CASE n = a
    BY <1>1, <2>1, ReplacedWhole
  <2>2. CASE n # a
    <3>1. PICK i \in Side : a \in Sub(sub, h.child[n][i])
      <4>1. sub[n] = {n} \cup Sub(sub, h.child[n][0]) \cup Sub(sub, h.child[n][1])
        BY DEF Tree, Subtrees
      <4> QED BY <2>2, <4>1 DEF Side
    <3> DEFINE c == h.child[n][i]
               d == h.child[n][Opp(i)]
    <3>2. Opp(i) \in Side
      BY SideFacts
    <3>3. c # NULL /\ c \in M /\ a \in sub[c] /\ c \in NodeOrNull
      BY <1>1, <3>1 DEF Sub, Tree, Linked, NodeOrNull
    <3>4. Sub(sub, c) \cap Sub(sub, d) = {}
      BY SubtreesAt
    <3>5. w2[d] = w[d] /\ d # a
      <4>1. CASE d = NULL
        BY <1>1, <4>1, NullNotNode
      <4>2. CASE d # NULL
        <5>1. d \in M /\ d \in sub[d]
          BY <3>2, <4>2, TreeLocal
        <5>2. a \notin sub[d] /\ d \notin sub[c]
          BY <3>3, <3>4, <4>2, <5>1 DEF Sub
        <5>3. d \notin sub[a]
          BY <3>3, <5>2, SubtreesNest
        <5> QED BY <5>1, <5>2, <5>3
      <4> QED BY <4>1, <4>2
    <3>6. n \in M2 /\ g.child[n][i] = Now(c) /\ g.child[n][Opp(i)] = d
      BY <2>2, <3>2, <3>5
    <3>7. w[n] = Beside(w[c], n, w[d], i) /\ w[c] \in Seq(Nodes) /\ w[d] \in Seq(Nodes)
      BY <1>1, WalkAt
    <3>8. w2[n] = Beside(w2[Now(c)], n, w2[d], i) /\ w2[Now(c)] \in Seq(Nodes)
      <4>1. w2[n] = Beside(w2[g.child[n][i]], n, w2[g.child[n][Opp(i)]], i)
            /\ w2[g.child[n][i]] \in Seq(Nodes)
        BY <3>6, WalkAt
      <4> QED BY <3>6, <4>1
    <3>9. Replaced(w[c], w2[Now(c)], w[a], w2[a2])
      BY <1>2, <3>3
    <3>10. n \in Nodes /\ w[a] \in Seq(Nodes) /\ w2[a2] \in Seq(Nodes)
      BY <1>1
    <3> HIDE DEF c, d, Now
    <3>11. Replaced(Beside(w[c], n, w[d], i), Beside(w2[Now(c)], n, w[d], i), w[a], w2[a2])
      BY <3>7, <3>8, <3>9, <3>10, BesideFacts
    <3> QED BY <2>2, <3>5, <3>7, <3>8, <3>11 DEF Now
  <2> QED BY <2>1, <2>2
<1>3. M \subseteq P
  <2> HIDE DEF P
  <2> QED BY <1>2, TreeUp
<1>4. h.root \in M /\ a \in sub[h.root]
  BY RootOfTree DEF Tree, Subtrees, Sub
<1> QED BY <1>3, <1>4

\* Rotating a node below another moves no node in the sequence.
LEMMA BesideRotates ==
  ASSUME NEW x \in Seq(Nodes), NEW y \in Seq(Nodes), NEW z \in Seq(Nodes),
         NEW n \in Nodes, NEW r \in Nodes, NEW i \in Side
  PROVE  Beside(Beside(y, n, x, i), r, z, i) = Beside(y, n, Beside(x, r, z, i), i)
<1> DEFINE N == <<n>>
           R == <<r>>
<1>1. N \in Seq(Nodes) /\ R \in Seq(Nodes)
  BY SingleSequence
<1>2. \A s \in Seq(Nodes), u \in Seq(Nodes) : s \o u \in Seq(Nodes)
  BY Associative
<1>3. CASE i = 0
  <2>1. Beside(Beside(y, n, x, i), r, z, i) = (((y \o N) \o x) \o R) \o z
    BY <1>3 DEF Beside
  <2>2. Beside(y, n, Beside(x, r, z, i), i) = (y \o N) \o ((x \o R) \o z)
    BY <1>3 DEF Beside
  <2> HIDE DEF N, R
  <2> DEFINE a == y \o N
  <2>3. a \in Seq(Nodes) /\ x \o R \in Seq(Nodes)
    BY <1>1, <1>2
  <2> HIDE DEF a
  <2>4. a \o ((x \o R) \o z) = (a \o (x \o R)) \o z
    BY <2>3, Regrouped
  <2>5. a \o (x \o R) = (a \o x) \o R
    BY <1>1, <2>3, Regrouped
  <2> QED BY <2>1, <2>2, <2>4, <2>5 DEF a
<1>4. CASE i = 1
  <2>1. Beside(Beside(y, n, x, i), r, z, i) = (z \o R) \o ((x \o N) \o y)
    BY <1>4 DEF Beside
  <2>2. Beside(y, n, Beside(x, r, z, i), i) = (((z \o R) \o x) \o N) \o y
    BY <1>4 DEF Beside
  <2> HIDE DEF N, R
  <2> DEFINE a == z \o R
  <2>3. a \in Seq(Nodes) /\ x \o N \in Seq(Nodes)
    BY <1>1, <1>2
  <2> HIDE DEF a
  <2>4. a \o ((x \o N) \o y) = (a \o (x \o N)) \o y
    BY <2>3, Regrouped
  <2>5. a \o (x \o N) = (a \o x) \o N
    BY <1>1, <2>3, Regrouped
  <2> QED BY <2>1, <2>2, <2>4, <2>5 DEF a
<1> QED BY <1>3, <1>4 DEF Side

\* A rotation leaves the order of the nodes alone.
LEMMA RotateOrder ==
  ASSUME NEW h \in Heap, NEW M, NEW sub, Tree(h, M, sub),
         NEW n \in M, NEW i \in Side, NEW r, h.child[n][Opp(i)] = r, r # NULL,
         NEW g, Rotated(g, h, n, i, r), NEW sub2, Tree(g, M, sub2)
  PROVE  InOrder(g) = InOrder(h)
<1> DEFINE w == InOrderBelow(h)
           w2 == InOrderBelow(g)
<1>1. g \in Heap /\ M \in SUBSET Nodes /\ Opp(i) \in Side /\ Opp(Opp(i)) = i /\ Opp(i) # i
  BY SideFacts DEF Rotated, Tree
<1>2. /\ Walks(h, M, w) /\ InOrder(h) = w[h.root]
      /\ Walks(g, M, w2) /\ InOrder(g) = w2[g.root]
  BY <1>1, InOrderWalks
<1> HIDE DEF w, w2
<1> DEFINE y == h.child[n][i]
           x == h.child[r][i]
           z == h.child[r][Opp(i)]
           Q == { m \in M : n \notin sub[m] /\ m # r }
<1>3. /\ n \in Nodes /\ n \in sub[n] /\ r \in M /\ h.parent[r] = n /\ r # n /\ r \in Nodes
      /\ y # r /\ x # n /\ x # r /\ z # r /\ z # n
  BY <1>1, TreeLocal, SideFacts
<1>4. \A m \in M, j \in Side : h.child[m][j] # NULL =>
        h.child[m][j] \in M /\ h.parent[h.child[m][j]] = m /\ sub[h.child[m][j]] \subseteq sub[m]
  BY SubtreesAt DEF Tree, Linked, Sub
<1>5. \A m \in Nodes, j \in Side :
       g.child[m][j] = IF m = r /\ j = i THEN n
                       ELSE IF m = n /\ j = Opp(i) THEN h.child[r][i]
                       ELSE IF m = h.parent[n] /\ h.child[m][j] = n THEN r
                       ELSE h.child[m][j]
  BY DEF Rotated
<1>6. \A m \in Q : w2[m] = w[m]
  <2>1. ASSUME NEW m \in Q, NEW j \in Side
        PROVE  /\ g.child[m][j] = h.child[m][j]
               /\ h.child[m][j] # NULL => h.child[m][j] \in Q
    <3>1. m # n /\ m # r /\ m \in M /\ h.child[m][j] # n
      BY <1>3, <1>4, NullNotNode
    <3> QED BY <1>1, <1>3, <1>4, <1>5, <3>1
  <2>2. Q \subseteq M
    OBVIOUS
  <2> HIDE DEF Q
  <2> QED BY <1>2, <2>1, <2>2, SameWalk
<1>7. w2[x] = w[x] /\ w2[y] = w[y] /\ w2[z] = w[z]
  <2>1. ASSUME NEW m, m \in {x, y, z}, m # NULL PROVE m \in Q
    <3>1. m \in M /\ m # r
      BY <1>1, <1>3, <1>4, <2>1
    <3>2. n \notin Sub(sub, y) /\ n \notin Sub(sub, r)
      BY <1>3, SubtreesAt
    <3>3. sub[m] \subseteq Sub(sub, y) \cup Sub(sub, r)
      BY <1>1, <1>3, <1>4, <2>1, NullNotNode DEF Sub
    <3> QED BY <3>1, <3>2, <3>3
  <2>2. w[NULL] = <<>> /\ w2[NULL] = <<>>
    BY <1>2 DEF Walks
  <2> HIDE DEF Q, x, y, z
  <2> QED BY <1>6, <2>1, <2>2
<1>8. w2[r] = w[n]
  <2>1. /\ g.child[n][i] = y /\ g.child[n][Opp(i)] = x
        /\ g.child[r][i] = n /\ g.child[r][Opp(i)] = z
    <3>1. h.parent[n] # n /\ h.parent[n] # r
      BY <1>1, <1>3, TreeLocal
    <3> QED BY <1>1, <1>3, <1>5, <3>1
  <2>2. /\ w[n] = Beside(w[y], n, w[r], i) /\ w[y] \in Seq(Nodes)
        /\ w[r] = Beside(w[x], r, w[z], i) /\ w[x] \in Seq(Nodes) /\ w[z] \in Seq(Nodes)
    <3>1. \A m \in M : /\ w[m] = Beside(w[h.child[m][i]], m, w[h.child[m][Opp(i)]], i)
                        /\ w[h.child[m][i]] \in Seq(Nodes) /\ w[h.child[m][Opp(i)]] \in Seq(Nodes)
      BY <1>1, <1>2, WalkAt
    <3> QED BY <1>3, <3>1
  <2>3. /\ w2[n] = Beside(w2[y], n, w2[x], i)
        /\ w2[r] = Beside(w2[n], r, w2[z], i)
    <3>1. \A m \in M : w2[m] = Beside(w2[g.child[m][i]], m, w2[g.child[m][Opp(i)]], i)
      BY <1>1, <1>2, WalkAt
    <3> QED BY <1>3, <2>1, <3>1
  <2> QED BY <1>3, <1>7, <2>2, <2>3, BesideRotates
<1>9. Replaced(w[h.root], w2[g.root], w[n], w2[r])
  <2>1. \A m \in M : n \notin sub[m] /\ m \notin sub[n] => w2[m] = w[m]
    <3>1. r \in sub[n]
      <4>1. r \in sub[r] /\ sub[r] \subseteq sub[n]
        BY <1>1, <1>3, <1>4, TreeLocal, NullNotNode
      <4> QED BY <4>1
    <3> QED BY <1>6, <3>1
  <2>2. ASSUME NEW m \in M, n \in sub[m], m # n
        PROVE  m \in M /\ \A j \in Side :
                 g.child[m][j] = IF h.child[m][j] = n THEN r ELSE h.child[m][j]
    <3>1. m # r
      <4>1. n \notin Sub(sub, r)
        BY <1>3, SubtreesAt
      <4> QED BY <1>1, <1>3, <2>2, <4>1, NullNotNode DEF Sub
    <3>2. \A j \in Side : h.child[m][j] = n => m = h.parent[n]
      BY <1>3, <1>4, NullNotNode
    <3> QED BY <1>1, <1>5, <2>2, <3>1, <3>2
  <2>3. g.root = IF h.root = n THEN r ELSE h.root
    BY DEF Rotated, Tree, Linked
  <2>4. r \in NodeOrNull
    BY <1>3 DEF NodeOrNull
  <2>5. Walks(h, M, w) /\ Walks(g, M, w2) /\ g \in Heap /\ M \in SUBSET Nodes
    BY <1>1, <1>2
  <2> QED BY <2>1, <2>2, <2>3, <2>4, <2>5, ReplacedInWalk
<1> QED BY <1>2, <1>8, <1>9 DEF Replaced

\* Nor does a change of colours.
LEMMA SameOrder ==
  ASSUME NEW h \in Heap, NEW M, NEW sub, Tree(h, M, sub), NEW g \in Heap,
         g.root = h.root, g.parent = h.parent, g.child = h.child
  PROVE  InOrder(g) = InOrder(h)
<1> DEFINE w == InOrderBelow(h)
           w2 == InOrderBelow(g)
<1>1. Tree(g, M, sub)
  BY LinksTree
<1>2. /\ Walks(h, M, w) /\ InOrder(h) = w[h.root]
      /\ Walks(g, M, w2) /\ InOrder(g) = w2[g.root]
  BY <1>1, InOrderWalks
<1> HIDE DEF w, w2
<1>3. \A m \in M : w2[m] = w[m]
  <2>1. \A m \in M, j \in Side : h.child[m][j] # NULL => h.child[m][j] \in M
    BY DEF Tree, Linked
  <2> QED BY <1>2, <2>1, SameWalk
<1>4. w[NULL] = <<>> /\ w2[NULL] = <<>> /\ h.root \in M \cup {NULL}
  BY <1>2 DEF Walks, Tree, Linked
<1> QED BY <1>2, <1>3, <1>4

-----------------------------------------------------------------------------
(* The edits of a sequence *)

\* The length of a concatenation.
LEMMA Lengths ==
  \A s, r \in Seq(Nodes) : /\ s \o r \in Seq(Nodes) /\ Len(s \o r) = Len(s) + Len(r)
                           /\ Len(s) \in Nat /\ Len(r) \in Nat
  BY ConcatProperties, LenProperties

\* Where two sequences meet.
LEMMA SubSeqSplit ==
  ASSUME NEW p \in Seq(Nodes), NEW q \in Seq(Nodes)
  PROVE  /\ SubSeq(p \o q, 1, Len(p)) = p
         /\ SubSeq(p \o q, Len(p) + 1, Len(p \o q)) = q
<1> DEFINE l == p \o q
<1>1. /\ Len(p) \in Nat /\ Len(q) \in Nat /\ l \in Seq(Nodes) /\ Len(l) = Len(p) + Len(q)
      /\ \A i \in 1 .. Len(p) + Len(q) : l[i] = IF i <= Len(p) THEN p[i] ELSE q[i - Len(p)]
      /\ \A i \in 1 .. Len(p) : p[i] \in Nodes
      /\ \A i \in 1 .. Len(q) : q[i] \in Nodes
  BY ConcatProperties, LenProperties, ElementOfSeq
<1> HIDE DEF l
<1>2. SubSeq(l, 1, Len(p)) = p
  <2>1. \A i \in 1 .. Len(p) : l[i] \in Nodes
    BY <1>1
  <2>2. /\ SubSeq(l, 1, Len(p)) \in Seq(Nodes) /\ Len(SubSeq(l, 1, Len(p))) = Len(p)
        /\ \A i \in 1 .. Len(p) : SubSeq(l, 1, Len(p))[i] = l[i]
    BY <1>1, <2>1, SubSeqProperties
  <2>3. \A i \in 1 .. Len(p) : SubSeq(l, 1, Len(p))[i] = p[i]
    BY <1>1, <2>2
  <2> QED BY <2>2, <2>3, SeqEqual
<1>3. SubSeq(l, Len(p) + 1, Len(l)) = q
  <2> DEFINE r == SubSeq(l, Len(p) + 1, Len(l))
  <2>1. \A i \in Len(p) + 1 .. Len(l) : l[i] \in Nodes
    BY <1>1
  <2>2. /\ r \in Seq(Nodes) /\ Len(r) = Len(q)
        /\ \A i \in 1 .. Len(q) : r[i] = l[Len(p) + i]
    <3>1. Len(p) + 1 \in Int /\ Len(l) \in Int /\ Len(l) - (Len(p) + 1) + 1 = Len(q)
      BY <1>1
    <3>2. /\ r \in Seq(Nodes)
          /\ Len(r) = IF Len(p) + 1 <= Len(l) THEN Len(l) - (Len(p) + 1) + 1 ELSE 0
          /\ \A i \in 1 .. Len(l) - (Len(p) + 1) + 1 : r[i] = l[Len(p) + 1 + i - 1]
      BY <2>1, <3>1, SubSeqProperties
    <3> QED BY <1>1, <3>1, <3>2
  <2>3. \A i \in 1 .. Len(q) : r[i] = q[i]
    <3> HIDE DEF r
    <3> SUFFICES ASSUME NEW i \in 1 .. Len(q) PROVE r[i] = q[i]
      OBVIOUS
    <3>1. /\ i \in Nat /\ Len(p) + i \in 1 .. Len(p) + Len(q)
          /\ ~ (Len(p) + i <= Len(p)) /\ (Len(p) + i) - Len(p) = i
      BY <1>1
    <3>2. l[Len(p) + i] = q[(Len(p) + i) - Len(p)]
      BY <1>1, <3>1
    <3> QED BY <2>2, <3>1, <3>2
  <2> QED BY <2>2, <2>3, SeqEqual
<1> QED BY <1>2, <1>3 DEF l

\* Insertion there,
LEMMA InsertAtSplit ==
  ASSUME NEW p \in Seq(Nodes), NEW q \in Seq(Nodes), NEW n \in Nodes
  PROVE  List!InsertAt(p \o q, Len(p) + 1, n) = (p \o <<n>>) \o q
<1>1. (Len(p) + 1) - 1 = Len(p)
  BY LenProperties
<1> QED BY <1>1, SubSeqSplit DEF List!InsertAt

\* removal of a node that stands between two sequences,
LEMMA RemoveAtSplit ==
  ASSUME NEW p \in Seq(Nodes), NEW q \in Seq(Nodes), NEW n \in Nodes
  PROVE  List!RemoveAt((p \o <<n>>) \o q, Len(p) + 1) = p \o q
<1> DEFINE N == <<n>>
           l == (p \o N) \o q
<1>1. N \in Seq(Nodes) /\ Len(N) = 1
  BY SingleSequence
<1> HIDE DEF N
<1>2. /\ (Len(p) + 1) - 1 = Len(p) /\ Len(p \o N) + 1 = Len(p) + 1 + 1
      /\ p \o N \in Seq(Nodes) /\ N \o q \in Seq(Nodes)
  <2>1. /\ p \o N \in Seq(Nodes) /\ N \o q \in Seq(Nodes)
        /\ Len(p) \in Nat /\ Len(p \o N) = Len(p) + Len(N)
    BY <1>1, Lengths
  <2> QED BY <1>1, <2>1
<1>3. l = p \o (N \o q)
  BY <1>1, Regrouped
<1>4. SubSeq(l, 1, Len(p)) = p
  BY <1>2, <1>3, SubSeqSplit
<1>5. SubSeq(l, Len(p) + 1 + 1, Len(l)) = q
  <2>1. SubSeq(l, Len(p \o N) + 1, Len(l)) = q
    BY <1>2, SubSeqSplit
  <2> QED BY <1>2, <2>1
<1>6. List!RemoveAt(l, Len(p) + 1)
        = SubSeq(l, 1, (Len(p) + 1) - 1) \o SubSeq(l, Len(p) + 1 + 1, Len(l))
  BY DEF List!RemoveAt
<1> QED BY <1>2, <1>4, <1>5, <1>6 DEF N

\* What is where a sequence was split.
LEMMA AtSplit ==
  ASSUME NEW p \in Seq(Nodes), NEW q \in Seq(Nodes), NEW n \in Nodes
  PROVE  /\ Len(p) + 1 \in DOMAIN ((p \o <<n>>) \o q)
         /\ ((p \o <<n>>) \o q)[Len(p) + 1] = n
<1> DEFINE N == <<n>>
           pn == p \o N
<1>1. N \in Seq(Nodes) /\ Len(N) = 1 /\ N[1] = n
  BY SingleSequence
<1> HIDE DEF N
<1>2. Len(p) \in Nat /\ Len(q) \in Nat
  BY LenProperties
<1>3. pn \in Seq(Nodes) /\ Len(pn) = Len(p) + 1
  <2>1. pn \in Seq(Nodes) /\ Len(pn) = Len(p) + Len(N)
    BY <1>1, Lengths
  <2> QED BY <1>1, <2>1
<1>4. pn[Len(p) + 1] = n
  <2>1. Len(p) + 1 \in 1 .. Len(p) + Len(N)
    BY <1>1, <1>2
  <2>2. pn[Len(p) + 1] = IF Len(p) + 1 <= Len(p) THEN p[Len(p) + 1] ELSE N[Len(p) + 1 - Len(p)]
    BY <1>1, <2>1, ConcatProperties
  <2> QED BY <1>1, <1>2, <2>2
<1> HIDE DEF pn
<1>5. /\ pn \o q \in Seq(Nodes) /\ Len(pn \o q) = Len(p) + 1 + Len(q)
      /\ \A j \in 1 .. Len(pn) + Len(q) :
           (pn \o q)[j] = IF j <= Len(pn) THEN pn[j] ELSE q[j - Len(pn)]
  BY <1>3, ConcatProperties
<1>6. DOMAIN (pn \o q) = 1 .. Len(p) + 1 + Len(q)
  BY <1>5, LenProperties
<1>7. Len(p) + 1 \in 1 .. Len(p) + 1 + Len(q)
  BY <1>2
<1>8. (pn \o q)[Len(p) + 1] = n
  BY <1>2, <1>3, <1>4, <1>5, <1>7
<1> QED BY <1>6, <1>7, <1>8 DEF pn, N

-----------------------------------------------------------------------------
(* The order of the nodes after a node is added, taken out or exchanged *)

\* The nodes whose subtrees do not hold n keep their sequences when no link of
\* theirs changes.
LEMMA WalkElsewhere ==
  ASSUME NEW h \in Heap, NEW M, NEW sub, Tree(h, M, sub), NEW w, Walks(h, M, w),
         NEW g, NEW M2, NEW w2, Walks(g, M2, w2), NEW n \in M,
         \A x \in M : n \notin sub[x] =>
           x \in M2 /\ \A i \in Side : g.child[x][i] = h.child[x][i]
  PROVE  /\ \A x \in M : n \notin sub[x] => w2[x] = w[x]
         /\ \A i \in Side : w2[h.child[n][i]] = w[h.child[n][i]]
<1> DEFINE Q == { x \in M : n \notin sub[x] }
<1>1. ASSUME NEW x \in Q, NEW i \in Side
      PROVE  /\ g.child[x][i] = h.child[x][i]
             /\ h.child[x][i] # NULL => h.child[x][i] \in Q
  <2>1. h.child[x][i] # NULL => h.child[x][i] \in M /\ sub[h.child[x][i]] \subseteq sub[x]
    BY SubtreesAt DEF Tree, Linked, Sub
  <2> QED BY <2>1
<1>2. Q \subseteq M /\ Q \subseteq M2
  OBVIOUS
<1>3. \A x \in Q : w2[x] = w[x]
  <2> HIDE DEF Q
  <2> QED BY <1>1, <1>2, SameWalk
<1>4. ASSUME NEW i \in Side PROVE w2[h.child[n][i]] = w[h.child[n][i]]
  <2>1. CASE h.child[n][i] = NULL
    BY <2>1 DEF Walks
  <2>2. CASE h.child[n][i] # NULL
    <3>1. n \notin Sub(sub, h.child[n][i]) /\ h.child[n][i] \in M
      BY <2>2, SubtreesAt DEF Tree, Linked
    <3> QED BY <1>3, <2>2, <3>1 DEF Sub
  <2> QED BY <2>1, <2>2
<1> QED BY <1>3, <1>4

\* A new leaf is next to the node it hangs under, on the side where it hangs.
LEMMA GraftOrder ==
  ASSUME NEW h \in Heap, NEW M, NEW sub, Tree(h, M, sub), NEW leaf \in M, NEW i \in Side,
         h.child[leaf][i] = NULL, NEW ins \in Nodes \ M, NEW g, Grafted(g, h, leaf, i, ins)
  PROVE  \E j \in DOMAIN InOrder(h) :
           /\ InOrder(h)[j] = leaf
           /\ InOrder(g) = List!InsertAt(InOrder(h), j + i, ins)
<1> DEFINE w == InOrderBelow(h)
           w2 == InOrderBelow(g)
           M2 == M \cup {ins}
           b == h.child[leaf][Opp(i)]
<1>1. /\ g \in Heap /\ M \in SUBSET Nodes /\ M2 \in SUBSET Nodes /\ Tree(g, M2, GraftSub(sub, leaf, ins))
      /\ Opp(i) \in Side /\ Opp(i) # i
  <2>1. Tree(g, M \cup {ins}, GraftSub(sub, leaf, ins))
    BY GraftTree
  <2>2. g \in Heap
    BY DEF Grafted
  <2>3. M \in SUBSET Nodes
    BY DEF Tree
  <2> QED BY <2>1, <2>2, <2>3, SideFacts
<1>2. /\ Walks(h, M, w) /\ InOrder(h) = w[h.root]
      /\ Walks(g, M2, w2) /\ InOrder(g) = w2[g.root]
  BY <1>1, InOrderWalks
<1> HIDE DEF w, w2
<1>3. /\ leaf \in sub[leaf] /\ leaf \in Nodes /\ leaf # NULL
      /\ \A m \in M : leaf \in sub[m] \/ m # leaf
  BY TreeLocal
<1>4. \A m \in Nodes, j \in Side :
        g.child[m][j] = IF m = ins THEN NULL
                        ELSE IF m = leaf /\ j = i THEN ins ELSE h.child[m][j]
  BY DEF Grafted
<1>5. /\ \A x \in M : leaf \notin sub[x] => w2[x] = w[x]
      /\ \A j \in Side : w2[h.child[leaf][j]] = w[h.child[leaf][j]]
  <2>1. ASSUME NEW x \in M, leaf \notin sub[x]
        PROVE  x \in M2 /\ \A j \in Side : g.child[x][j] = h.child[x][j]
    BY <1>1, <1>3, <1>4, <2>1
  <2> HIDE DEF M2
  <2> QED BY <1>2, <2>1, WalkElsewhere
<1>6. w2[b] = w[b] /\ w[NULL] = <<>> /\ w2[NULL] = <<>> /\ w[b] \in Seq(Nodes)
  <2>1. w2[b] = w[b] /\ w[NULL] = <<>> /\ w2[NULL] = <<>>
    BY <1>1, <1>2, <1>5 DEF Walks
  <2>2. w[b] \in Seq(Nodes)
    BY <1>1, <1>2, WalkAt
  <2> QED BY <2>1, <2>2
<1>7. w2[ins] = <<ins>> /\ <<ins>> \in Seq(Nodes) /\ <<leaf>> \in Seq(Nodes)
  <2>1. <<ins>> \in Seq(Nodes) /\ <<leaf>> \in Seq(Nodes)
    BY <1>3, SingleSequence
  <2>2. w2[ins] = w2[g.child[ins][0]] \o <<ins>> \o w2[g.child[ins][1]]
    BY <1>2 DEF Walks, Around
  <2>3. g.child[ins][0] = NULL /\ g.child[ins][1] = NULL
    BY <1>4 DEF Side
  <2> QED BY <1>6, <2>1, <2>2, <2>3, ConcatEmptySeq
<1>8. w[leaf] = Beside(<<>>, leaf, w[b], i) /\ w[leaf] \in Seq(Nodes)
  <2>1. \A m \in M : /\ w[m] = Beside(w[h.child[m][i]], m, w[h.child[m][Opp(i)]], i)
                     /\ w[m] \in Seq(Nodes)
    <3>1. Walks(h, M, w) /\ M \in SUBSET Nodes
      BY <1>1, <1>2
    <3> QED BY <3>1, WalkAt
  <2> QED BY <1>6, <2>1
<1>9. w2[leaf] = Beside(<<ins>>, leaf, w[b], i)
  <2>1. g.child[leaf][i] = ins /\ g.child[leaf][Opp(i)] = b /\ leaf \in M2
    BY <1>1, <1>3, <1>4
  <2>2. w2[leaf] = Beside(w2[g.child[leaf][i]], leaf, w2[g.child[leaf][Opp(i)]], i)
    <3>1. \A m \in M2 : w2[m] = Beside(w2[g.child[m][i]], m, w2[g.child[m][Opp(i)]], i)
      <4> HIDE DEF M2
      <4> QED BY <1>1, <1>2, WalkAt
    <3> QED BY <2>1, <3>1
  <2> QED BY <1>6, <1>7, <2>1, <2>2
<1>10. Replaced(w[h.root], w2[g.root], w[leaf], w2[leaf])
  <2>1. \A m \in M : leaf \notin sub[m] /\ m \notin sub[leaf] => w2[m] = w[m]
    BY <1>5
  <2>2. ASSUME NEW m \in M, leaf \in sub[m], m # leaf
        PROVE  m \in M2 /\ \A j \in Side :
                 g.child[m][j] = IF h.child[m][j] = leaf THEN leaf ELSE h.child[m][j]
    BY <1>1, <1>4, <2>2
  <2>3. g.root = IF h.root = leaf THEN leaf ELSE h.root
    BY DEF Grafted
  <2>4. leaf \in NodeOrNull /\ g \in Heap /\ M2 \in SUBSET Nodes
    BY <1>1, <1>3 DEF NodeOrNull
  <2>5. Walks(h, M, w) /\ Walks(g, M2, w2)
    BY <1>2
  <2> HIDE DEF M2
  <2> QED BY <2>1, <2>2, <2>3, <2>4, <2>5, ReplacedInWalk
<1> HIDE DEF b
<1>11. PICK p \in Seq(Nodes), q \in Seq(Nodes) :
         InOrder(h) = (p \o w[leaf]) \o q /\ InOrder(g) = (p \o w2[leaf]) \o q
  BY <1>2, <1>10 DEF Replaced
<1> DEFINE B == w[b]
           I == <<ins>>
           L == <<leaf>>
<1>12. /\ B \in Seq(Nodes) /\ I \in Seq(Nodes) /\ L \in Seq(Nodes) /\ Len(L) = 1
       /\ \A s \in Seq(Nodes), u \in Seq(Nodes) : s \o u \in Seq(Nodes)
  BY <1>6, <1>7, Associative
<1>13. CASE i = 0
  <2>1. w[leaf] = L \o B /\ w2[leaf] = (I \o L) \o B
    BY <1>7, <1>8, <1>9, <1>13, ConcatEmptySeq DEF Beside
  <2> HIDE DEF B, I, L
  <2> DEFINE z == (L \o B) \o q
  <2>2. z \in Seq(Nodes) /\ L \o B \in Seq(Nodes) /\ I \o (L \o B) \in Seq(Nodes)
        /\ B \o q \in Seq(Nodes) /\ p \o I \in Seq(Nodes)
    BY <1>12
  <2>3. InOrder(h) = p \o z
    <3>1. p \o ((L \o B) \o q) = (p \o (L \o B)) \o q
      BY <2>2, Regrouped
    <3>2. InOrder(h) = (p \o (L \o B)) \o q
      BY <1>11, <2>1
    <3> QED BY <3>1, <3>2
  <2>4. InOrder(g) = (p \o I) \o z
    <3>1. (I \o L) \o B = I \o (L \o B)
      BY <1>12, Regrouped
    <3>2. p \o (I \o (L \o B)) = (p \o I) \o (L \o B)
      BY <1>12, <2>2, Regrouped
    <3>3. ((p \o I) \o (L \o B)) \o q = (p \o I) \o z
      BY <2>2, Regrouped
    <3> QED BY <1>11, <2>1, <3>1, <3>2, <3>3
  <2>5. InOrder(g) = List!InsertAt(InOrder(h), Len(p) + 1, ins)
    <3> HIDE DEF z
    <3> QED BY <2>2, <2>3, <2>4, InsertAtSplit DEF I
  <2>6. InOrder(h) = (p \o L) \o (B \o q)
    <3>1. (L \o B) \o q = L \o (B \o q)
      BY <1>12, Regrouped
    <3>2. p \o (L \o (B \o q)) = (p \o L) \o (B \o q)
      BY <1>12, <2>2, Regrouped
    <3> QED BY <2>3, <3>1, <3>2
  <2>7. Len(p) + 1 \in DOMAIN InOrder(h) /\ InOrder(h)[Len(p) + 1] = leaf
    BY <1>3, <2>2, <2>6, AtSplit DEF L
  <2>8. Len(p) + 1 + 0 = Len(p) + 1
    BY LenProperties
  <2> QED BY <1>13, <2>5, <2>7, <2>8
<1>14. CASE i = 1
  <2> DEFINE s == p \o B
             r == s \o L
  <2>1. w[leaf] = B \o L /\ w2[leaf] = (B \o L) \o I
    <3>1. B \o L \in Seq(Nodes)
      BY <1>12
    <3>2. (B \o L) \o <<>> = B \o L
      BY <3>1, ConcatEmptySeq
    <3>3. 1 # 0
      OBVIOUS
    <3> QED BY <1>8, <1>9, <1>14, <3>2, <3>3 DEF Beside
  <2> HIDE DEF B, I, L
  <2>2. s \in Seq(Nodes) /\ r \in Seq(Nodes) /\ B \o L \in Seq(Nodes)
    BY <1>12
  <2>3. p \o (B \o L) = r
    BY <1>12, Regrouped
  <2>4. InOrder(h) = r \o q
    BY <1>11, <2>1, <2>3
  <2>5. InOrder(g) = (r \o I) \o q
    <3>1. p \o ((B \o L) \o I) = r \o I
      BY <1>12, <2>2, <2>3, Regrouped
    <3> QED BY <1>11, <2>1, <3>1
  <2>6. Len(r) = Len(s) + 1 /\ Len(s) \in Nat
    <3>1. s \in Seq(Nodes) /\ L \in Seq(Nodes) /\ Len(L) = 1
      BY <1>12, <2>2
    <3> HIDE DEF s
    <3>2. Len(s \o L) = Len(s) + Len(L) /\ Len(s) \in Nat
      BY <3>1, Lengths
    <3> QED BY <3>1, <3>2
  <2>7. InOrder(g) = List!InsertAt(InOrder(h), Len(s) + 1 + 1, ins)
    <3>1. InOrder(g) = List!InsertAt(InOrder(h), Len(r) + 1, ins)
      <4>1. \A k \in Seq(Nodes) :
              List!InsertAt(k \o q, Len(k) + 1, ins) = (k \o <<ins>>) \o q
        BY InsertAtSplit
      <4> HIDE DEF r
      <4> QED BY <2>2, <2>4, <2>5, <4>1 DEF I
    <3> QED BY <2>6, <3>1
  <2>8. Len(s) + 1 \in DOMAIN InOrder(h) /\ InOrder(h)[Len(s) + 1] = leaf
    <3> HIDE DEF s
    <3> QED BY <1>3, <2>2, <2>4, AtSplit DEF L
  <2> QED BY <1>14, <2>7, <2>8
<1> QED BY <1>13, <1>14 DEF Side

\* A node that is taken out leaves its place in the sequence, and its child stays
\* where it was.
LEMMA PruneOrder ==
  ASSUME NEW h \in Heap, NEW M, NEW sub, Tree(h, M, sub), NEW n \in M, NEW i \in Side,
         h.child[n][Opp(i)] = NULL, NEW c, h.child[n][i] = c, NEW g, Pruned(g, h, n, c)
  PROVE  \E j \in DOMAIN InOrder(h) :
           InOrder(h)[j] = n /\ InOrder(g) = List!RemoveAt(InOrder(h), j)
<1> DEFINE w == InOrderBelow(h)
           w2 == InOrderBelow(g)
           M2 == M \ {n}
<1>1. /\ g \in Heap /\ M \in SUBSET Nodes /\ M2 \in SUBSET Nodes /\ Tree(g, M2, PruneSub(sub, n))
      /\ Opp(i) \in Side /\ Opp(i) # i
  <2>1. Tree(g, M \ {n}, PruneSub(sub, n))
    BY PruneTree
  <2>2. g \in Heap
    BY DEF Pruned
  <2>3. M \in SUBSET Nodes
    BY DEF Tree
  <2> QED BY <2>1, <2>2, <2>3, SideFacts
<1>2. /\ Walks(h, M, w) /\ InOrder(h) = w[h.root]
      /\ Walks(g, M2, w2) /\ InOrder(g) = w2[g.root]
  BY <1>1, InOrderWalks
<1> HIDE DEF w, w2
<1>3. /\ n \in sub[n] /\ n \in Nodes /\ n # NULL
      /\ c # NULL => c \in M
      /\ h.parent[n] # NULL => h.parent[n] \in M
  BY TreeLocal
<1>4. /\ \A m \in M, j \in Side : h.child[m][j] = n => m = h.parent[n]
      /\ h.parent[n] = NULL <=> n = h.root
  BY <1>3 DEF Tree, Linked
<1>5. \A m \in Nodes, j \in Side : m # n =>
        g.child[m][j] = IF m = h.parent[n] /\ h.child[m][j] = n THEN c ELSE h.child[m][j]
  BY DEF Pruned
<1>6. /\ \A x \in M : n \notin sub[x] => w2[x] = w[x]
      /\ \A j \in Side : w2[h.child[n][j]] = w[h.child[n][j]]
  <2>1. ASSUME NEW x \in M, n \notin sub[x]
        PROVE  x \in M2 /\ \A j \in Side : g.child[x][j] = h.child[x][j]
    <3>1. \A j \in Side : h.child[x][j] # n
      BY <1>3, <2>1, SubtreesAt DEF Sub
    <3> QED BY <1>1, <1>3, <1>5, <2>1, <3>1
  <2> HIDE DEF M2
  <2> QED BY <1>2, <2>1, WalkElsewhere
<1>7. w2[c] = w[c] /\ w[NULL] = <<>> /\ w[c] \in Seq(Nodes)
      /\ w[n] = Beside(w[c], n, <<>>, i) /\ w[n] \in Seq(Nodes)
  <2>1. w2[c] = w[c] /\ w[NULL] = <<>>
    BY <1>2, <1>6 DEF Walks
  <2>2. Walks(h, M, w) /\ M \in SUBSET Nodes
    BY <1>1, <1>2
  <2>3. \A m \in M : /\ w[m] = Beside(w[h.child[m][i]], m, w[h.child[m][Opp(i)]], i)
                     /\ w[m] \in Seq(Nodes) /\ w[h.child[m][i]] \in Seq(Nodes)
    BY <2>2, WalkAt
  <2> QED BY <2>1, <2>3
<1>8. Replaced(w[h.root], w2[g.root], w[n], w2[c])
  <2>1. \A m \in M : n \notin sub[m] /\ m \notin sub[n] => w2[m] = w[m]
    BY <1>6
  <2>2. ASSUME NEW m \in M, n \in sub[m], m # n
        PROVE  m \in M2 /\ \A j \in Side :
                 g.child[m][j] = IF h.child[m][j] = n THEN c ELSE h.child[m][j]
    BY <1>1, <1>4, <1>5, <2>2
  <2>3. g.root = IF h.root = n THEN c ELSE h.root
    BY <1>4 DEF Pruned
  <2>4. c \in NodeOrNull /\ g \in Heap /\ M2 \in SUBSET Nodes
    BY <1>1, <1>3 DEF NodeOrNull
  <2>5. Walks(h, M, w) /\ Walks(g, M2, w2)
    BY <1>2
  <2> HIDE DEF M2
  <2> QED BY <2>1, <2>2, <2>3, <2>4, <2>5, ReplacedInWalk
<1>9. PICK p \in Seq(Nodes), q \in Seq(Nodes) :
        InOrder(h) = (p \o w[n]) \o q /\ InOrder(g) = (p \o w[c]) \o q
  BY <1>2, <1>7, <1>8 DEF Replaced
<1> DEFINE C == w[c]
           N == <<n>>
<1>10. /\ C \in Seq(Nodes) /\ N \in Seq(Nodes)
       /\ \A s \in Seq(Nodes), u \in Seq(Nodes) : s \o u \in Seq(Nodes)
       /\ \A s \in Seq(Nodes) : s \o <<>> = s /\ <<>> \o s = s
  BY <1>3, <1>7, SingleSequence, Associative, ConcatEmptySeq
<1>11. \A s \in Seq(Nodes), u \in Seq(Nodes) :
         /\ List!RemoveAt((s \o N) \o u, Len(s) + 1) = s \o u
         /\ Len(s) + 1 \in DOMAIN ((s \o N) \o u)
         /\ ((s \o N) \o u)[Len(s) + 1] = n
  BY <1>3, RemoveAtSplit, AtSplit
<1>12. \E s \in Seq(Nodes), u \in Seq(Nodes) :
         InOrder(h) = (s \o N) \o u /\ InOrder(g) = s \o u
  <2>1. CASE i = 0
    <3>1. w[n] = (C \o N) \o <<>>
      BY <1>7, <2>1 DEF Beside
    <3> HIDE DEF C, N
    <3>2. w[n] = C \o N
      BY <1>10, <3>1
    <3>3. p \o (C \o N) = (p \o C) \o N /\ p \o C \in Seq(Nodes)
      BY <1>10, Regrouped
    <3> QED BY <1>9, <3>2, <3>3 DEF C
  <2>2. CASE i = 1
    <3>1. w[n] = (<<>> \o N) \o C
      BY <1>7, <2>2 DEF Beside
    <3> HIDE DEF C, N
    <3>2. w[n] = N \o C
      BY <1>10, <3>1
    <3>3. p \o (N \o C) = (p \o N) \o C /\ p \o N \in Seq(Nodes) /\ C \o q \in Seq(Nodes)
      BY <1>10, Regrouped
    <3>4. ((p \o N) \o C) \o q = (p \o N) \o (C \o q)
      BY <1>10, <3>3, Regrouped
    <3>5. (p \o C) \o q = p \o (C \o q)
      BY <1>10, Regrouped
    <3>6. InOrder(g) = (p \o C) \o q
      BY <1>9 DEF C
    <3> QED BY <1>9, <3>2, <3>3, <3>4, <3>5, <3>6
  <2> QED BY <2>1, <2>2 DEF Side
<1> HIDE DEF N
<1> QED BY <1>11, <1>12

-----------------------------------------------------------------------------
(* Places *)

\* The sequence of a subtree is a part of that of the tree.
LEMMA WalkWithin ==
  ASSUME NEW h \in Heap, NEW M, NEW sub, Tree(h, M, sub), NEW n \in M
  PROVE  \E p \in Seq(Nodes), q \in Seq(Nodes) : InOrder(h) = (p \o InOrderBelow(h)[n]) \o q
<1> DEFINE w == InOrderBelow(h)
<1>1. Walks(h, M, w) /\ InOrder(h) = w[h.root]
  BY InOrderWalks
<1>2. M \in SUBSET Nodes /\ n \in NodeOrNull
  BY DEF Tree, NodeOrNull
<1> HIDE DEF w
<1>3. \A x \in M, i \in Side : h.child[x][i] = IF h.child[x][i] = n THEN n ELSE h.child[x][i]
  OBVIOUS
<1>4. Replaced(w[h.root], w[h.root], w[n], w[n])
  BY <1>1, <1>2, <1>3, ReplacedInWalk
<1> QED BY <1>1, <1>4 DEF Replaced, w

\* In a sequence without repetition a node has one place.
LEMMA PlaceIs ==
  ASSUME NEW l \in Seq(Nodes), Distinct(l), NEW j \in DOMAIN l, NEW n, l[j] = n
  PROVE  List!Place(l, n) = j
<1> DEFINE I == { i \in 1 .. Len(l) : l[i] = n }
<1>1. I = {j} /\ j \in Nat
  BY LenProperties DEF Distinct
<1>2. List!SelectInSeq(l, LAMBDA x : x = n) = IF I # {} THEN List!Min(I) ELSE 0
  BY DEF List!SelectInSeq
<1>3. List!Min({j}) = j
  BY <1>1 DEF List!Min
<1> QED BY <1>1, <1>2, <1>3 DEF List!Place

\* A sequence in which two nodes have changed their places.
Renamed(a, b, s) == [j \in DOMAIN s |-> Exchange(a, b, s[j])]

\* It is one of nodes, piece by piece.
LEMMA RenamedFacts ==
  ASSUME NEW a \in Nodes, NEW b \in Nodes
  PROVE  /\ \A s \in Seq(Nodes), r \in Seq(Nodes) :
              Renamed(a, b, s \o r) = Renamed(a, b, s) \o Renamed(a, b, r)
         /\ \A s \in Seq(Nodes) : Renamed(a, b, s) \in Seq(Nodes)
         /\ \A n : Renamed(a, b, <<n>>) = <<Exchange(a, b, n)>>
         /\ Renamed(a, b, <<>>) = <<>>
<1> DEFINE e(n) == Exchange(a, b, n)
           R(s) == Renamed(a, b, s)
<1>1. \A n \in Nodes : e(n) \in Nodes
  BY DEF Exchange
<1>2. \A s \in Seq(Nodes) : /\ DOMAIN R(s) = DOMAIN s
                            /\ \A j \in DOMAIN s : R(s)[j] = e(s[j])
                            /\ DOMAIN s = 1 .. Len(s)
                            /\ Len(s) \in Nat
                            /\ \A j \in DOMAIN s : s[j] \in Nodes
  BY LenProperties, ElementOfSeq DEF Renamed
<1>3. ASSUME NEW s \in Seq(Nodes) PROVE R(s) \in Seq(Nodes) /\ Len(R(s)) = Len(s)
  <2>1. R(s) = [j \in 1 .. Len(s) |-> e(s[j])]
    BY <1>2 DEF Renamed
  <2>2. \A j \in 1 .. Len(s) : e(s[j]) \in Nodes
    BY <1>1, <1>2
  <2> HIDE DEF R, e
  <2>3. /\ R(s) \in Seq(Nodes)
    BY <1>2, <2>1, <2>2, IsASeq
  <2>4. DOMAIN R(s) = 1 .. Len(s)
    BY <1>2
  <2>5. DOMAIN R(s) = 1 .. Len(R(s)) /\ Len(R(s)) \in Nat
    BY <2>3, LenProperties
  <2> QED BY <1>2, <2>3, <2>4, <2>5
<1>4. ASSUME NEW s \in Seq(Nodes), NEW r \in Seq(Nodes)
      PROVE  R(s \o r) = R(s) \o R(r)
  <2> DEFINE c == s \o r
             d == R(s) \o R(r)
  <2> HIDE DEF R, e
  <2>1. /\ c \in Seq(Nodes) /\ Len(c) = Len(s) + Len(r)
        /\ \A j \in 1 .. Len(s) + Len(r) : c[j] = IF j <= Len(s) THEN s[j] ELSE r[j - Len(s)]
    BY ConcatProperties
  <2>2. /\ R(s) \in Seq(Nodes) /\ R(r) \in Seq(Nodes)
        /\ Len(R(s)) = Len(s) /\ Len(R(r)) = Len(r)
    BY <1>3
  <2>3. /\ d \in Seq(Nodes) /\ Len(d) = Len(s) + Len(r)
        /\ \A j \in 1 .. Len(s) + Len(r) :
             d[j] = IF j <= Len(s) THEN R(s)[j] ELSE R(r)[j - Len(s)]
    <3>1. \A x, y \in Seq(Nodes) :
            /\ x \o y \in Seq(Nodes) /\ Len(x \o y) = Len(x) + Len(y)
            /\ \A j \in 1 .. Len(x) + Len(y) :
                 (x \o y)[j] = IF j <= Len(x) THEN x[j] ELSE y[j - Len(x)]
      BY ConcatProperties
    <3>2. PICK x \in Seq(Nodes), y \in Seq(Nodes) : x = R(s) /\ y = R(r)
      BY <2>2
    <3>3. /\ d = x \o y /\ Len(x) = Len(s) /\ Len(y) = Len(r)
          /\ R(s) = x /\ R(r) = y
      BY <2>2, <3>2
    <3> HIDE DEF d
    <3>4. /\ x \o y \in Seq(Nodes) /\ Len(x \o y) = Len(s) + Len(r)
          /\ \A j \in 1 .. Len(s) + Len(r) :
               (x \o y)[j] = IF j <= Len(s) THEN x[j] ELSE y[j - Len(s)]
      BY <3>1, <3>3
    <3> QED BY <3>3, <3>4
  <2> HIDE DEF c, d
  <2>4. R(c) \in Seq(Nodes) /\ Len(R(c)) = Len(d)
    BY <1>3, <2>1, <2>3
  <2>5. ASSUME NEW j \in 1 .. Len(d) PROVE R(c)[j] = d[j]
    <3>1. j \in 1 .. Len(s) + Len(r) /\ j \in DOMAIN c /\ j \in Nat /\ Len(s) \in Nat /\ Len(r) \in Nat
      BY <1>2, <2>1, <2>3
    <3>2. R(c)[j] = e(c[j])
      BY <1>2, <2>1, <3>1
    <3>3. CASE j <= Len(s)
      <4>1. j \in DOMAIN s
        BY <1>2, <3>1, <3>3
      <4> QED BY <1>2, <2>1, <2>3, <3>1, <3>2, <3>3, <4>1
    <3>4. CASE ~ (j <= Len(s))
      <4>1. j - Len(s) \in DOMAIN r
        BY <1>2, <3>1, <3>4
      <4> QED BY <1>2, <2>1, <2>3, <3>1, <3>2, <3>4, <4>1
    <3> QED BY <3>3, <3>4
  <2>6. R(c) = d
    BY <2>3, <2>4, <2>5, SeqEqual
  <2> QED BY <2>6 DEF c, d
<1>5. \A n : R(<<n>>) = <<e(n)>>
  BY DEF Renamed
<1>6. R(<<>>) = <<>>
  BY DEF Renamed
<1> QED BY <1>3, <1>4, <1>5, <1>6

\* What holds neither node stays as it is.
LEMMA RenamedElsewhere ==
  ASSUME NEW a \in Nodes, NEW b \in Nodes, NEW s \in Seq(Nodes),
         a \notin Elements(s), b \notin Elements(s)
  PROVE  Renamed(a, b, s) = s
<1>1. \A j \in DOMAIN s : Exchange(a, b, s[j]) = s[j]
  BY DEF Exchange, Elements
<1>2. s = [j \in 1 .. Len(s) |-> s[j]] /\ DOMAIN s = 1 .. Len(s)
  BY LenProperties
<1> QED BY <1>1, <1>2 DEF Renamed

\* Two nodes that exchange their places in a tree do so in the sequence.
LEMMA ExchangeOrder ==
  ASSUME NEW h \in Heap, NEW M, NEW sub, Tree(h, M, sub),
         NEW a \in M, NEW b \in M, NEW g, Exchanged(g, h, M, a, b)
  PROVE  InOrder(g) = Renamed(a, b, InOrder(h))
<1> DEFINE w == InOrderBelow(h)
           w2 == InOrderBelow(g)
           e(x) == Exchange(a, b, x)
           R(s) == Renamed(a, b, s)
           P == { x \in M : w2[e(x)] = R(w[x]) }
<1>1. /\ g \in Heap /\ Tree(g, M, ExchangeSub(sub, a, b)) /\ M \in SUBSET Nodes
      /\ a \in Nodes /\ b \in Nodes /\ a # NULL /\ b # NULL
  <2>1. Tree(g, M, ExchangeSub(sub, a, b))
    BY ExchangeTree
  <2>2. g \in Heap
    BY DEF Exchanged
  <2> QED BY <2>1, <2>2, NullNotNode DEF Tree
<1>2. /\ Walks(h, M, w) /\ InOrder(h) = w[h.root]
      /\ Walks(g, M, w2) /\ InOrder(g) = w2[g.root]
  BY <1>1, InOrderWalks
<1> HIDE DEF w, w2
<1>3. /\ \A x : e(e(x)) = x
      /\ \A x \in M : e(x) \in M
      /\ e(NULL) = NULL
  BY <1>1 DEF Exchange
<1>4. /\ g.root = e(h.root)
      /\ \A m \in M, j \in Side : g.child[m][j] = e(h.child[e(m)][j])
  BY DEF Exchanged
<1>5. /\ \A s \in Seq(Nodes), r \in Seq(Nodes) : R(s \o r) = R(s) \o R(r)
      /\ \A s \in Seq(Nodes) : R(s) \in Seq(Nodes)
      /\ \A n : R(<<n>>) = <<e(n)>>
      /\ R(<<>>) = <<>>
  BY <1>1, RenamedFacts
<1> HIDE DEF e, R
<1>6. ASSUME NEW n \in M, \A i \in Side : h.child[n][i] # NULL => h.child[n][i] \in P
      PROVE  n \in P
  <2> DEFINE x == w[h.child[n][0]]
             y == w[h.child[n][1]]
  <2>1. ASSUME NEW i \in Side PROVE w2[e(h.child[n][i])] = R(w[h.child[n][i]])
    <3>1. CASE h.child[n][i] = NULL
      BY <1>2, <1>3, <1>5, <3>1 DEF Walks
    <3>2. CASE h.child[n][i] # NULL
      BY <1>6, <3>2
    <3> QED BY <3>1, <3>2
  <2>2. /\ w[n] = (x \o <<n>>) \o y
        /\ x \in Seq(Nodes) /\ y \in Seq(Nodes) /\ <<n>> \in Seq(Nodes) /\ n \in Nodes
    <3>1. w[n] = (x \o <<n>>) \o y
      BY <1>2 DEF Walks, Around
    <3>2. w \in [NodeOrNull -> Seq(Nodes)] /\ n \in Nodes
      BY <1>1, <1>2 DEF Walks
    <3>3. h.child[n][0] \in NodeOrNull /\ h.child[n][1] \in NodeOrNull
      BY <3>2, HeapFacts DEF Side
    <3>4. <<n>> \in Seq(Nodes)
      BY <3>2, SingleSequence
    <3> QED BY <3>1, <3>2, <3>3, <3>4
  <2>3. w2[e(n)] = (R(x) \o <<e(n)>>) \o R(y)
    <3>1. w2[e(n)] = (w2[g.child[e(n)][0]] \o <<e(n)>>) \o w2[g.child[e(n)][1]]
      BY <1>2, <1>3 DEF Walks, Around
    <3>2. g.child[e(n)][0] = e(h.child[n][0]) /\ g.child[e(n)][1] = e(h.child[n][1])
      BY <1>3, <1>4 DEF Side
    <3> QED BY <2>1, <3>1, <3>2 DEF Side
  <2> HIDE DEF x, y
  <2>4. R((x \o <<n>>) \o y) = (R(x) \o R(<<n>>)) \o R(y)
    <3>1. x \o <<n>> \in Seq(Nodes)
      BY <2>2, Associative
    <3> QED BY <1>5, <2>2, <3>1
  <2>5. w2[e(n)] = R(w[n])
    BY <1>5, <2>2, <2>3, <2>4
  <2> QED BY <2>5
<1>7. M \subseteq P
  <2> HIDE DEF P
  <2> QED BY <1>6, TreeUp
<1>8. w2[e(h.root)] = R(w[h.root])
  <2>1. CASE h.root = NULL
    BY <1>2, <1>3, <1>5, <2>1 DEF Walks
  <2>2. CASE h.root # NULL
    <3>1. h.root \in M
      BY <2>2 DEF Tree, Linked
    <3> QED BY <1>7, <3>1
  <2> QED BY <2>1, <2>2
<1> QED BY <1>2, <1>4, <1>8 DEF R

-----------------------------------------------------------------------------
(* The operators on heaps *)

\* A rotation with any change of colours after it.
LEMMA TurnOrder ==
  ASSUME NEW h \in Heap, NEW M, NEW sub, Tree(h, M, sub),
         NEW n \in M, NEW i \in Side, h.child[n][Opp(i)] # NULL,
         NEW r, TreeRotate(h, n, i) = r, NEW g, SameLinks(g, r)
  PROVE  InOrder(g) = InOrder(h)
<1> DEFINE k == h.child[n][Opp(i)]
           s == RotateSub(h, n, i, sub)
<1>1. Rotated(TreeRotate(h, n, i), h, n, i, k) /\ Tree(TreeRotate(h, n, i), M, s)
  BY RotateTree
<1>2. Rotated(r, h, n, i, k) /\ Tree(r, M, s) /\ r \in Heap
  BY <1>1 DEF Rotated
<1>3. InOrder(r) = InOrder(h)
  <2>1. h.child[n][Opp(i)] = k /\ k # NULL
    OBVIOUS
  <2> HIDE DEF k, s
  <2> QED BY <1>2, <2>1, RotateOrder
<1>4. InOrder(g) = InOrder(r)
  <2>1. g \in Heap /\ g.root = r.root /\ g.parent = r.parent /\ g.child = r.child
    BY DEF SameLinks
  <2> HIDE DEF s
  <2> QED BY <1>2, <2>1, SameOrder
<1> QED BY <1>3, <1>4

\* The rotations of insertNormalise.
LEMMA RotateGrandparentOrder ==
  ASSUME NEW h \in Heap, NEW M, NEW sub, NEW bh, NEW n \in M,
         RedBlack(h, M, sub, bh, n, NULL, 0), h.red[n],
         NEW p, h.parent[n] = p, p # NULL, h.red[p],
         NEW gp, h.parent[p] = gp, NEW pid, GetChildId(h, gp, p) = pid
  PROVE  InOrder(RotateGrandparent(h, n, p, gp, pid)) = InOrder(h)
<1> DEFINE o == OuterGrandchild(h, n, p, gp, pid)
           top == IF GetChildId(h, p, n) # pid THEN n ELSE p
           r == TreeRotate(o, gp, Opp(pid))
           g == RotateGrandparent(h, n, p, gp, pid)
<1>1. g = [r EXCEPT !.red[top] = FALSE, !.red[gp] = TRUE]
  BY DEF RotateGrandparent
<1> HIDE DEF o, top, g
<1>2. /\ o \in Heap
      /\ o.child[gp][pid] = top /\ gp \in M /\ top \in M
      /\ o = h \/ (h.child[p][Opp(pid)] # NULL /\ o = TreeRotate(h, p, pid))
      /\ \E sub2 \in [Nodes -> SUBSET Nodes], b2 \in [Nodes -> Nat], bot \in M :
           /\ RedBlack(o, M, sub2, b2, bot, NULL, 0)
           /\ o.parent[bot] = top /\ o.child[top][pid] = bot /\ o.red[bot] /\ o.red[top]
  BY OuterGrandchildRedBlack DEF o, top
<1>3. PICK sub2 : Tree(o, M, sub2)
  BY <1>2 DEF RedBlack
<1>4. pid \in Side /\ Opp(pid) \in Side /\ Opp(Opp(pid)) = pid /\ p \in M
  BY RedPairFacts, SideFacts
<1>5. Tree(h, M, sub) /\ gp \in Nodes /\ top \in Nodes /\ top # NULL
  BY <1>2, NullNotNode DEF RedBlack, Tree
<1>6. InOrder(o) = InOrder(h)
  <2>1. CASE o = h
    BY <2>1
  <2>2. CASE h.child[p][Opp(pid)] # NULL /\ o = TreeRotate(h, p, pid)
    <3>1. SameLinks(o, o)
      BY <1>2 DEF SameLinks
    <3>2. TreeRotate(h, p, pid) = o
      BY <2>2
    <3> QED BY <1>4, <1>5, <2>2, <3>1, <3>2, TurnOrder
  <2> QED BY <1>2, <2>1, <2>2
<1>7. o.child[gp][Opp(Opp(pid))] # NULL
  BY <1>2, <1>4, <1>5
<1>8. SameLinks(g, r)
  <2>1. r \in Heap
    <3>1. Rotated(TreeRotate(o, gp, Opp(pid)), o, gp, Opp(pid), o.child[gp][Opp(Opp(pid))])
      BY <1>2, <1>3, <1>4, <1>7, RotateTree
    <3> QED BY <3>1 DEF Rotated
  <2> HIDE DEF r
  <2> QED BY <1>1, <1>5, <2>1 DEF Heap, SameLinks
<1>9. InOrder(g) = InOrder(o)
  <2>1. TreeRotate(o, gp, Opp(pid)) = r
    OBVIOUS
  <2> HIDE DEF r
  <2> QED BY <1>2, <1>3, <1>4, <1>7, <1>8, <2>1, TurnOrder
<1> QED BY <1>6, <1>9 DEF g

\* The rotations of eraseNodeNormalise.
LEMMA BlackSiblingOrder ==
  ASSUME NEW h \in Heap, NEW M, NEW sub, NEW bh,
         RedBlack(h, M, sub, bh, NULL, cur, side), cur \in M, side \in Side
  PROVE  InOrder(BlackSibling(h)) = InOrder(h)
<1> DEFINE s == Sibling(h)
           r == TreeRotate(h, cur, side)
           g == [r EXCEPT !.red[cur] = TRUE, !.red[s] = FALSE]
<1>1. Tree(h, M, sub) /\ M \in SUBSET Nodes /\ NULL \notin M
  BY NullNotNode DEF RedBlack, Tree
<1>2. s \in M /\ h.child[cur][Opp(side)] = s
  <2>1. Sibling(h) = s
    OBVIOUS
  <2> HIDE DEF s
  <2> QED BY <2>1, SiblingFacts
<1>3. BlackSibling(h) = IF h.red[s] THEN g ELSE h
  BY DEF BlackSibling
<1> HIDE DEF s
<1>4. InOrder(g) = InOrder(h)
  <2>1. h.child[cur][Opp(side)] # NULL
    BY <1>1, <1>2
  <2>2. r \in Heap
    <3>1. Rotated(TreeRotate(h, cur, side), h, cur, side, h.child[cur][Opp(side)])
      BY <1>1, <2>1, RotateTree
    <3> QED BY <3>1 DEF Rotated
  <2>3. TreeRotate(h, cur, side) = r
    OBVIOUS
  <2> HIDE DEF r
  <2>4. SameLinks(g, r)
    BY <1>1, <1>2, <2>2 DEF Heap, SameLinks
  <2> HIDE DEF g
  <2> QED BY <1>1, <2>1, <2>3, <2>4, TurnOrder
<1> QED BY <1>3, <1>4

\* A red inner nephew above its parent.
LEMMA RedOuterNephewOrder ==
  ASSUME NEW h \in Heap, NEW M, NEW sub, NEW bh,
         RedBlack(h, M, sub, bh, NULL, cur, side), cur \in M, side \in Side,
         NEW s, Sibling(h) = s
  PROVE  InOrder(RedOuterNephew(h, s)) = InOrder(h)
<1> DEFINE y == h.child[s][side]
           r == TreeRotate(h, s, Opp(side))
           g == [r EXCEPT !.red[s] = TRUE, !.red[y] = FALSE]
<1>1. Tree(h, M, sub) /\ M \in SUBSET Nodes /\ NULL \notin M
  BY NullNotNode DEF RedBlack, Tree
<1>2. Opp(side) \in Side /\ Opp(Opp(side)) = side
  BY SideFacts
<1>3. s \in M /\ (h.child[s][side] # NULL => h.child[s][side] \in M)
  BY SiblingFacts
<1>4. RedOuterNephew(h, s) = IF IsRed(h, y) THEN g ELSE h
  BY DEF RedOuterNephew
<1>5. ASSUME IsRed(h, y) PROVE InOrder(g) = InOrder(h)
  <2>1. h.child[s][Opp(Opp(side))] # NULL /\ y \in M
    BY <1>2, <1>3, <1>5 DEF IsRed
  <2>2. r \in Heap
    <3>1. Rotated(TreeRotate(h, s, Opp(side)), h, s, Opp(side), h.child[s][Opp(Opp(side))])
      BY <1>1, <1>2, <1>3, <2>1, RotateTree
    <3> QED BY <3>1 DEF Rotated
  <2>3. TreeRotate(h, s, Opp(side)) = r
    OBVIOUS
  <2> HIDE DEF r, y
  <2>4. SameLinks(g, r)
    BY <1>1, <1>3, <2>1, <2>2 DEF Heap, SameLinks
  <2> HIDE DEF g
  <2> QED BY <1>1, <1>2, <1>3, <2>1, <2>3, <2>4, TurnOrder
<1> QED BY <1>4, <1>5

\* The last rotation.
LEMMA RotateParentOrder ==
  ASSUME NEW h \in Heap, NEW M, NEW sub, NEW bh, NEW x,
         RedBlack(h, M, sub, bh, x, cur, side), cur \in M, side \in Side,
         NEW s, Sibling(h) = s, NEW f, h.child[s][Opp(side)] = f, IsRed(h, f)
  PROVE  InOrder(RotateParent(h)) = InOrder(h)
<1> DEFINE r == TreeRotate(h, cur, side)
           g == [r EXCEPT !.red[s] = h.red[cur], !.red[cur] = FALSE, !.red[f] = FALSE]
<1>1. Tree(h, M, sub) /\ M \in SUBSET Nodes /\ NULL \notin M /\ Opp(side) \in Side
  BY NullNotNode, SideFacts DEF RedBlack, Tree
<1>2. /\ s \in M /\ h.child[cur][Opp(side)] = s
      /\ \A i \in Side : h.child[s][i] # NULL => h.child[s][i] \in M
  BY SiblingFacts
<1>3. RotateParent(h) = g
  BY DEF RotateParent
<1>4. f \in M /\ h.red[cur] \in BOOLEAN
  BY <1>1, <1>2, HeapFacts DEF IsRed
<1>5. h.child[cur][Opp(side)] # NULL
  BY <1>1, <1>2
<1>6. r \in Heap
  <2>1. Rotated(TreeRotate(h, cur, side), h, cur, side, h.child[cur][Opp(side)])
    BY <1>1, <1>5, RotateTree
  <2> QED BY <2>1 DEF Rotated
<1>7. TreeRotate(h, cur, side) = r
  OBVIOUS
<1> HIDE DEF r
<1>8. SameLinks(g, r)
  BY <1>1, <1>2, <1>4, <1>6 DEF Heap, SameLinks
<1> HIDE DEF g
<1> QED BY <1>1, <1>3, <1>5, <1>7, <1>8, TurnOrder

-----------------------------------------------------------------------------
(* The sequence of a tree *)

\* It has the nodes of the tree, each once.
LEMMA OrderFacts ==
  ASSUME NEW h \in Heap, NEW M, NEW sub, Tree(h, M, sub)
  PROVE  /\ InOrder(h) \in Seq(Nodes) /\ Distinct(InOrder(h))
         /\ Elements(InOrder(h)) = M
         /\ h.root = NULL => InOrder(h) = <<>>
<1> DEFINE w == InOrderBelow(h)
<1>1. Walks(h, M, w) /\ InOrder(h) = w[h.root]
  BY InOrderWalks
<1> HIDE DEF w
<1>2. w[h.root] \in Seq(Nodes) /\ Elements(w[h.root]) = M /\ Distinct(w[h.root])
  BY <1>1, WalkFacts
<1> QED BY <1>1, <1>2 DEF Walks

\* The parts of a sequence without repetition.
LEMMA DistinctParts ==
  ASSUME NEW s \in Seq(Nodes), NEW r \in Seq(Nodes), Distinct(s \o r)
  PROVE  Elements(s) \cap Elements(r) = {} /\ Distinct(s) /\ Distinct(r)
<1> DEFINE c == s \o r
<1>1. /\ DOMAIN s = 1 .. Len(s) /\ DOMAIN r = 1 .. Len(r) /\ Len(s) \in Nat /\ Len(r) \in Nat
      /\ DOMAIN c = 1 .. Len(s) + Len(r)
      /\ \A i \in 1 .. Len(s) + Len(r) : c[i] = IF i <= Len(s) THEN s[i] ELSE r[i - Len(s)]
  BY ConcatProperties, LenProperties
<1>2. \A i, j \in DOMAIN c : c[i] = c[j] => i = j
  BY DEF Distinct
<1> HIDE DEF c
<1>3. \A i \in DOMAIN s : i \in DOMAIN c /\ c[i] = s[i] /\ i <= Len(s) /\ i \in Nat
  BY <1>1
<1>4. ASSUME NEW i \in DOMAIN r
      PROVE  Len(s) + i \in DOMAIN c /\ c[Len(s) + i] = r[i] /\ ~ (Len(s) + i <= Len(s)) /\ i \in Nat
  <2>1. i \in Nat /\ Len(s) + i \in 1 .. Len(s) + Len(r) /\ ~ (Len(s) + i <= Len(s))
        /\ (Len(s) + i) - Len(s) = i
    BY <1>1
  <2> QED BY <1>1, <2>1
<1>5. Elements(s) \cap Elements(r) = {}
  <2> SUFFICES ASSUME NEW i \in DOMAIN s, NEW j \in DOMAIN r, s[i] = r[j] PROVE FALSE
    BY DEF Elements
  <2>1. c[i] = c[Len(s) + j]
    BY <1>3, <1>4
  <2>2. i = Len(s) + j
    BY <1>2, <1>3, <1>4, <2>1
  <2> QED BY <1>3, <1>4, <2>2
<1>6. Distinct(s)
  BY <1>2, <1>3 DEF Distinct
<1>7. Distinct(r)
  <2> SUFFICES ASSUME NEW i \in DOMAIN r, NEW j \in DOMAIN r, r[i] = r[j] PROVE i = j
    BY DEF Distinct
  <2>1. Len(s) + i = Len(s) + j
    BY <1>2, <1>4
  <2> QED BY <1>1, <1>4, <2>1
<1> QED BY <1>5, <1>6, <1>7

\* The place of a node in a sequence that is split there.
LEMMA PlaceInSplit ==
  ASSUME NEW p \in Seq(Nodes), NEW q \in Seq(Nodes), NEW n \in Nodes,
         Distinct((p \o <<n>>) \o q)
  PROVE  List!Place((p \o <<n>>) \o q, n) = Len(p) + 1
<1> DEFINE l == (p \o <<n>>) \o q
<1>1. Len(p) + 1 \in DOMAIN l /\ l[Len(p) + 1] = n
  BY AtSplit
<1>2. l \in Seq(Nodes)
  BY SingleSequence, Associative
<1>3. Distinct(l)
  OBVIOUS
<1> HIDE DEF l
<1>4. List!Place(l, n) = Len(p) + 1
  BY <1>1, <1>2, <1>3, PlaceIs
<1> QED BY <1>4 DEF l

-----------------------------------------------------------------------------
(* Insertion and erasure *)

\* A new leaf.
LEMMA LinkLeafOrder ==
  ASSUME NEW h \in Heap, NEW M, NEW sub, NEW bh,
         RedBlack(h, M, sub, bh, NULL, NULL, 0),
         NEW leaf \in M, NEW i \in Side, h.child[leaf][i] = NULL, NEW ins \in Nodes \ M
  PROVE  InOrder(LinkLeaf(h, leaf, i, ins))
           = List!InsertAt(InOrder(h), List!Place(InOrder(h), leaf) + i, ins)
<1> DEFINE g == LinkLeaf(h, leaf, i, ins)
<1>1. Grafted(g, h, leaf, i, ins)
  BY LinkLeafRedBlack
<1>2. Tree(h, M, sub)
  BY DEF RedBlack
<1> HIDE DEF g
<1>3. PICK j \in DOMAIN InOrder(h) :
        /\ InOrder(h)[j] = leaf
        /\ InOrder(g) = List!InsertAt(InOrder(h), j + i, ins)
  BY <1>1, <1>2, GraftOrder
<1>4. List!Place(InOrder(h), leaf) = j
  BY <1>2, <1>3, OrderFacts, PlaceIs
<1> QED BY <1>3, <1>4 DEF g

\* The first node.
LEMMA RootOnlyOrder ==
  ASSUME NEW h \in Heap, NEW ins \in Nodes
  PROVE  InOrder(RootOnly(h, ins)) = <<ins>>
<1> DEFINE g == RootOnly(h, ins)
           w == InOrderBelow(g)
           s == [n \in Nodes |-> {}]
           b == [n \in Nodes |-> 0]
<1>1. s \in [Nodes -> SUBSET Nodes] /\ b \in [Nodes -> Nat]
  OBVIOUS
<1> HIDE DEF s, b
<1>2. g \in Heap /\ \E sub : Tree(g, {ins}, sub)
  BY <1>1, RootOnlyRedBlack DEF RedBlack
<1>3. g.root = ins /\ \A j \in Side : g.child[ins][j] = NULL
  BY RootOnlyFacts
<1> HIDE DEF g
<1>4. Walks(g, {ins}, w) /\ InOrder(g) = w[g.root]
  BY <1>2, InOrderWalks
<1> HIDE DEF w
<1>5. w[ins] = <<>> \o <<ins>> \o <<>>
  BY <1>3, <1>4 DEF Walks, Around, Side
<1>6. <<ins>> \in Seq(Nodes)
  BY SingleSequence
<1> DEFINE i == <<ins>>
<1>7. w[ins] = i
  <2>1. w[ins] = <<>> \o i \o <<>> /\ i \in Seq(Nodes)
    BY <1>5, <1>6
  <2> HIDE DEF i
  <2> QED BY <2>1, ConcatEmptySeq
<1> QED BY <1>3, <1>4, <1>7 DEF g

\* eraseNode takes its node out.
LEMMA UnlinkPruned ==
  ASSUME NEW h \in Heap, NEW sub, NEW bh,
         RedBlack(h, members, sub, bh, NULL, NULL, 0), NEW n \in members, ~ IsDeg2(h, n),
         Unlink(h, n)
  PROVE  Pruned(t', h, n, Single(h, n))
<1> DEFINE c == Single(h, n)
           p == h.parent[n]
           nid == GetChildId(h, p, n)
<1>1. Tree(h, members, sub) /\ members \in SUBSET Nodes /\ n \in Nodes
  BY DEF RedBlack, Tree
<1>2. /\ c # NULL => c \in members /\ c # n /\ h.red[c] /\ ~ h.red[n]
      /\ c \in NodeOrNull /\ c # n
  <2>1. c # NULL => c \in members /\ c # n /\ h.red[c] /\ ~ h.red[n]
    BY SingleFacts DEF OnlyChild
  <2> QED BY <1>1, <2>1, NullNotNode DEF NodeOrNull
<1>3. \/ p = NULL /\ t' = ReplaceRoot(h, c)
      \/ p # NULL /\ c = NULL /\ t' = ConnectNone(h, p, nid)
      \/ p # NULL /\ c # NULL /\ t' = [ConnectChild(h, p, c, nid) EXCEPT !.red[c] = FALSE]
  <2>1. \/ p = NULL /\ t' = ReplaceRoot(h, c)
        \/ p # NULL /\ c = NULL /\ t' = ConnectNone(h, p, nid)
        \/ /\ p # NULL /\ c # NULL
           /\ t' = [ConnectChild(h, p, c, nid) EXCEPT !.red[c] = FALSE]
        \/ /\ p # NULL /\ IF c = NULL THEN ~ h.red[n] ELSE h.red[n] = h.red[c]
           /\ t' = ConnectNone(h, p, nid)
    BY DEF Unlink
  <2> HIDE DEF c, p, nid
  <2> QED BY <1>2, <2>1
<1>4. CASE p = NULL /\ t' = ReplaceRoot(h, c)
  <2>1. h.parent[n] = NULL
    BY <1>4
  <2> HIDE DEF c, p
  <2> QED BY <1>1, <1>2, <1>4, <2>1, ReplaceRootPruned DEF c
<1>5. CASE p # NULL /\ c = NULL /\ t' = ConnectNone(h, p, nid)
  <2>1. t' = ConnectChildAuto(h, p, c, nid)
    BY <1>5 DEF ConnectChildAuto
  <2>2. Pruned(t', h, n, c)
    <3> HIDE DEF c
    <3> QED BY <1>1, <1>2, <1>5, <2>1, ConnectPruned
  <2> QED BY <2>2
<1>6. CASE p # NULL /\ c # NULL /\ t' = [ConnectChild(h, p, c, nid) EXCEPT !.red[c] = FALSE]
  <2> DEFINE g == ConnectChildAuto(h, p, c, nid)
  <2>1. t' = SetRed(g, c, FALSE)
    BY <1>6 DEF ConnectChildAuto, SetRed
  <2>2. Pruned(g, h, n, c)
    <3> HIDE DEF c
    <3> QED BY <1>1, <1>2, <1>6, ConnectPruned
  <2> HIDE DEF g
  <2>3. SameLinks(t', g)
    <3>1. g \in Heap /\ c \in Nodes /\ FALSE \in BOOLEAN
      BY <1>1, <1>2, <1>6, <2>2 DEF Pruned
    <3> HIDE DEF c
    <3> QED BY <2>1, <3>1, SetRedFacts
  <2> QED BY <2>2, <2>3 DEF SameLinks, Pruned
<1> QED BY <1>3, <1>4, <1>5, <1>6

\* The sequence after it.
LEMMA UnlinkOrder ==
  ASSUME NEW h \in Heap, NEW sub, NEW bh,
         RedBlack(h, members, sub, bh, NULL, NULL, 0), NEW n \in members, ~ IsDeg2(h, n),
         Unlink(h, n)
  PROVE  InOrder(t') = List!RemoveAt(InOrder(h), List!Place(InOrder(h), n))
<1> DEFINE c == Single(h, n)
           l == InOrder(h)
<1>1. Tree(h, members, sub)
  BY DEF RedBlack
<1>2. Pruned(t', h, n, c)
  BY UnlinkPruned
<1>3. PICK i \in Side : h.child[n][i] = c /\ h.child[n][Opp(i)] = NULL
  <2>1. OnlyChild(h, members, bh, n, c)
    BY SingleFacts
  <2> HIDE DEF c
  <2> QED BY <2>1 DEF OnlyChild
<1> HIDE DEF c
<1>4. PICK j \in DOMAIN l : l[j] = n /\ InOrder(t') = List!RemoveAt(l, j)
  BY <1>1, <1>2, <1>3, PruneOrder
<1>5. List!Place(l, n) = j
  <2>1. l \in Seq(Nodes) /\ Distinct(l)
    BY <1>1, OrderFacts
  <2> HIDE DEF l
  <2> QED BY <1>4, <2>1, PlaceIs
<1> QED BY <1>4, <1>5

\* In the sequence l, b comes after a, between p and q.
Neighbours(l, p, a, b, q) == l = (p \o <<a>>) \o (<<b>> \o q)

\* A node and its predecessor exchange their places.
LEMMA SwapOrder ==
  ASSUME NEW h \in Heap, NEW M, NEW sub, Tree(h, M, sub),
         NEW a \in M, NEW b \in M, b # a, b \in sub[a],
         NEW p \in Seq(Nodes), NEW q \in Seq(Nodes), Neighbours(InOrder(h), p, b, a, q)
  PROVE  Neighbours(InOrder(SwapNode(h, a, b)), p, a, b, q)
<1> DEFINE g == SwapNode(h, a, b)
           A == <<a>>
           B == <<b>>
           R(s) == Renamed(a, b, s)
<1>1. Exchanged(g, h, M, a, b)
  BY SwapNodeFacts
<1> HIDE DEF g
<1>2. InOrder(g) = R(InOrder(h))
  BY <1>1, ExchangeOrder
<1>3. a \in Nodes /\ b \in Nodes
  BY DEF Tree
<1>4. /\ A \in Seq(Nodes) /\ Elements(A) = {a} /\ R(A) = B
      /\ B \in Seq(Nodes) /\ Elements(B) = {b} /\ R(B) = A
  <2>1. Exchange(a, b, a) = b /\ Exchange(a, b, b) = a
    BY DEF Exchange
  <2>2. A \in Seq(Nodes) /\ Elements(A) = {a}
    BY <1>3, SingleSequence
  <2>3. B \in Seq(Nodes) /\ Elements(B) = {b}
    BY <1>3, SingleSequence
  <2>4. \A n : Renamed(a, b, <<n>>) = <<Exchange(a, b, n)>>
    BY <1>3, RenamedFacts
  <2>5. R(A) = B /\ R(B) = A
    BY <1>3, <2>1, <2>4
  <2> QED BY <2>2, <2>3, <2>5
<1>5. \A s \in Seq(Nodes), r \in Seq(Nodes) : R(s \o r) = R(s) \o R(r)
  BY <1>3, RenamedFacts
<1>6. InOrder(h) = (p \o B) \o (A \o q) /\ Distinct(InOrder(h))
  BY OrderFacts DEF Neighbours
<1>7. \A s \in Seq(Nodes) : a \notin Elements(s) /\ b \notin Elements(s) => R(s) = s
  BY <1>3, RenamedElsewhere
<1> HIDE DEF A, B, R
<1>8. p \o B \in Seq(Nodes) /\ A \o q \in Seq(Nodes)
  BY <1>4, Associative
<1>9. /\ Elements(p \o B) = Elements(p) \cup {b}
      /\ Elements(A \o q) = {a} \cup Elements(q)
  BY <1>4, ConcatElements
<1>10. /\ Elements(p \o B) \cap Elements(A \o q) = {}
       /\ Distinct(p \o B) /\ Distinct(A \o q)
  <2>1. Distinct((p \o B) \o (A \o q))
    BY <1>6
  <2> QED BY <1>8, <2>1, DistinctParts
<1>11. Elements(p) \cap {b} = {} /\ {a} \cap Elements(q) = {}
  BY <1>4, <1>10, DistinctParts
<1>12. R(p) = p /\ R(q) = q
  BY <1>7, <1>9, <1>10, <1>11
<1>13. R((p \o B) \o (A \o q)) = (p \o A) \o (B \o q)
  <2>1. R((p \o B) \o (A \o q)) = R(p \o B) \o R(A \o q)
    BY <1>5, <1>8
  <2>2. R(p \o B) = p \o A /\ R(A \o q) = B \o q
    BY <1>4, <1>5, <1>12
  <2> QED BY <2>1, <2>2
<1> QED BY <1>2, <1>6, <1>13 DEF g, A, B, Neighbours

-----------------------------------------------------------------------------
(* What a search looks for *)

\* The sequence that has one node, or none.
One(m) == IF m = NULL THEN <<>> ELSE <<m>>

\* The subtree of n comes just before m, which NULL makes the end ...
JustBefore(h, n, m) ==
  \E u, v \in Seq(Nodes) :
    /\ InOrder(h) = (u \o InOrderBelow(h)[n]) \o (One(m) \o v)
    /\ m = NULL => v = <<>>

\* ... or just after it, where NULL is in front of the first node.
JustAfter(h, n, m) ==
  \E u, v \in Seq(Nodes) :
    /\ InOrder(h) = (u \o One(m)) \o (InOrderBelow(h)[n] \o v)
    /\ m = NULL => u = <<>>

\* It is a sequence of nodes.
LEMMA OneFacts ==
  ASSUME NEW m \in NodeOrNull
  PROVE  One(m) \in Seq(Nodes)
<1>1. CASE m = NULL
  BY <1>1, NoElements DEF One
<1>2. CASE m # NULL
  <2>1. m \in Nodes
    BY <1>2 DEF NodeOrNull
  <2> QED BY <1>2, <2>1, SingleSequence DEF One
<1> QED BY <1>1, <1>2

\* The sequence of a node, in three parts.
Parts(w, h, n, a, b) ==
  /\ a = w[h.child[n][0]] /\ b = w[h.child[n][1]]
  /\ w[n] = (a \o <<n>>) \o b
  /\ h.child[n][0] = NULL => a = <<>>
  /\ h.child[n][1] = NULL => b = <<>>
  /\ <<n>> \in Seq(Nodes)

\* Every node has them.
LEMMA WalkParts ==
  ASSUME NEW h \in Heap, NEW M, NEW sub, Tree(h, M, sub), NEW n \in M
  PROVE  \E a \in Seq(Nodes), b \in Seq(Nodes) : Parts(InOrderBelow(h), h, n, a, b)
<1> DEFINE w == InOrderBelow(h)
<1>1. Walks(h, M, w) /\ M \in SUBSET Nodes
  BY InOrderWalks DEF Tree
<1>2. n \in Nodes /\ h.child[n][0] \in NodeOrNull /\ h.child[n][1] \in NodeOrNull
  BY <1>1, HeapFacts DEF Side
<1>3. /\ w[h.child[n][0]] \in Seq(Nodes) /\ w[h.child[n][1]] \in Seq(Nodes)
      /\ w[NULL] = <<>>
      /\ w[n] = (w[h.child[n][0]] \o <<n>>) \o w[h.child[n][1]]
  BY <1>1, <1>2 DEF Walks, Around
<1>4. <<n>> \in Seq(Nodes)
  BY <1>2, SingleSequence
<1>5. Parts(w, h, n, w[h.child[n][0]], w[h.child[n][1]])
  BY <1>3, <1>4 DEF Parts
<1> QED BY <1>3, <1>5

\* A search that follows the right children stays just before its target,
LEMMA BeforeStep ==
  ASSUME NEW h \in Heap, NEW M, NEW sub, Tree(h, M, sub), NEW n \in M,
         NEW m \in NodeOrNull, JustBefore(h, n, m)
  PROVE  JustBefore(h, h.child[n][1], m)
<1> DEFINE w == InOrderBelow(h)
           o == One(m)
<1>0. PICK a \in Seq(Nodes), b \in Seq(Nodes) : Parts(InOrderBelow(h), h, n, a, b)
  BY WalkParts
<1>1. /\ b = w[h.child[n][1]] /\ w[n] = (a \o <<n>>) \o b /\ <<n>> \in Seq(Nodes)
  BY <1>0 DEF Parts
<1>2. PICK u \in Seq(Nodes), v \in Seq(Nodes) :
        InOrder(h) = (u \o w[n]) \o (o \o v) /\ (m = NULL => v = <<>>)
  BY DEF JustBefore
<1>3. u \o ((a \o <<n>>) \o b) = (u \o (a \o <<n>>)) \o b
  <2> DEFINE s == a \o <<n>>
  <2>1. s \in Seq(Nodes)
    BY <1>1, Associative
  <2> HIDE DEF s
  <2>2. u \o (s \o b) = (u \o s) \o b
    BY <2>1, Associative
  <2> QED BY <2>2 DEF s
<1>4. u \o (a \o <<n>>) \in Seq(Nodes)
  BY <1>1, Associative
<1>5. InOrder(h) = ((u \o (a \o <<n>>)) \o w[h.child[n][1]]) \o (o \o v)
  BY <1>1, <1>2, <1>3
<1> QED BY <1>2, <1>4, <1>5 DEF JustBefore

\* and one that follows the left children just after it.
LEMMA AfterStep ==
  ASSUME NEW h \in Heap, NEW M, NEW sub, Tree(h, M, sub), NEW n \in M,
         NEW m \in NodeOrNull, JustAfter(h, n, m)
  PROVE  JustAfter(h, h.child[n][0], m)
<1> DEFINE w == InOrderBelow(h)
           o == One(m)
<1>0. PICK a \in Seq(Nodes), b \in Seq(Nodes) : Parts(InOrderBelow(h), h, n, a, b)
  BY WalkParts
<1>1. /\ a = w[h.child[n][0]] /\ w[n] = (a \o <<n>>) \o b /\ <<n>> \in Seq(Nodes)
  BY <1>0 DEF Parts
<1>2. PICK u \in Seq(Nodes), v \in Seq(Nodes) :
        InOrder(h) = (u \o o) \o (w[n] \o v) /\ (m = NULL => u = <<>>)
  BY DEF JustAfter
<1>3. ((a \o <<n>>) \o b) \o v = a \o (<<n>> \o (b \o v))
  <2> DEFINE s == b \o v
             r == <<n>>
  <2>1. s \in Seq(Nodes) /\ r \in Seq(Nodes) /\ a \o r \in Seq(Nodes)
    BY <1>1, Associative
  <2>2. ((a \o r) \o b) \o v = (a \o r) \o s
    BY <2>1, Associative
  <2> HIDE DEF s, r
  <2>3. (a \o r) \o s = a \o (r \o s)
    BY <2>1, Associative
  <2> QED BY <2>2, <2>3 DEF s, r
<1>4. <<n>> \o (b \o v) \in Seq(Nodes)
  BY <1>1, Associative
<1>5. InOrder(h) = (u \o o) \o (w[h.child[n][0]] \o (<<n>> \o (b \o v)))
  BY <1>1, <1>2, <1>3
<1> QED BY <1>2, <1>4, <1>5 DEF JustAfter

\* It starts beside its target,
LEMMA BesideStart ==
  ASSUME NEW h \in Heap, NEW M, NEW sub, Tree(h, M, sub), NEW m \in M
  PROVE  JustBefore(h, h.child[m][0], m) /\ JustAfter(h, h.child[m][1], m)
<1> DEFINE w == InOrderBelow(h)
<1>0. PICK a \in Seq(Nodes), b \in Seq(Nodes) : Parts(InOrderBelow(h), h, m, a, b)
  BY WalkParts
<1>1. /\ a = w[h.child[m][0]] /\ b = w[h.child[m][1]]
        /\ w[m] = (a \o <<m>>) \o b /\ <<m>> \in Seq(Nodes)
  BY <1>0 DEF Parts
<1>2. PICK p \in Seq(Nodes), q \in Seq(Nodes) : InOrder(h) = (p \o w[m]) \o q
  BY WalkWithin
<1>3. m # NULL /\ One(m) = <<m>>
  BY NullNotNode DEF One, Tree
<1> DEFINE r == <<m>>
<1>4. r \in Seq(Nodes) /\ InOrder(h) = (p \o ((a \o r) \o b)) \o q
  BY <1>1, <1>2
<1> HIDE DEF r, w
<1>5. /\ (p \o ((a \o r) \o b)) \o q = ((p \o a) \o r) \o (b \o q)
      /\ (p \o ((a \o r) \o b)) \o q = (p \o a) \o (r \o (b \o q))
  <2>1. /\ Cat(Cat(p, Cat(Cat(a, r), b)), q) = Cat(Cat(Cat(p, a), r), Cat(b, q))
        /\ Cat(Cat(p, Cat(Cat(a, r), b)), q) = Cat(Cat(p, a), Cat(r, Cat(b, q)))
    BY <1>4, FiveParts
  <2> QED BY <2>1 DEF Cat
<1>6. p \o a \in Seq(Nodes) /\ b \o q \in Seq(Nodes)
  BY Associative
<1>8. /\ InOrder(h) = (p \o w[h.child[m][0]]) \o (r \o (b \o q))
      /\ InOrder(h) = ((p \o a) \o r) \o (w[h.child[m][1]] \o q)
  BY <1>1, <1>4, <1>5
<1>9. \E u, v \in Seq(Nodes) : InOrder(h) = (u \o w[h.child[m][0]]) \o (r \o v)
  BY <1>6, <1>8
<1>10. \E u, v \in Seq(Nodes) : InOrder(h) = (u \o r) \o (w[h.child[m][1]] \o v)
  BY <1>6, <1>8
<1> QED BY <1>3, <1>9, <1>10 DEF JustBefore, JustAfter, r, w

\* or at the root, which is before the end and after the front.
LEMMA RootStart ==
  ASSUME NEW h \in Heap, NEW M, NEW sub, Tree(h, M, sub)
  PROVE  JustBefore(h, h.root, NULL) /\ JustAfter(h, h.root, NULL)
<1> DEFINE l == InOrder(h)
<1>1. l \in Seq(Nodes) /\ l = InOrderBelow(h)[h.root]
  BY OrderFacts DEF InOrder
<1> HIDE DEF l
<1>2. <<>> \in Seq(Nodes) /\ <<>> \o <<>> = <<>> /\ One(NULL) = <<>>
  BY NoElements, ConcatEmptySeq DEF One
<1>3. l = (<<>> \o l) \o (<<>> \o <<>>) /\ l = (<<>> \o <<>>) \o (l \o <<>>)
  BY <1>1, <1>2, ConcatEmptySeq
<1>4. InOrder(h) = l
  BY DEF l
<1> QED BY <1>1, <1>2, <1>3, <1>4 DEF JustBefore, JustAfter

\* At its end the node itself is just before the target,
LEMMA BeforeEnd ==
  ASSUME NEW h \in Heap, NEW M, NEW sub, Tree(h, M, sub), NEW n \in M,
         NEW m \in NodeOrNull, JustBefore(h, n, m), h.child[n][1] = NULL
  PROVE  \E p, v \in Seq(Nodes) :
           /\ InOrder(h) = (p \o <<n>>) \o (One(m) \o v)
           /\ m = NULL => v = <<>>
<1> DEFINE w == InOrderBelow(h)
           o == One(m)
           r == <<n>>
<1>0. PICK a \in Seq(Nodes), b \in Seq(Nodes) : Parts(InOrderBelow(h), h, n, a, b)
  BY WalkParts
<1>1. w[n] = (a \o <<n>>) \o b /\ b = <<>> /\ <<n>> \in Seq(Nodes)
  BY <1>0 DEF Parts
<1>2. PICK u \in Seq(Nodes), v \in Seq(Nodes) :
        InOrder(h) = (u \o w[n]) \o (o \o v) /\ (m = NULL => v = <<>>)
  BY DEF JustBefore
<1>3. r \in Seq(Nodes) /\ w[n] = (a \o r) \o <<>>
  BY <1>1
<1> HIDE DEF w, o, r
<1>4. a \o r \in Seq(Nodes) /\ u \o a \in Seq(Nodes)
  BY <1>3, Associative
<1>5. w[n] = a \o r
  BY <1>3, <1>4, ConcatEmptySeq
<1>6. u \o (a \o r) = (u \o a) \o r
  BY <1>3, Regrouped
<1>7. InOrder(h) = ((u \o a) \o r) \o (o \o v)
  BY <1>2, <1>5, <1>6
<1> QED BY <1>2, <1>4, <1>7 DEF o, r

\* or just after it.
LEMMA AfterEnd ==
  ASSUME NEW h \in Heap, NEW M, NEW sub, Tree(h, M, sub), NEW n \in M,
         NEW m \in NodeOrNull, JustAfter(h, n, m), h.child[n][0] = NULL
  PROVE  \E u, q \in Seq(Nodes) :
           /\ InOrder(h) = (u \o One(m)) \o (<<n>> \o q)
           /\ m = NULL => u = <<>>
<1> DEFINE w == InOrderBelow(h)
           o == One(m)
           r == <<n>>
<1>0. PICK a \in Seq(Nodes), b \in Seq(Nodes) : Parts(InOrderBelow(h), h, n, a, b)
  BY WalkParts
<1>1. w[n] = (a \o <<n>>) \o b /\ a = <<>> /\ <<n>> \in Seq(Nodes)
  BY <1>0 DEF Parts
<1>2. PICK u \in Seq(Nodes), v \in Seq(Nodes) :
        InOrder(h) = (u \o o) \o (w[n] \o v) /\ (m = NULL => u = <<>>)
  BY DEF JustAfter
<1>3. r \in Seq(Nodes) /\ w[n] = (<<>> \o r) \o b
  BY <1>1
<1> HIDE DEF w, o, r
<1>4. w[n] = r \o b /\ b \o v \in Seq(Nodes)
  BY <1>3, Associative, ConcatEmptySeq
<1>5. (r \o b) \o v = r \o (b \o v)
  BY <1>3, Associative
<1>6. InOrder(h) = (u \o o) \o (r \o (b \o v))
  BY <1>2, <1>4, <1>5
<1> QED BY <1>2, <1>4, <1>6 DEF o, r

-----------------------------------------------------------------------------
(* The list's operations, on a sequence that is split where they act *)

\* The places of two neighbours.
LEMMA PlacesInSplit ==
  ASSUME NEW p \in Seq(Nodes), NEW a \in Nodes, NEW b \in Nodes, NEW q \in Seq(Nodes),
         NEW l, Neighbours(l, p, a, b, q), Distinct(l)
  PROVE  /\ List!Place(l, a) = Len(p) + 1
         /\ List!Place(l, b) = Len(p) + 2
<1> DEFINE A == <<a>>
           B == <<b>>
<1>1. A \in Seq(Nodes) /\ B \in Seq(Nodes) /\ Len(A) = 1
  BY SingleSequence
<1>2. l = (p \o A) \o (B \o q)
  BY DEF Neighbours
<1> HIDE DEF A, B
<1>3. p \o A \in Seq(Nodes) /\ B \o q \in Seq(Nodes)
  BY <1>1, Associative
<1>4. l = ((p \o A) \o B) \o q
  BY <1>1, <1>2, <1>3, Regrouped
<1>6. Len(p \o A) = Len(p) + 1 /\ Len(p) \in Nat
  BY <1>1, Lengths
<1>7. List!Place(l, a) = Len(p) + 1
  <2> DEFINE y == B \o q
  <2>1. y \in Seq(Nodes)
    BY <1>3
  <2> HIDE DEF y
  <2>2. l = (p \o <<a>>) \o y
    BY <1>2 DEF A, y
  <2>3. Distinct((p \o <<a>>) \o y)
    BY <2>2
  <2>4. List!Place((p \o <<a>>) \o y, a) = Len(p) + 1
    BY <2>1, <2>3, PlaceInSplit
  <2> QED BY <2>2, <2>4
<1>8. List!Place(l, b) = Len(p) + 2
  <2> DEFINE x == p \o A
  <2>1. x \in Seq(Nodes) /\ Len(x) = Len(p) + 1
    BY <1>3, <1>6
  <2> HIDE DEF x
  <2>2. l = (x \o <<b>>) \o q
    BY <1>4 DEF B, x
  <2>3. Distinct((x \o <<b>>) \o q)
    BY <2>2
  <2>4. List!Place((x \o <<b>>) \o q, b) = Len(x) + 1
    BY <2>1, <2>3, PlaceInSplit
  <2>5. List!Place(l, b) = Len(x) + 1
    BY <2>2, <2>4
  <2> QED BY <1>6, <2>1, <2>5
<1> QED BY <1>7, <1>8

\* After the first of two neighbours is before the second,
LEMMA InsertBetween ==
  ASSUME NEW p \in Seq(Nodes), NEW a \in Nodes, NEW b \in Nodes, NEW q \in Seq(Nodes),
         NEW l, Neighbours(l, p, a, b, q), Distinct(l), NEW n \in Nodes
  PROVE  List!After(l, a, n) = List!Before(l, b, n)
<1>1. /\ List!Place(l, a) = Len(p) + 1 /\ List!Place(l, b) = Len(p) + 2 /\ Len(p) \in Nat
  BY PlacesInSplit, LenProperties
<1>2. List!Place(l, a) + 1 = List!Place(l, b)
  <2> DEFINE x == List!Place(l, a)
             y == List!Place(l, b)
             k == Len(p)
  <2>1. x = k + 1 /\ y = k + 2 /\ k \in Nat
    BY <1>1
  <2> HIDE DEF x, y, k
  <2>2. x + 1 = y
    BY <2>1
  <2> QED BY <2>2 DEF x, y
<1> QED BY <1>2 DEF List!After, List!Before

\* after the last node is at the end,
LEMMA InsertLast ==
  ASSUME NEW p \in Seq(Nodes), NEW a \in Nodes, NEW l, l = p \o <<a>>, Distinct(l), NEW n \in Nodes
  PROVE  List!After(l, a, n) = Append(l, n)
<1>1. <<a>> \in Seq(Nodes) /\ Len(<<a>>) = 1 /\ <<n>> \in Seq(Nodes) /\ <<>> \in Seq(Nodes)
  BY SingleSequence, NoElements
<1>2. l \in Seq(Nodes) /\ Len(l) = Len(p) + 1 /\ Len(p) \in Nat
  BY <1>1, Lengths
<1>3. l \o <<>> = l
  BY <1>2, ConcatEmptySeq
<1>4. List!Place(l, a) = Len(p) + 1
  <2>1. (p \o <<a>>) \o <<>> = l
    BY <1>3
  <2>2. Distinct((p \o <<a>>) \o <<>>)
    BY <2>1
  <2>3. List!Place((p \o <<a>>) \o <<>>, a) = Len(p) + 1
    BY <1>1, <2>2, PlaceInSplit
  <2> QED BY <2>1, <2>3
<1>5. List!InsertAt(l, Len(l) + 1, n) = Append(l, n)
  <2>1. List!InsertAt(l \o <<>>, Len(l) + 1, n) = (l \o <<n>>) \o <<>>
    BY <1>1, <1>2, InsertAtSplit
  <2>2. (l \o <<n>>) \o <<>> = l \o <<n>>
    <3>1. l \o <<n>> \in Seq(Nodes)
      BY <1>1, <1>2, Associative
    <3> QED BY <3>1, ConcatEmptySeq
  <2>3. Append(l, n) = l \o <<n>>
    BY <1>2, AppendIsConcat
  <2> QED BY <1>3, <2>1, <2>2, <2>3
<1>6. List!Place(l, a) + 1 = Len(l) + 1
  BY <1>2, <1>4
<1> QED BY <1>5, <1>6 DEF List!After

\* and before the first node at the front.
LEMMA InsertFirst ==
  ASSUME NEW q \in Seq(Nodes), NEW a \in Nodes, NEW l, l = <<a>> \o q, Distinct(l), NEW n \in Nodes
  PROVE  List!Before(l, a, n) = <<n>> \o l
<1>1. <<a>> \in Seq(Nodes) /\ <<n>> \in Seq(Nodes) /\ <<>> \in Seq(Nodes) /\ Len(<<>>) = 0
  BY SingleSequence, NoElements
<1>2. l \in Seq(Nodes) /\ <<>> \o l = l /\ <<>> \o <<a>> = <<a>> /\ <<>> \o <<n>> = <<n>>
  BY <1>1, Associative, ConcatEmptySeq
<1>3. List!Place(l, a) = 0 + 1
  <2>1. (<<>> \o <<a>>) \o q = l
    BY <1>2
  <2>2. Distinct((<<>> \o <<a>>) \o q)
    BY <2>1
  <2>3. List!Place((<<>> \o <<a>>) \o q, a) = Len(<<>>) + 1
    BY <1>1, <2>2, PlaceInSplit
  <2> QED BY <1>1, <2>1, <2>3
<1>4. List!InsertAt(<<>> \o l, Len(<<>>) + 1, n) = (<<>> \o <<n>>) \o l
  BY <1>1, <1>2, InsertAtSplit
<1> QED BY <1>1, <1>2, <1>3, <1>4 DEF List!Before

-----------------------------------------------------------------------------
(* The ends of the searches *)

\* A node put right of the predecessor is put before the target,
LEMMA BeforeInserts ==
  ASSUME NEW h \in Heap, NEW M, NEW sub, Tree(h, M, sub), NEW n \in M,
         NEW m \in NodeOrNull, JustBefore(h, n, m), h.child[n][1] = NULL, NEW ins \in Nodes
  PROVE  List!After(InOrder(h), n, ins)
           = IF m = NULL THEN Append(InOrder(h), ins) ELSE List!Before(InOrder(h), m, ins)
<1> DEFINE l == InOrder(h)
<1>1. PICK p \in Seq(Nodes), v \in Seq(Nodes) :
        l = (p \o <<n>>) \o (One(m) \o v) /\ (m = NULL => v = <<>>)
  BY BeforeEnd
<1>2. Distinct(l) /\ l \in Seq(Nodes) /\ n \in Nodes
  BY OrderFacts DEF Tree
<1> HIDE DEF l
<1>3. CASE m = NULL
  <2>1. l = p \o <<n>>
    <3>1. One(m) \o v = <<>>
      BY <1>1, <1>3, NoElements, ConcatEmptySeq DEF One
    <3>2. p \o <<n>> \in Seq(Nodes)
      BY <1>2, SingleSequence, Associative
    <3>3. (p \o <<n>>) \o <<>> = p \o <<n>>
      BY <3>2, ConcatEmptySeq
    <3> QED BY <1>1, <3>1, <3>3
  <2>2. List!After(l, n, ins) = Append(l, ins)
    BY <1>2, <2>1, InsertLast
  <2> QED BY <1>3, <2>2 DEF l
<1>4. CASE m # NULL
  <2>1. m \in Nodes /\ l = (p \o <<n>>) \o (<<m>> \o v)
    BY <1>1, <1>4 DEF NodeOrNull, One
  <2>2. List!After(l, n, ins) = List!Before(l, m, ins)
    <3>1. /\ Neighbours(l, p, n, m, v) /\ Distinct(l)
          /\ p \in Seq(Nodes) /\ v \in Seq(Nodes) /\ m \in Nodes /\ n \in Nodes
      BY <1>2, <2>1 DEF Neighbours
    <3> QED BY <3>1, InsertBetween
  <2> QED BY <1>4, <2>2 DEF l
<1> QED BY <1>3, <1>4

\* and one put left of the successor after it.
LEMMA AfterInserts ==
  ASSUME NEW h \in Heap, NEW M, NEW sub, Tree(h, M, sub), NEW n \in M,
         NEW m \in NodeOrNull, JustAfter(h, n, m), h.child[n][0] = NULL, NEW ins \in Nodes
  PROVE  List!Before(InOrder(h), n, ins)
           = IF m = NULL THEN <<ins>> \o InOrder(h) ELSE List!After(InOrder(h), m, ins)
<1> DEFINE l == InOrder(h)
<1>1. PICK u \in Seq(Nodes), q \in Seq(Nodes) :
        l = (u \o One(m)) \o (<<n>> \o q) /\ (m = NULL => u = <<>>)
  BY AfterEnd
<1>2. Distinct(l) /\ l \in Seq(Nodes) /\ n \in Nodes
  BY OrderFacts DEF Tree
<1> HIDE DEF l
<1>3. CASE m = NULL
  <2>1. l = <<n>> \o q
    <3>1. u \o One(m) = <<>>
      BY <1>1, <1>3, NoElements, ConcatEmptySeq DEF One
    <3>2. <<n>> \o q \in Seq(Nodes)
      BY <1>2, SingleSequence, Associative
    <3>3. <<>> \o (<<n>> \o q) = <<n>> \o q
      BY <3>2, ConcatEmptySeq
    <3> QED BY <1>1, <3>1, <3>3
  <2>2. List!Before(l, n, ins) = <<ins>> \o l
    BY <1>2, <2>1, InsertFirst
  <2> QED BY <1>3, <2>2 DEF l
<1>4. CASE m # NULL
  <2>1. m \in Nodes /\ l = (u \o <<m>>) \o (<<n>> \o q)
    BY <1>1, <1>4 DEF NodeOrNull, One
  <2>2. List!After(l, m, ins) = List!Before(l, n, ins)
    <3>1. /\ Neighbours(l, u, m, n, q) /\ Distinct(l)
          /\ u \in Seq(Nodes) /\ q \in Seq(Nodes) /\ m \in Nodes /\ n \in Nodes
      BY <1>2, <2>1 DEF Neighbours
    <3> QED BY <3>1, InsertBetween
  <2> QED BY <1>4, <2>2 DEF l
<1> QED BY <1>3, <1>4

\* Of two neighbours that exchange their places, either the one that is then
\* the first or the one that was the second is taken out.
LEMMA RemoveExchanged ==
  ASSUME NEW p \in Seq(Nodes), NEW a \in Nodes, NEW b \in Nodes, NEW q \in Seq(Nodes),
         NEW l, Neighbours(l, p, b, a, q), Distinct(l),
         NEW l2, Neighbours(l2, p, a, b, q), Distinct(l2)
  PROVE  List!RemoveAt(l2, List!Place(l2, a)) = List!RemoveAt(l, List!Place(l, a))
<1> DEFINE A == <<a>>
           B == <<b>>
<1>1. A \in Seq(Nodes) /\ B \in Seq(Nodes)
  BY SingleSequence
<1>2. List!Place(l2, a) = Len(p) + 1
  BY PlacesInSplit
<1>3. /\ List!Place(l, a) = Len(p) + 2 /\ Len(p) \in Nat /\ Len(p \o B) = Len(p) + 1
      /\ l = ((p \o B) \o A) \o q
  <2>1. List!Place(l, a) = Len(p) + 2
    BY PlacesInSplit
  <2>2. l = (p \o B) \o (A \o q) /\ Len(B) = 1
    BY SingleSequence DEF Neighbours
  <2> HIDE DEF A, B
  <2>3. p \o B \in Seq(Nodes)
    BY <1>1, Associative
  <2>4. l = ((p \o B) \o A) \o q
    BY <1>1, <2>2, <2>3, Regrouped
  <2>5. Len(p \o B) = Len(p) + 1 /\ Len(p) \in Nat
    BY <1>1, <2>2, Lengths
  <2> QED BY <2>1, <2>4, <2>5
<1>4. l2 = (p \o A) \o (B \o q)
  BY DEF Neighbours
<1> DEFINE x == p \o B
           y == B \o q
<1>5. x \in Seq(Nodes) /\ y \in Seq(Nodes) /\ x \o q = p \o y
  BY <1>1, Associative
<1>6. l = (x \o <<a>>) \o q /\ l2 = (p \o <<a>>) \o y /\ Len(x) = Len(p) + 1
  BY <1>3, <1>4
<1> HIDE DEF x, y, A, B
<1>7. List!RemoveAt(l, Len(x) + 1) = x \o q
  BY <1>5, <1>6, RemoveAtSplit
<1>8. List!RemoveAt(l2, Len(p) + 1) = p \o y
  BY <1>5, <1>6, RemoveAtSplit
<1>9. List!Place(l, a) = Len(x) + 1
  <2> DEFINE z == List!Place(l, a)
             k == Len(p)
             j == Len(x)
  <2>1. z = k + 2 /\ k \in Nat /\ j = k + 1
    BY <1>3, <1>6
  <2> HIDE DEF z, k, j
  <2>2. z = j + 1
    BY <2>1
  <2> QED BY <2>2 DEF z, j
<1> QED BY <1>2, <1>5, <1>7, <1>8, <1>9

-----------------------------------------------------------------------------
(* The steps of the list *)

\* The node that a search is for; NULL is the end, or the front.
Target(r) == IF r.op = "erase" THEN r.node ELSE r.at

\* At every pass of a search the subtree of the node it is at is beside the node
\* it is for.
SearchOrder ==
  pc = "search" =>
    \/ /\ side = 1 /\ req.op \in {"erase", "insert_before"}
       /\ JustBefore(t, cur, Target(req))
    \/ /\ side = 0 /\ req.op = "insert_after"
       /\ JustAfter(t, cur, Target(req))

\* The list has the nodes of the tree.
LEMMA ListElements ==
  ASSUME Inv
  PROVE  /\ List!Elements = members
         /\ members \in SUBSET Nodes
         /\ t.root = NULL => InOrder(t) = <<>>
<1>1. PICK sub : Tree(t, members, sub)
  BY TreeAlways
<1>2. t \in Heap
  BY TreeAlways
<1>3. Elements(InOrder(t)) = members /\ (t.root = NULL => InOrder(t) = <<>>)
  BY <1>1, <1>2, OrderFacts
<1>4. List!Elements = Elements(InOrder(t))
  BY DEF List!Elements, List!ToSet, Elements
<1> QED BY <1>1, <1>3, <1>4 DEF Tree

\* Nothing happens to it,
LEMMA StaysStep ==
  ASSUME InOrder(t') = InOrder(t), req' = req, pc = "search" <=> pc' = "search"
  PROVE  UNCHANGED List!vars
BY DEF List!vars

\* a call takes effect at once,
LEMMA DoStep ==
  ASSUME pc # "search", pc' # "search", req' \in Request, List!Legal(req'),
         InOrder(t') = List!Result(InOrder(t), req')
  PROVE  List!Next
BY DEF List!Next, List!Do

\* a search begins,
LEMMA BeginStep ==
  ASSUME pc # "search", pc' = "search", req' \in Request, List!Legal(req'),
         InOrder(t') = InOrder(t)
  PROVE  List!Next
BY DEF List!Next, List!Begin

\* or its call takes effect when it has ended.
LEMMA FinishStep ==
  ASSUME pc = "search", pc' # "search", req' = req,
         InOrder(t') = List!Result(InOrder(t), req)
  PROVE  List!Next
BY DEF List!Next, List!Finish

\* The arguments of a call.
LEMMA CallFacts ==
  ASSUME NEW op, NEW at, NEW i, NEW n, NEW r, r = Call(op, at, i, n)
  PROVE  r.op = op /\ r.at = at /\ r.i = i /\ r.node = n
BY DEF Call

-----------------------------------------------------------------------------
(* Insertion *)

\* A node below a leaf is before it or after it.
LEMMA LeafOrder ==
  ASSUME t \in Heap, members \in SUBSET Nodes, NEW sub, NEW bh,
         RedBlack(t, members, sub, bh, NULL, NULL, 0),
         NEW leaf \in members, NEW i \in Side, t.child[leaf][i] = NULL,
         NEW ins \in Nodes \ members, InsertUnderLeafNode(leaf, i, ins)
  PROVE  /\ InOrder(t') = IF i = 0 THEN List!Before(InOrder(t), leaf, ins)
                                   ELSE List!After(InOrder(t), leaf, ins)
         /\ pc' = "insertNormalise"
<1> DEFINE l == InOrder(t)
           g == LinkLeaf(t, leaf, i, ins)
<1>1. t' = g /\ pc' = "insertNormalise"
  BY DEF InsertUnderLeafNode, Loop
<1>2. InOrder(g) = List!InsertAt(l, List!Place(l, leaf) + i, ins)
  BY LinkLeafOrder
<1>3. List!Place(l, leaf) \in Int
  <2>1. Tree(t, members, sub)
    BY DEF RedBlack
  <2>2. l \in Seq(Nodes) /\ Distinct(l) /\ Elements(l) = members
    BY <2>1, OrderFacts
  <2> HIDE DEF l
  <2>3. PICK j \in DOMAIN l : l[j] = leaf
    BY <2>2 DEF Elements
  <2>4. List!Place(l, leaf) = j
    BY <2>2, <2>3, PlaceIs
  <2> QED BY <2>2, <2>4, LenProperties
<1> HIDE DEF l, g
<1>4. CASE i = 0
  <2>1. List!Place(l, leaf) + i = List!Place(l, leaf)
    BY <1>3, <1>4
  <2> QED BY <1>1, <1>2, <1>4, <2>1 DEF List!Before, l
<1>5. CASE i = 1
  BY <1>1, <1>2, <1>5 DEF List!After, l
<1> QED BY <1>4, <1>5 DEF Side

\* The first node.
LEMMA FirstOrder ==
  ASSUME Inv, t.root = NULL, NEW ins \in Nodes, InsertRootNode(ins)
  PROVE  InOrder(t) = <<>> /\ InOrder(t') = <<ins>> /\ pc' = "idle"
<1>1. t' = RootOnly(t, ins) /\ pc' = "idle"
  BY DEF InsertRootNode, Return
<1>2. t \in Heap
  BY TreeAlways
<1>3. InOrder(RootOnly(t, ins)) = <<ins>>
  BY <1>2, RootOnlyOrder
<1> QED BY <1>1, <1>3, ListElements

\* insert_root.
LEMMA InsertRootStep ==
  ASSUME Inv, Inv', NEW ins \in Nodes \ members, InsertRoot(ins)
  PROVE  List!Next /\ SearchOrder'
<1>1. /\ pc = "idle" /\ t.root = NULL /\ InsertRootNode(ins)
      /\ req' = Call("insert_root", NULL, 0, ins) /\ req' \in Request
  BY DEF InsertRoot, Inv, TypeOK
<1>2. InOrder(t) = <<>> /\ InOrder(t') = <<ins>> /\ pc' = "idle"
  BY <1>1, FirstOrder
<1>3. req'.op = "insert_root" /\ req'.node = ins
  BY <1>1, CallFacts
<1>4. List!Legal(req')
  BY <1>2, <1>3 DEF List!Legal
<1>5. List!Result(InOrder(t), req') = <<ins>>
  BY <1>3 DEF List!Result
<1>6. List!Next
  BY <1>1, <1>2, <1>4, <1>5, DoStep
<1> QED BY <1>2, <1>6 DEF SearchOrder

\* insert_leaf_node.
LEMMA InsertLeafNodeStep ==
  ASSUME Inv, Inv', NEW ins \in Nodes \ members, NEW at \in members, NEW i \in Side,
         InsertLeafNode(at, i, ins)
  PROVE  List!Next /\ SearchOrder'
<1>1. /\ pc = "idle" /\ t.child[at][i] = NULL /\ InsertUnderLeafNode(at, i, ins)
      /\ req' = Call("insert_leaf_node", at, i, ins) /\ req' \in Request
  BY DEF InsertLeafNode, Inv, TypeOK
<1>2. req'.op = "insert_leaf_node" /\ req'.at = at /\ req'.i = i /\ req'.node = ins
  BY <1>1, CallFacts
<1>3. PICK sub, bh : RedBlack(t, members, sub, bh, NULL, NULL, 0)
  BY <1>1, IdleFacts
<1>4. t \in Heap /\ members \in SUBSET Nodes
  BY <1>1, IdleFacts
<1>5. /\ InOrder(t') = IF i = 0 THEN List!Before(InOrder(t), at, ins)
                                ELSE List!After(InOrder(t), at, ins)
      /\ pc' = "insertNormalise"
  BY <1>1, <1>3, <1>4, LeafOrder
<1>6. List!Legal(req')
  BY <1>2, ListElements DEF List!Legal
<1>7. List!Result(InOrder(t), req') = InOrder(t')
  BY <1>2, <1>5 DEF List!Result
<1>8. List!Next
  BY <1>1, <1>5, <1>6, <1>7, DoStep
<1> QED BY <1>5, <1>8 DEF SearchOrder

\* The calls of insert_before and insert_after.
BesideCall(k, r, at, ins) ==
  /\ r.op = IF k = 0 THEN "insert_before" ELSE "insert_after"
  /\ r.at = at /\ r.node = ins

BesideResult(l, k, at, ins) ==
  IF k = 0 THEN IF at = NULL THEN Append(l, ins) ELSE List!Before(l, at, ins)
           ELSE IF at = NULL THEN <<ins>> \o l ELSE List!After(l, at, ins)

\* They are legal, and what the list says of them.
LEMMA BesideCallFacts ==
  ASSUME Inv, NEW k \in Side, NEW at \in members \cup {NULL}, NEW ins \in Nodes \ members,
         NEW r, BesideCall(k, r, at, ins)
  PROVE  /\ List!Legal(r) /\ Target(r) = at /\ r.op # "erase"
         /\ \A l : List!Result(l, r) = BesideResult(l, k, at, ins)
<1>1. CASE k = 0
  <2>1. r.op = "insert_before" /\ r.at = at /\ r.node = ins
    BY <1>1 DEF BesideCall
  <2>2. List!Legal(r) /\ Target(r) = at
    BY <2>1, ListElements DEF List!Legal, Target
  <2>3. \A l : List!Result(l, r) = IF at = NULL THEN Append(l, ins) ELSE List!Before(l, at, ins)
    BY <2>1 DEF List!Result
  <2> QED BY <1>1, <2>1, <2>2, <2>3 DEF BesideResult
<1>2. CASE k = 1
  <2>1. r.op = "insert_after" /\ r.at = at /\ r.node = ins
    BY <1>2 DEF BesideCall
  <2>2. List!Legal(r) /\ Target(r) = at
    BY <2>1, ListElements DEF List!Legal, Target
  <2>3. \A l : List!Result(l, r) = IF at = NULL THEN <<ins>> \o l ELSE List!After(l, at, ins)
    BY <2>1 DEF List!Result
  <2> QED BY <1>2, <2>1, <2>2, <2>3 DEF BesideResult
<1> QED BY <1>1, <1>2 DEF Side

\* A search for their place begins.
LEMMA BesideSearchStep ==
  ASSUME Inv, Inv', pc = "idle", NEW k \in Side, NEW at \in members \cup {NULL},
         NEW ins \in Nodes \ members, BesideCall(k, req', at, ins),
         NEW n, Search(n, Opp(k)),
         IF k = 0 THEN JustBefore(t, n, at) ELSE JustAfter(t, n, at)
  PROVE  List!Next /\ SearchOrder'
<1>1. t' = t /\ pc' = "search" /\ cur' = n /\ side' = Opp(k) /\ req' \in Request
  BY DEF Search, Loop, Inv, TypeOK
<1>2. List!Legal(req') /\ Target(req') = at
  BY BesideCallFacts
<1>3. List!Next
  BY <1>1, <1>2, BeginStep
<1>4. CASE k = 0
  <2>1. req'.op = "insert_before" /\ side' = 1 /\ JustBefore(t', cur', Target(req'))
    BY <1>1, <1>2, <1>4 DEF BesideCall, Opp
  <2> QED BY <1>3, <2>1 DEF SearchOrder
<1>5. CASE k = 1
  <2>1. req'.op = "insert_after" /\ side' = 0 /\ JustAfter(t', cur', Target(req'))
    BY <1>1, <1>2, <1>5 DEF BesideCall, Opp
  <2> QED BY <1>3, <2>1 DEF SearchOrder
<1> QED BY <1>4, <1>5 DEF Side

\* insert_before and insert_after of a node.
LEMMA InsertBesideStep ==
  ASSUME Inv, Inv', pc = "idle", NEW k \in Side, NEW at \in members,
         NEW ins \in Nodes \ members, BesideCall(k, req', at, ins), InsertBeside(k, at, ins)
  PROVE  List!Next /\ SearchOrder'
<1>1. req' \in Request /\ at \in members \cup {NULL} /\ at # NULL
  BY ListElements, NullNotNode DEF Inv, TypeOK
<1>2. PICK sub, bh : RedBlack(t, members, sub, bh, NULL, NULL, 0)
  BY IdleFacts
<1>3. t \in Heap /\ members \in SUBSET Nodes
  BY IdleFacts
<1>4. CASE t.child[at][k] = NULL
  <2>1. InsertUnderLeafNode(at, k, ins)
    BY <1>4 DEF InsertBeside
  <2>2. /\ InOrder(t') = IF k = 0 THEN List!Before(InOrder(t), at, ins)
                                  ELSE List!After(InOrder(t), at, ins)
        /\ pc' = "insertNormalise"
    BY <1>2, <1>3, <1>4, <2>1, LeafOrder
  <2>3. List!Legal(req')
    BY <1>1, BesideCallFacts
  <2>4. List!Result(InOrder(t), req') = InOrder(t')
    <3>1. \A l : List!Result(l, req') = BesideResult(l, k, at, ins)
      BY <1>1, BesideCallFacts
    <3> QED BY <1>1, <2>2, <3>1 DEF BesideResult
  <2>5. List!Next
    BY <1>1, <2>2, <2>3, <2>4, DoStep
  <2> QED BY <2>2, <2>5 DEF SearchOrder
<1>5. CASE t.child[at][k] # NULL
  <2>1. Search(t.child[at][k], Opp(k))
    BY <1>5 DEF InsertBeside
  <2>2. JustBefore(t, t.child[at][0], at) /\ JustAfter(t, t.child[at][1], at)
    BY <1>2, <1>3, BesideStart DEF RedBlack
  <2>3. IF k = 0 THEN JustBefore(t, t.child[at][k], at) ELSE JustAfter(t, t.child[at][k], at)
    BY <2>2 DEF Side
  <2> QED BY <1>1, <2>1, <2>3, BesideSearchStep
<1> QED BY <1>4, <1>5

\* insert_before(end()) and insert_after(end()).
LEMMA InsertAtEndStep ==
  ASSUME Inv, Inv', pc = "idle", NEW k \in Side, NEW ins \in Nodes \ members,
         BesideCall(k, req', NULL, ins),
         IF t.root = NULL THEN InsertRootNode(ins) ELSE Search(t.root, Opp(k))
  PROVE  List!Next /\ SearchOrder'
<1>1. req' \in Request /\ NULL \in members \cup {NULL}
  BY DEF Inv, TypeOK
<1>2. CASE t.root = NULL
  <2>1. InOrder(t) = <<>> /\ InOrder(t') = <<ins>> /\ pc' = "idle"
    BY <1>2, FirstOrder
  <2>2. List!Legal(req')
    BY <1>1, BesideCallFacts
  <2>3. List!Result(<<>>, req') = <<ins>>
    <3>1. \A l : List!Result(l, req') = BesideResult(l, k, NULL, ins)
      BY <1>1, BesideCallFacts
    <3>2. Append(<<>>, ins) = <<ins>> /\ <<ins>> \o <<>> = <<ins>>
      <4>1. <<ins>> \in Seq(Nodes) /\ <<>> \in Seq(Nodes)
        BY SingleSequence, NoElements
      <4>2. Append(<<>>, ins) = <<>> \o <<ins>>
        BY <4>1, AppendIsConcat
      <4> QED BY <4>1, <4>2, ConcatEmptySeq
    <3> QED BY <3>1, <3>2 DEF BesideResult
  <2>4. List!Next
    BY <1>1, <2>1, <2>2, <2>3, DoStep
  <2> QED BY <2>1, <2>4 DEF SearchOrder
<1>3. CASE t.root # NULL
  <2>1. PICK sub : Tree(t, members, sub)
    BY TreeAlways
  <2>2. t \in Heap
    BY TreeAlways
  <2>3. JustBefore(t, t.root, NULL) /\ JustAfter(t, t.root, NULL)
    BY <2>1, <2>2, RootStart
  <2> QED BY <1>1, <1>3, <2>3, BesideSearchStep
<1> QED BY <1>2, <1>3

\* A search takes a step.
LEMMA SearchPassStep ==
  ASSUME Inv, SearchOrder, SearchPass
  PROVE  UNCHANGED List!vars /\ SearchOrder'
<1>1. /\ pc = "search" /\ pc' = "search" /\ t' = t /\ side' = side /\ req' = req
      /\ cur' = t.child[cur][side]
  BY DEF SearchPass
<1>2. PICK sub \in [Nodes -> SUBSET Nodes], bh \in [Nodes -> Nat] : SearchInv(sub, bh)
  BY <1>1 DEF Inv, LoopInv
<1>3. /\ t \in Heap /\ Tree(t, members, sub) /\ cur \in members /\ req \in Request
  BY <1>2 DEF Inv, TypeOK, SearchInv, RedBlack
<1>4. Target(req) \in NodeOrNull
  BY <1>3 DEF Target, Request
<1>5. UNCHANGED List!vars
  BY <1>1, StaysStep
<1>6. CASE side = 1 /\ req.op \in {"erase", "insert_before"} /\ JustBefore(t, cur, Target(req))
  <2>1. JustBefore(t, t.child[cur][1], Target(req))
    BY <1>3, <1>4, <1>6, BeforeStep
  <2>2. side' = 1 /\ req'.op \in {"erase", "insert_before"} /\ JustBefore(t', cur', Target(req'))
    BY <1>1, <1>6, <2>1
  <2> QED BY <1>5, <2>2 DEF SearchOrder
<1>7. CASE side = 0 /\ req.op = "insert_after" /\ JustAfter(t, cur, Target(req))
  <2>1. JustAfter(t, t.child[cur][0], Target(req))
    BY <1>3, <1>4, <1>7, AfterStep
  <2>2. side' = 0 /\ req'.op = "insert_after" /\ JustAfter(t', cur', Target(req'))
    BY <1>1, <1>7, <2>1
  <2> QED BY <1>5, <2>2 DEF SearchOrder
<1> QED BY <1>1, <1>6, <1>7 DEF SearchOrder

\* It ends and the node is put where the call said.
LEMMA SearchInsertStep ==
  ASSUME Inv, SearchOrder, SearchInsert
  PROVE  List!Next /\ SearchOrder'
<1> DEFINE l == InOrder(t)
           m == Target(req)
           ins == req.node
<1>1. /\ pc = "search" /\ req.op # "erase" /\ req' = req
      /\ t.child[cur][side] = NULL
      /\ InsertUnderLeafNode(cur, side, ins)
  BY DEF SearchInsert
<1>2. PICK sub \in [Nodes -> SUBSET Nodes], bh \in [Nodes -> Nat] : SearchInv(sub, bh)
  BY <1>1 DEF Inv, LoopInv
<1>3. /\ t \in Heap /\ members \in SUBSET Nodes /\ side \in Side /\ req \in Request
      /\ cur \in members /\ ins \in Nodes \ members
      /\ RedBlack(t, members, sub, bh, NULL, NULL, 0) /\ Tree(t, members, sub)
  BY <1>1, <1>2 DEF Inv, TypeOK, SearchInv, Erasing, RedBlack
<1>4. m \in NodeOrNull /\ m = req.at
  BY <1>1, <1>3 DEF Target, Request
<1>5. /\ InOrder(t') = IF side = 0 THEN List!Before(InOrder(t), cur, ins)
                                   ELSE List!After(InOrder(t), cur, ins)
      /\ pc' = "insertNormalise"
  <2> HIDE DEF ins
  <2> QED BY <1>1, <1>3, LeafOrder
<1>6. CASE side = 1 /\ req.op \in {"erase", "insert_before"} /\ JustBefore(t, cur, m)
  <2>1. req.op = "insert_before" /\ t.child[cur][1] = NULL
    BY <1>1, <1>6
  <2>2. List!After(l, cur, ins) = IF m = NULL THEN Append(l, ins) ELSE List!Before(l, m, ins)
    <3> HIDE DEF m, ins
    <3> QED BY <1>3, <1>4, <1>6, <2>1, BeforeInserts
  <2>3. List!Result(l, req) = IF m = NULL THEN Append(l, ins) ELSE List!Before(l, m, ins)
    BY <1>4, <2>1 DEF List!Result
  <2>4. InOrder(t') = List!Result(l, req)
    BY <1>5, <1>6, <2>2, <2>3
  <2>5. List!Next
    BY <1>1, <1>5, <2>4, FinishStep
  <2> QED BY <1>5, <2>5 DEF SearchOrder
<1>7. CASE side = 0 /\ req.op = "insert_after" /\ JustAfter(t, cur, m)
  <2>1. t.child[cur][0] = NULL
    BY <1>1, <1>7
  <2>2. List!Before(l, cur, ins) = IF m = NULL THEN <<ins>> \o l ELSE List!After(l, m, ins)
    <3> HIDE DEF m, ins
    <3> QED BY <1>3, <1>4, <1>7, <2>1, AfterInserts
  <2>3. List!Result(l, req) = IF m = NULL THEN <<ins>> \o l ELSE List!After(l, m, ins)
    BY <1>4, <1>7 DEF List!Result
  <2>4. InOrder(t') = List!Result(l, req)
    BY <1>5, <1>7, <2>2, <2>3
  <2>5. List!Next
    BY <1>1, <1>5, <2>4, FinishStep
  <2> QED BY <1>5, <2>5 DEF SearchOrder
<1> QED BY <1>1, <1>6, <1>7 DEF SearchOrder

-----------------------------------------------------------------------------
(* Erasure and clear() *)

\* The list does not depend on the size.
LEMMA ShrinkOrder ==
  ASSUME NEW h \in Heap, NEW M, NEW sub, Tree(h, M, sub), NEW g, Shrink(h) = g
  PROVE  InOrder(g) = InOrder(h) /\ InOrderBelow(g) = InOrderBelow(h)
<1>1. g \in Heap /\ g.root = h.root /\ g.parent = h.parent /\ g.child = h.child
  BY DEF Shrink, Heap
<1>2. InOrder(g) = InOrder(h)
  BY <1>1, SameOrder
<1>3. InOrderBelow(g) = InOrderBelow(h)
  BY <1>1 DEF InOrderBelow
<1> QED BY <1>2, <1>3

\* The node has at most one child.
LEMMA EraseDeg1Step ==
  ASSUME Inv, Inv', NEW n \in members, EraseDeg1(n)
  PROVE  List!Next /\ SearchOrder'
<1> DEFINE h == Shrink(t)
           l == InOrder(t)
<1>1. /\ pc = "idle" /\ ~ IsDeg2(t, n) /\ Unlink(h, n)
      /\ req' = Call("erase", NULL, 0, n) /\ req' \in Request
  BY DEF EraseDeg1, Inv, TypeOK
<1>2. PICK sub, bh : RedBlack(t, members, sub, bh, NULL, NULL, 0)
  BY <1>1, IdleFacts
<1>3. t \in Heap
  BY <1>1, IdleFacts
<1>4. h \in Heap /\ h.child = t.child /\ RedBlack(h, members, sub, bh, NULL, NULL, 0)
  BY <1>2, <1>3, ShrinkRedBlack
<1>5. ~ IsDeg2(h, n)
  BY <1>1, <1>4 DEF IsDeg2
<1>6. InOrder(h) = l
  BY <1>2, <1>3, ShrinkOrder DEF RedBlack
<1>7. pc' # "search"
  BY <1>1 DEF Unlink, Return, Loop
<1> HIDE DEF h, l
<1>8. InOrder(t') = List!RemoveAt(InOrder(h), List!Place(InOrder(h), n))
  BY <1>1, <1>4, <1>5, UnlinkOrder
<1>9. req'.op = "erase" /\ req'.node = n
  BY <1>1, CallFacts
<1>10. List!Legal(req')
  BY <1>9, ListElements DEF List!Legal
<1>11. List!Result(InOrder(t), req') = List!RemoveAt(l, List!Place(l, n))
  BY <1>9 DEF List!Result, l
<1>12. List!Next
  BY <1>1, <1>6, <1>7, <1>8, <1>10, <1>11, DoStep
<1> QED BY <1>7, <1>12 DEF SearchOrder

\* It has two, and the search for its predecessor begins.
LEMMA EraseDeg2Step ==
  ASSUME Inv, Inv', NEW n \in members, EraseDeg2(n)
  PROVE  List!Next /\ SearchOrder'
<1>1. /\ pc = "idle" /\ req' = Call("erase", NULL, 0, n) /\ req' \in Request
      /\ t' = Shrink(t) /\ pc' = "search" /\ cur' = t.child[n][0] /\ side' = 1
  BY DEF EraseDeg2, Loop, Inv, TypeOK
<1>2. PICK sub, bh : RedBlack(t, members, sub, bh, NULL, NULL, 0)
  BY <1>1, IdleFacts
<1>3. t \in Heap /\ Tree(t, members, sub)
  BY <1>1, <1>2, IdleFacts DEF RedBlack
<1>4. InOrder(t') = InOrder(t) /\ InOrderBelow(t') = InOrderBelow(t)
  BY <1>1, <1>3, ShrinkOrder
<1>5. req'.op = "erase" /\ req'.node = n
  BY <1>1, CallFacts
<1>6. List!Legal(req')
  BY <1>5, ListElements DEF List!Legal
<1>7. List!Next
  BY <1>1, <1>4, <1>6, BeginStep
<1>8. JustBefore(t, t.child[n][0], n)
  BY <1>3, BesideStart
<1>9. JustBefore(t', t.child[n][0], n)
  BY <1>4, <1>8 DEF JustBefore
<1>10. Target(req') = n
  BY <1>5 DEF Target
<1>11. JustBefore(t', cur', Target(req'))
  BY <1>1, <1>9, <1>10
<1> QED BY <1>1, <1>5, <1>7, <1>11 DEF SearchOrder

\* The predecessor is found, exchanged with the node, and the node taken out.
LEMMA SearchEraseStep ==
  ASSUME Inv, SearchOrder, SearchErase
  PROVE  List!Next /\ SearchOrder'
<1> DEFINE a == req.node
           h == SwapNode(t, a, cur)
           l == InOrder(t)
<1>1. /\ pc = "search" /\ Erasing /\ req.op = "erase" /\ t.child[cur][side] = NULL
      /\ Unlink(h, a) /\ req' = req
  BY DEF SearchErase, Erasing
<1>2. PICK sub \in [Nodes -> SUBSET Nodes], bh \in [Nodes -> Nat] : SearchInv(sub, bh)
  BY <1>1 DEF Inv, LoopInv
<1>3. /\ t \in Heap /\ members \in SUBSET Nodes
      /\ RedBlack(t, members, sub, bh, NULL, NULL, 0) /\ Tree(t, members, sub)
      /\ cur \in members /\ a \in members /\ IsDeg2(t, a)
      /\ cur \in sub[t.child[a][0]] /\ side = 1
  BY <1>1, <1>2 DEF Inv, TypeOK, SearchInv, RedBlack
<1>4. JustBefore(t, cur, a)
  BY <1>1, <1>3 DEF SearchOrder, Target
<1>5. pc' # "search"
  BY <1>1 DEF Unlink, Return, Loop
<1>6. List!Result(l, req) = List!RemoveAt(l, List!Place(l, a))
  BY <1>1 DEF List!Result
<1> HIDE DEF a
<1>7. cur \in sub[a] /\ cur # a
  <2>1. 0 \in Side /\ Sub(sub, t.child[a][0]) = sub[t.child[a][0]]
    BY <1>3 DEF IsDeg2, Sub, Side
  <2>2. sub[t.child[a][0]] \subseteq sub[a] /\ a \notin sub[t.child[a][0]]
    BY <1>3, <2>1, SubtreesAt
  <2> QED BY <1>3, <2>2
<1>8. /\ h \in Heap
      /\ \E sub2 \in [Nodes -> SUBSET Nodes], b2 \in [Nodes -> Nat] :
           RedBlack(h, members, sub2, b2, NULL, NULL, 0)
      /\ \A j \in Side : t.child[cur][j] = NULL => h.child[a][j] = NULL
  BY <1>3, <1>7, SwapNodeRedBlack
<1>9. a \in Nodes /\ cur \in Nodes /\ a # NULL /\ a \in NodeOrNull
  BY <1>3, NullNotNode DEF NodeOrNull
<1>10. PICK p \in Seq(Nodes), v \in Seq(Nodes) : InOrder(t) = (p \o <<cur>>) \o (<<a>> \o v)
  <2>1. \E p, v \in Seq(Nodes) : InOrder(t) = (p \o <<cur>>) \o (One(a) \o v)
    BY <1>1, <1>3, <1>4, <1>9, BeforeEnd
  <2> QED BY <1>9, <2>1 DEF One
<1>11. Neighbours(InOrder(h), p, a, cur, v)
  <2>1. Neighbours(InOrder(t), p, cur, a, v)
    BY <1>10 DEF Neighbours
  <2> QED BY <1>3, <1>7, <2>1, SwapOrder
<1> HIDE DEF h
<1>12. PICK sub2, b2 : RedBlack(h, members, sub2, b2, NULL, NULL, 0)
  BY <1>8
<1>13. ~ IsDeg2(h, a)
  BY <1>1, <1>3, <1>8 DEF IsDeg2, Side
<1> DEFINE l2 == InOrder(h)
<1>14. InOrder(t') = List!RemoveAt(l2, List!Place(l2, a))
  BY <1>1, <1>3, <1>8, <1>12, <1>13, UnlinkOrder
<1>15. Distinct(l) /\ Neighbours(l, p, cur, a, v)
  BY <1>3, <1>10, OrderFacts DEF Neighbours
<1>16. Distinct(l2) /\ Neighbours(l2, p, a, cur, v)
  BY <1>8, <1>11, <1>12, OrderFacts DEF RedBlack
<1> HIDE DEF l, l2
<1>17. List!RemoveAt(l2, List!Place(l2, a)) = List!RemoveAt(l, List!Place(l, a))
  BY <1>9, <1>15, <1>16, RemoveExchanged
<1>18. InOrder(t') = List!Result(InOrder(t), req)
  BY <1>6, <1>14, <1>17 DEF l
<1>19. List!Next
  BY <1>1, <1>5, <1>18, FinishStep
<1> QED BY <1>5, <1>19 DEF SearchOrder

\* clear() leaves nothing.
LEMMA ClearStep ==
  ASSUME Inv, Inv', Clear
  PROVE  List!Next /\ SearchOrder'
<1>1. /\ pc = "idle" /\ pc' = "idle" /\ req' = Call("clear", NULL, 0, NULL) /\ req' \in Request
      /\ members' = {} /\ t' = [t EXCEPT !.root = NULL, !.size = 0]
  BY DEF Clear, Inv, TypeOK
<1>2. t \in Heap /\ t' \in Heap /\ t'.root = NULL
  BY <1>1 DEF Inv, TypeOK, Heap
<1>3. InOrder(t') = <<>>
  <2>1. PICK sub : Tree(t', members', sub)
    BY TreeNext
  <2> QED BY <1>2, <2>1, OrderFacts
<1>4. req'.op = "clear"
  BY <1>1, CallFacts
<1>5. List!Legal(req')
  BY <1>4 DEF List!Legal
<1>6. List!Result(InOrder(t), req') = <<>>
  BY <1>4 DEF List!Result
<1>7. List!Next
  BY <1>1, <1>3, <1>5, <1>6, DoStep
<1> QED BY <1>1, <1>7 DEF SearchOrder

-----------------------------------------------------------------------------
(* The repairs *)

\* A pass of a repair that leaves the order of the tree alone.
LEMMA RepairStep ==
  ASSUME pc \in {"insertNormalise", "eraseNormalise"}, pc' # "search", req' = req,
         InOrder(t') = InOrder(t)
  PROVE  UNCHANGED List!vars /\ SearchOrder'
<1>1. UNCHANGED List!vars
  BY StaysStep
<1> QED BY <1>1 DEF SearchOrder

\* A change of colours only.
LEMMA ColoursStep ==
  ASSUME Inv, pc \in {"insertNormalise", "eraseNormalise"}, pc' # "search", req' = req,
         t' \in Heap, t'.root = t.root, t'.parent = t.parent, t'.child = t.child
  PROVE  UNCHANGED List!vars /\ SearchOrder'
<1>1. PICK sub : Tree(t, members, sub)
  BY TreeAlways
<1>2. t \in Heap
  BY TreeAlways
<1>3. InOrder(t') = InOrder(t)
  BY <1>1, <1>2, SameOrder
<1> QED BY <1>3, RepairStep

\* insertNormalise.
LEMMA NormaliseStep ==
  ASSUME Inv, Inv', NormaliseRoot \/ NormaliseUnderBlack \/ NormaliseRecolour \/ NormaliseRotate
  PROVE  UNCHANGED List!vars /\ SearchOrder'
<1>1. pc = "insertNormalise" /\ pc' # "search" /\ req' = req
  BY DEF NormaliseRoot, NormaliseUnderBlack, NormaliseRecolour, NormaliseRotate, Return, Loop
<1>2. t \in Heap /\ t' \in Heap
  BY DEF Inv, TypeOK
<1>3. CASE NormaliseRoot
  <2>1. t'.root = t.root /\ t'.parent = t.parent /\ t'.child = t.child
    BY <1>2, <1>3 DEF NormaliseRoot, Heap
  <2> QED BY <1>1, <1>2, <2>1, ColoursStep
<1>4. CASE NormaliseUnderBlack
  <2>1. t' = t
    BY <1>4 DEF NormaliseUnderBlack
  <2> QED BY <1>1, <1>2, <2>1, ColoursStep
<1>5. CASE NormaliseRecolour
  <2>1. t' = Recolour(t, Parent, Uncle, Grandparent)
    BY <1>5 DEF NormaliseRecolour
  <2>2. t'.root = t.root /\ t'.parent = t.parent /\ t'.child = t.child
    BY <1>2, <2>1 DEF Recolour, Heap
  <2> QED BY <1>1, <1>2, <2>2, ColoursStep
<1>6. CASE NormaliseRotate
  <2>1. /\ Parent # NULL /\ t.red[Parent]
        /\ t' = RotateGrandparent(t, cur, Parent, Grandparent, ParentId)
    BY <1>6 DEF NormaliseRotate
  <2>2. cur \in members /\ t.red[cur]
    BY <1>1, InsertNormaliseFacts
  <2>3. PICK sub, bh : RedBlack(t, members, sub, bh, cur, NULL, 0)
    BY <1>1, InsertNormaliseFacts
  <2>4. /\ t.parent[cur] = Parent /\ t.parent[Parent] = Grandparent
        /\ GetChildId(t, Grandparent, Parent) = ParentId
    BY DEF Parent, Grandparent, ParentId
  <2>5. InOrder(RotateGrandparent(t, cur, Parent, Grandparent, ParentId)) = InOrder(t)
    BY <1>2, <2>1, <2>2, <2>3, <2>4, RotateGrandparentOrder
  <2>6. InOrder(t') = InOrder(t)
    BY <2>1, <2>5
  <2> QED BY <1>1, <2>6, RepairStep
<1> QED BY <1>3, <1>4, <1>5, <1>6

\* eraseNodeNormalise.
LEMMA NormaliseEraseStep ==
  ASSUME Inv, Inv', NormaliseErase3 \/ NormaliseErase4 \/ NormaliseErase56
  PROVE  UNCHANGED List!vars /\ SearchOrder'
<1> DEFINE h == Levelled
           s == S
<1>1. pc = "eraseNormalise" /\ pc' # "search" /\ req' = req
  BY DEF NormaliseErase3, NormaliseErase4, NormaliseErase56, Return, Loop
<1>2. t \in Heap /\ t' \in Heap
  BY DEF Inv, TypeOK
<1>3. /\ members \in SUBSET Nodes /\ cur \in members /\ side \in Side
      /\ h \in Heap
  BY <1>1, LevelledFacts
<1>4. PICK sub, bh : RedBlack(h, members, sub, bh, NULL, cur, side)
  BY <1>1, LevelledFacts
<1>5. InOrder(h) = InOrder(t)
  <2>1. PICK sub2, b2 : RedBlack(t, members, sub2, b2, NULL, cur, side)
    BY <1>1 DEF Inv, LoopInv, EraseInv
  <2>2. InOrder(BlackSibling(t)) = InOrder(t)
    BY <1>2, <1>3, <2>1, BlackSiblingOrder
  <2> QED BY <2>2 DEF Levelled
<1>6. Sibling(h) = s
  BY DEF S
<1>7. CASE NormaliseErase3 \/ NormaliseErase4
  <2>1. t'.root = h.root /\ t'.parent = h.parent /\ t'.child = h.child
    <3>1. \/ t' = [h EXCEPT !.red[s] = TRUE]
          \/ t' = [h EXCEPT !.red[cur] = FALSE, !.red[s] = TRUE]
      BY <1>7 DEF NormaliseErase3, NormaliseErase4
    <3> HIDE DEF h, s
    <3> QED BY <1>3, <3>1 DEF Heap
  <2> HIDE DEF h
  <2>2. InOrder(t') = InOrder(h)
    BY <1>2, <1>3, <1>4, <2>1, SameOrder DEF RedBlack
  <2>3. InOrder(t') = InOrder(t)
    BY <1>5, <2>2
  <2> QED BY <1>1, <2>3, RepairStep
<1>8. CASE NormaliseErase56
  <2> DEFINE u == RedOuterNephew(h, s)
             f == u.child[Sibling(u)][Opp(side)]
  <2>1. t' = RotateParent(u) /\ ~ BlackNephews
    BY <1>8 DEF NormaliseErase56
  <2>2. ~ h.red[s] /\ ~ \A i \in Side : ~ IsRed(h, h.child[s][i])
    BY <1>1, <2>1, LevelledFacts DEF BlackNephews
  <2>3. h.size \in Int
    BY <1>3 DEF Heap
  <2> HIDE DEF h, s
  <2>4. /\ u \in Heap /\ IsRed(u, f)
        /\ \E sub2 \in [Nodes -> SUBSET Nodes], b2 \in [Nodes -> Nat], x \in NodeOrNull :
             /\ RedBlack(u, members, sub2, b2, x, cur, side)
             /\ x # NULL => x # cur /\ u.parent[x] = f
    BY <1>3, <1>4, <1>6, <2>2, OuterNephewRedBlack
  <2>5. InOrder(u) = InOrder(h)
    BY <1>3, <1>4, <1>6, RedOuterNephewOrder
  <2> HIDE DEF u
  <2>6. PICK sub2, b2, x : RedBlack(u, members, sub2, b2, x, cur, side)
    BY <2>4
  <2>7. u.child[Sibling(u)][Opp(side)] = f
    OBVIOUS
  <2> HIDE DEF f
  <2>8. InOrder(RotateParent(u)) = InOrder(u)
    BY <1>3, <2>4, <2>6, <2>7, RotateParentOrder
  <2>9. InOrder(t') = InOrder(t)
    BY <1>5, <2>1, <2>5, <2>8
  <2> QED BY <1>1, <2>9, RepairStep
<1> QED BY <1>7, <1>8

-----------------------------------------------------------------------------
(* The refinement *)

\* Every call, and every pass of a loop, is a step of the list or none.
LEMMA ListStep ==
  ASSUME Inv, Inv', SearchOrder, [Next]_vars
  PROVE  [List!Next]_List!vars /\ SearchOrder'
<1>1. CASE UNCHANGED vars
  <2>1. UNCHANGED List!vars
    BY <1>1 DEF vars, List!vars
  <2>2. SearchOrder'
    BY <1>1 DEF vars, SearchOrder
  <2> QED BY <2>1, <2>2
<1>2. CASE ClientCall
  <2>1. ASSUME NEW ins \in Nodes \ members, InsertRoot(ins) PROVE List!Next /\ SearchOrder'
    BY <2>1, InsertRootStep
  <2>2. ASSUME NEW ins \in Nodes \ members, InsertBeforeEnd(ins)
        PROVE  List!Next /\ SearchOrder'
    <3>1. /\ pc = "idle" /\ req' = Call("insert_before", NULL, 0, ins)
          /\ IF t.root = NULL THEN InsertRootNode(ins) ELSE Search(t.root, Opp(0))
      BY <2>2 DEF InsertBeforeEnd, Opp
    <3>2. BesideCall(0, req', NULL, ins) /\ 0 \in Side
      BY <3>1, CallFacts DEF BesideCall, Side
    <3> QED BY <3>1, <3>2, InsertAtEndStep
  <2>3. ASSUME NEW ins \in Nodes \ members, InsertAfterEnd(ins)
        PROVE  List!Next /\ SearchOrder'
    <3>1. /\ pc = "idle" /\ req' = Call("insert_after", NULL, 0, ins)
          /\ IF t.root = NULL THEN InsertRootNode(ins) ELSE Search(t.root, Opp(1))
      BY <2>3 DEF InsertAfterEnd, Opp
    <3>2. BesideCall(1, req', NULL, ins) /\ 1 \in Side
      BY <3>1, CallFacts DEF BesideCall, Side
    <3> QED BY <3>1, <3>2, InsertAtEndStep
  <2>4. ASSUME NEW ins \in Nodes \ members, NEW at \in members, InsertBefore(at, ins)
        PROVE  List!Next /\ SearchOrder'
    <3>1. pc = "idle" /\ req' = Call("insert_before", at, 0, ins) /\ InsertBeside(0, at, ins)
      BY <2>4 DEF InsertBefore
    <3>2. BesideCall(0, req', at, ins) /\ 0 \in Side
      BY <3>1, CallFacts DEF BesideCall, Side
    <3> QED BY <3>1, <3>2, InsertBesideStep
  <2>5. ASSUME NEW ins \in Nodes \ members, NEW at \in members, InsertAfter(at, ins)
        PROVE  List!Next /\ SearchOrder'
    <3>1. pc = "idle" /\ req' = Call("insert_after", at, 0, ins) /\ InsertBeside(1, at, ins)
      BY <2>5 DEF InsertAfter
    <3>2. BesideCall(1, req', at, ins) /\ 1 \in Side
      BY <3>1, CallFacts DEF BesideCall, Side
    <3> QED BY <3>1, <3>2, InsertBesideStep
  <2>6. ASSUME NEW ins \in Nodes \ members, NEW at \in members, NEW i \in Side,
               InsertLeafNode(at, i, ins)
        PROVE  List!Next /\ SearchOrder'
    BY <2>6, InsertLeafNodeStep
  <2>7. ASSUME NEW n \in members, EraseDeg2(n) \/ EraseDeg1(n) PROVE List!Next /\ SearchOrder'
    BY <2>7, EraseDeg1Step, EraseDeg2Step
  <2> QED BY <1>2, <2>1, <2>2, <2>3, <2>4, <2>5, <2>6, <2>7, ClearStep DEF ClientCall
<1>3. CASE Pass
  BY <1>3, SearchPassStep, SearchInsertStep, SearchEraseStep, NormaliseStep, NormaliseEraseStep
  DEF Pass
<1> QED BY <1>1, <1>2, <1>3 DEF Next

\* A new tree is the empty list.
LEMMA ListInit == Init => List!Init /\ SearchOrder
<1> SUFFICES ASSUME Init PROVE List!Init /\ SearchOrder
  OBVIOUS
<1>1. Inv
  BY InitInv
<1>2. t.root = NULL /\ pc = "idle"
  BY DEF Init, EmptyHeap
<1>3. InOrder(t) = <<>> /\ req \in Request
  BY <1>1, <1>2, ListElements DEF Inv, TypeOK
<1> QED BY <1>2, <1>3 DEF List!Init, SearchOrder

\* The tree implements the list, whatever calls a client makes and however many
\* nodes there are: each call edits the order of the nodes as its name says, at
\* one moment, and no rotation, recolouring or exchange of a repair changes it.
THEOREM ListImplemented == Spec => ImplementsList
<1>1. Init => List!Init /\ SearchOrder
  BY ListInit
<1>2. Inv /\ Inv' /\ SearchOrder /\ [Next]_vars => SearchOrder'
  BY ListStep
<1>3. Inv /\ Inv' /\ SearchOrder /\ [Next]_vars => [List!Next]_List!vars
  BY ListStep
<1>4. Spec => []SearchOrder
  BY <1>1, <1>2, Invariance, PTL DEF Spec
<1> QED BY <1>1, <1>3, <1>4, Invariance, PTL DEF Spec, ImplementsList, List!Spec

(***************************************************************************)
(* Part 6: iterators and searches                                          *)
(***************************************************************************)

(* The loops that follow links without a bound *)

\* The sets that contain, with a node, the one that the loop goes on to.
Closed(X, Stop, F) == { Q \in SUBSET X : \A z \in Q \ Stop : F[z] \in Q }

\* Where a loop that starts at x may stop.
Stops(X, Stop, F, x) ==
  { y \in Stop \cap X : \A Q \in Closed(X, Stop, F) : x \in Q => y \in Q }

\* A function that follows F up to a place in Stop exists, whatever cycles F has:
\* the places of a cycle without such a place may have any value, if it is the same.
LEMMA Follows ==
  ASSUME NEW X, NEW Stop, NEW F \in [X -> X]
  PROVE  \E f : /\ f = [x \in X |-> f[x]]
                /\ \A x \in X : f[x] = IF x \in Stop THEN x ELSE f[F[x]]
<1> DEFINE f == [x \in X |-> CHOOSE y : y \in Stops(X, Stop, F, x)]
<1>1. ASSUME NEW x \in X, x \in Stop PROVE Stops(X, Stop, F, x) = {x}
  <2>1. {x} \in Closed(X, Stop, F)
    BY <1>1 DEF Closed
  <2> QED BY <1>1, <2>1 DEF Stops
<1>2. ASSUME NEW x \in X, x \notin Stop
      PROVE  Stops(X, Stop, F, x) = Stops(X, Stop, F, F[x])
  <2>1. ASSUME NEW y \in Stops(X, Stop, F, x), NEW Q \in Closed(X, Stop, F), F[x] \in Q
        PROVE  y \in Q
    <3>1. Q \cup {x} \in Closed(X, Stop, F)
      BY <2>1 DEF Closed
    <3>2. y \in Q \cup {x} /\ y \in Stop
      BY <2>1, <3>1 DEF Stops
    <3> QED BY <1>2, <3>2
  <2>2. ASSUME NEW y \in Stops(X, Stop, F, F[x]), NEW Q \in Closed(X, Stop, F), x \in Q
        PROVE  y \in Q
    <3>1. F[x] \in Q
      BY <1>2, <2>2 DEF Closed
    <3> QED BY <2>2, <3>1 DEF Stops
  <2> QED BY <2>1, <2>2 DEF Stops
<1>3. ASSUME NEW x \in X PROVE f[x] = IF x \in Stop THEN x ELSE f[F[x]]
  <2>1. F[x] \in X
    OBVIOUS
  <2> QED BY <1>1, <1>2, <2>1
<1>4. f = [x \in X |-> f[x]]
  OBVIOUS
<1> HIDE DEF f
<1> QED BY <1>3, <1>4

\* Extreme goes to the child on its side as long as there is one.
LEMMA ExtremeIs ==
  ASSUME NEW h \in Heap, NEW i \in Side
  PROVE  \A n \in Nodes :
           Extreme(h, n, i) = IF h.child[n][i] = NULL THEN n ELSE Extreme(h, h.child[n][i], i)
<1> DEFINE Stop == { x \in Nodes : h.child[x][i] = NULL }
           F == [x \in Nodes |-> IF x \in Stop THEN x ELSE h.child[x][i]]
           G(q) == [x \in Nodes |-> IF h.child[x][i] = NULL THEN x ELSE q[h.child[x][i]]]
           g == CHOOSE q : q = G(q)
<1>1. \A x \in Nodes : h.child[x][i] \in NodeOrNull
  BY HeapFacts
<1>2. F \in [Nodes -> Nodes]
  BY <1>1 DEF NodeOrNull
<1>3. PICK f : /\ f = [x \in Nodes |-> f[x]]
               /\ \A x \in Nodes : f[x] = IF x \in Stop THEN x ELSE f[F[x]]
  <2> HIDE DEF F, Stop
  <2> QED BY <1>2, Follows
<1>4. f = G(f)
  <2>1. \A x \in Nodes : (IF x \in Stop THEN x ELSE f[F[x]])
                         = IF h.child[x][i] = NULL THEN x ELSE f[h.child[x][i]]
    OBVIOUS
  <2> HIDE DEF F, Stop
  <2> QED BY <1>3, <2>1
<1>5. g = G(g)
  <2> HIDE DEF G
  <2> QED BY <1>4
<1>6. \A n \in Nodes : Extreme(h, n, i) = g[n]
  BY DEF Extreme
<1> HIDE DEF g
<1>7. ASSUME NEW n \in Nodes
      PROVE  g[n] = IF h.child[n][i] = NULL THEN n ELSE g[h.child[n][i]]
  BY <1>5
<1>8. \A n \in Nodes : h.child[n][i] # NULL => h.child[n][i] \in Nodes
  BY <1>1 DEF NodeOrNull
<1> QED BY <1>6, <1>7, <1>8

\* FindInorder climbs as long as it comes from the side it is to turn to.
Climb(h, id) ==
  CHOOSE climb : climb =
    [x \in Nodes |-> IF h.parent[x] = NULL THEN NULL
                     ELSE IF h.child[h.parent[x]][id] = x THEN h.parent[x]
                     ELSE climb[h.parent[x]]]

\* That climb ends at the root or where it comes from the other side.
LEMMA ClimbIs ==
  ASSUME NEW h \in Heap, NEW i \in Side
  PROVE  \A n \in Nodes :
           /\ FindInorder(h, n, i) = IF h.child[n][Opp(i)] # NULL
                                     THEN Extreme(h, h.child[n][Opp(i)], i)
                                     ELSE Climb(h, i)[n]
           /\ Climb(h, i)[n] = IF h.parent[n] = NULL THEN NULL
                               ELSE IF h.child[h.parent[n]][i] = n THEN h.parent[n]
                               ELSE Climb(h, i)[h.parent[n]]
<1> DEFINE Stop == { x \in Nodes : h.parent[x] = NULL \/ h.child[h.parent[x]][i] = x }
           F == [x \in Nodes |-> IF x \in Stop THEN x ELSE h.parent[x]]
           G(q) == [x \in Nodes |-> IF h.parent[x] = NULL THEN NULL
                                    ELSE IF h.child[h.parent[x]][i] = x THEN h.parent[x]
                                    ELSE q[h.parent[x]]]
           g == Climb(h, i)
<1>1. \A x \in Nodes : h.parent[x] \in NodeOrNull
  BY HeapFacts
<1>2. F \in [Nodes -> Nodes]
  BY <1>1 DEF NodeOrNull
<1>3. PICK f : /\ f = [x \in Nodes |-> f[x]]
               /\ \A x \in Nodes : f[x] = IF x \in Stop THEN x ELSE f[F[x]]
  <2> HIDE DEF F, Stop
  <2> QED BY <1>2, Follows
<1> DEFINE q == [x \in Nodes |-> h.parent[f[x]]]
<1>4. ASSUME NEW x \in Nodes
      PROVE  q[x] = IF h.parent[x] = NULL THEN NULL
                    ELSE IF h.child[h.parent[x]][i] = x THEN h.parent[x]
                    ELSE q[h.parent[x]]
  <2>1. f[x] = IF x \in Stop THEN x ELSE f[F[x]]
    <3> HIDE DEF Stop, F
    <3> QED BY <1>3
  <2>2. CASE x \in Stop
    BY <2>1, <2>2
  <2>3. CASE x \notin Stop
    <3>1. h.parent[x] # NULL /\ h.child[h.parent[x]][i] # x /\ F[x] = h.parent[x]
      BY <2>3
    <3>2. h.parent[x] \in Nodes
      BY <1>1, <3>1 DEF NodeOrNull
    <3> QED BY <2>1, <2>3, <3>1, <3>2
  <2> QED BY <2>2, <2>3
<1>5. q = G(q)
  <2>1. q = [x \in Nodes |-> q[x]]
    OBVIOUS
  <2> HIDE DEF q
  <2> QED BY <1>4, <2>1
<1>6. g = G(g)
  <2> HIDE DEF q
  <2> QED BY <1>5 DEF Climb
<1>7. \A n \in Nodes : FindInorder(h, n, i) = IF h.child[n][Opp(i)] # NULL
                                              THEN Extreme(h, h.child[n][Opp(i)], i)
                                              ELSE g[n]
  BY DEF FindInorder, Climb
<1> HIDE DEF g
<1>8. \A n \in Nodes : g[n] = IF h.parent[n] = NULL THEN NULL
                              ELSE IF h.child[h.parent[n]][i] = n THEN h.parent[n]
                              ELSE g[h.parent[n]]
  BY <1>6
<1> QED BY <1>7, <1>8 DEF g

-----------------------------------------------------------------------------
(* Where the loops of the iterators end *)

\* n is the node in front of m, or in front of the end,
EndsBefore(l, n, m) ==
  \E p, v \in Seq(Nodes) :
    /\ l = (p \o <<n>>) \o (One(m) \o v)
    /\ m = NULL => v = <<>>

\* or the node behind it, or the first.
StartsAfter(l, n, m) ==
  \E u, q \in Seq(Nodes) :
    /\ l = (u \o One(m)) \o (<<n>> \o q)
    /\ m = NULL => u = <<>>

\* The first node of a subtree behind m is the node behind m,
LEMMA FirstAfter ==
  ASSUME NEW h \in Heap, NEW M, NEW sub, Tree(h, M, sub), NEW m \in NodeOrNull,
         NEW x \in M, JustAfter(h, x, m)
  PROVE  Extreme(h, x, 0) \in M /\ StartsAfter(InOrder(h), Extreme(h, x, 0), m)
<1> DEFINE Good(y) == Extreme(h, y, 0) \in M /\ StartsAfter(InOrder(h), Extreme(h, y, 0), m)
           P == { y \in M : JustAfter(h, y, m) => Good(y) }
<1>1. \A y \in M : /\ y \in Nodes
                   /\ h.child[y][0] # NULL => h.child[y][0] \in M
  BY DEF Tree, Linked, Side
<1>2. \A y \in Nodes : Extreme(h, y, 0) = IF h.child[y][0] = NULL THEN y
                                          ELSE Extreme(h, h.child[y][0], 0)
  BY ExtremeIs DEF Side
<1>3. ASSUME NEW n \in M, \A i \in Side : h.child[n][i] # NULL => h.child[n][i] \in P
      PROVE  n \in P
  <2> SUFFICES ASSUME JustAfter(h, n, m) PROVE Good(n)
    OBVIOUS
  <2>1. CASE h.child[n][0] = NULL
    <3>1. StartsAfter(InOrder(h), n, m)
      BY <2>1, AfterEnd DEF StartsAfter
    <3>2. Extreme(h, n, 0) = n
      BY <1>1, <1>2, <2>1
    <3> QED BY <3>1, <3>2
  <2>2. CASE h.child[n][0] # NULL
    <3>1. JustAfter(h, h.child[n][0], m)
      BY AfterStep
    <3>2. Good(h.child[n][0])
      BY <1>3, <2>2, <3>1 DEF Side
    <3>3. Extreme(h, n, 0) = Extreme(h, h.child[n][0], 0)
      BY <1>1, <1>2, <2>2
    <3> QED BY <3>2, <3>3
  <2> QED BY <2>1, <2>2
<1>4. M \subseteq P
  <2> HIDE DEF P
  <2> QED BY <1>3, TreeUp
<1> QED BY <1>4

\* and the last node of a subtree in front of m is the node in front of it.
LEMMA LastBefore ==
  ASSUME NEW h \in Heap, NEW M, NEW sub, Tree(h, M, sub), NEW m \in NodeOrNull,
         NEW x \in M, JustBefore(h, x, m)
  PROVE  Extreme(h, x, 1) \in M /\ EndsBefore(InOrder(h), Extreme(h, x, 1), m)
<1> DEFINE Good(y) == Extreme(h, y, 1) \in M /\ EndsBefore(InOrder(h), Extreme(h, y, 1), m)
           P == { y \in M : JustBefore(h, y, m) => Good(y) }
<1>1. \A y \in M : /\ y \in Nodes
                   /\ h.child[y][1] # NULL => h.child[y][1] \in M
  BY DEF Tree, Linked, Side
<1>2. \A y \in Nodes : Extreme(h, y, 1) = IF h.child[y][1] = NULL THEN y
                                          ELSE Extreme(h, h.child[y][1], 1)
  BY ExtremeIs DEF Side
<1>3. ASSUME NEW n \in M, \A i \in Side : h.child[n][i] # NULL => h.child[n][i] \in P
      PROVE  n \in P
  <2> SUFFICES ASSUME JustBefore(h, n, m) PROVE Good(n)
    OBVIOUS
  <2>1. CASE h.child[n][1] = NULL
    <3>1. EndsBefore(InOrder(h), n, m)
      BY <2>1, BeforeEnd DEF EndsBefore
    <3>2. Extreme(h, n, 1) = n
      BY <1>1, <1>2, <2>1
    <3> QED BY <3>1, <3>2
  <2>2. CASE h.child[n][1] # NULL
    <3>1. JustBefore(h, h.child[n][1], m)
      BY BeforeStep
    <3>2. Good(h.child[n][1])
      BY <1>3, <2>2, <3>1 DEF Side
    <3>3. Extreme(h, n, 1) = Extreme(h, h.child[n][1], 1)
      BY <1>1, <1>2, <2>2
    <3> QED BY <3>2, <3>3
  <2> QED BY <2>1, <2>2
<1>4. M \subseteq P
  <2> HIDE DEF P
  <2> QED BY <1>3, TreeUp
<1> QED BY <1>4

\* m is the last node of the sequence s, or the first.
LastOf(s, m) == \E a \in Seq(Nodes) : s = a \o <<m>>
FirstOf(s, m) == \E a \in Seq(Nodes) : s = <<m>> \o a

\* A node without a right child is the last of its subtree, and without a left one
\* the first.
LEMMA AloneOf ==
  ASSUME NEW h \in Heap, NEW M, NEW sub, Tree(h, M, sub), NEW n \in M
  PROVE  /\ h.child[n][1] = NULL => LastOf(InOrderBelow(h)[n], n)
         /\ h.child[n][0] = NULL => FirstOf(InOrderBelow(h)[n], n)
<1> DEFINE w == InOrderBelow(h)
           r == <<n>>
<1>1. PICK a \in Seq(Nodes), b \in Seq(Nodes) : Parts(InOrderBelow(h), h, n, a, b)
  BY WalkParts
<1>2. /\ w[n] = (a \o r) \o b /\ r \in Seq(Nodes)
      /\ h.child[n][0] = NULL => a = <<>>
      /\ h.child[n][1] = NULL => b = <<>>
  BY <1>1 DEF Parts
<1> HIDE DEF w, r
<1>3. a \o r \in Seq(Nodes)
  BY <1>2, Associative
<1>4. h.child[n][1] = NULL => w[n] = a \o r
  BY <1>2, <1>3, ConcatEmptySeq
<1>5. h.child[n][0] = NULL => w[n] = r \o b
  BY <1>2, ConcatEmptySeq
<1> QED BY <1>4, <1>5 DEF LastOf, FirstOf, w, r

\* The last node of the right subtree is that of the whole one,
LEMMA InheritsLast ==
  ASSUME NEW h \in Heap, NEW M, NEW sub, Tree(h, M, sub), NEW n \in M, NEW m \in M,
         LastOf(InOrderBelow(h)[h.child[n][1]], m)
  PROVE  LastOf(InOrderBelow(h)[n], m)
<1> DEFINE w == InOrderBelow(h)
           r == <<n>>
           s == <<m>>
<1>1. PICK a \in Seq(Nodes), b \in Seq(Nodes) : Parts(InOrderBelow(h), h, n, a, b)
  BY WalkParts
<1>2. w[n] = (a \o r) \o b /\ r \in Seq(Nodes) /\ b = w[h.child[n][1]]
  BY <1>1 DEF Parts
<1>3. s \in Seq(Nodes)
  BY SingleSequence DEF Tree
<1>4. PICK c \in Seq(Nodes) : b = c \o s
  BY <1>2 DEF LastOf
<1> HIDE DEF w, r, s
<1> DEFINE x == a \o r
<1>5. x \in Seq(Nodes)
  BY <1>2, Associative
<1> HIDE DEF x
<1>6. x \o (c \o s) = (x \o c) \o s /\ x \o c \in Seq(Nodes)
  BY <1>3, <1>5, Associative
<1>7. w[n] = (x \o c) \o s
  BY <1>2, <1>4, <1>6 DEF x
<1> QED BY <1>6, <1>7 DEF LastOf, w, s

\* and the first node of the left subtree is.
LEMMA InheritsFirst ==
  ASSUME NEW h \in Heap, NEW M, NEW sub, Tree(h, M, sub), NEW n \in M, NEW m \in M,
         FirstOf(InOrderBelow(h)[h.child[n][0]], m)
  PROVE  FirstOf(InOrderBelow(h)[n], m)
<1> DEFINE w == InOrderBelow(h)
           r == <<n>>
           s == <<m>>
<1>1. PICK a \in Seq(Nodes), b \in Seq(Nodes) : Parts(InOrderBelow(h), h, n, a, b)
  BY WalkParts
<1>2. w[n] = (a \o r) \o b /\ r \in Seq(Nodes) /\ a = w[h.child[n][0]]
  BY <1>1 DEF Parts
<1>3. s \in Seq(Nodes)
  BY SingleSequence DEF Tree
<1>4. PICK c \in Seq(Nodes) : a = s \o c
  BY <1>2 DEF FirstOf
<1> HIDE DEF w, r, s
<1>5. Cat(Cat(Cat(s, c), r), b) = Cat(s, Cat(Cat(c, r), b)) /\ Cat(Cat(c, r), b) \in Seq(Nodes)
  <2>1. Cat(s, c) \in Seq(Nodes) /\ Cat(c, r) \in Seq(Nodes) /\ Cat(Cat(c, r), b) \in Seq(Nodes)
    BY <1>2, <1>3, CatAssociative
  <2>2. Cat(Cat(s, c), r) = Cat(s, Cat(c, r))
    BY <1>2, <1>3, CatAssociative
  <2>3. Cat(Cat(s, Cat(c, r)), b) = Cat(s, Cat(Cat(c, r), b))
    BY <1>3, <2>1, CatAssociative
  <2> QED BY <2>1, <2>2, <2>3
<1> DEFINE y == Cat(Cat(c, r), b)
<1>6. w[n] = s \o y
  BY <1>2, <1>4, <1>5 DEF Cat
<1>7. y \in Seq(Nodes)
  BY <1>5
<1> HIDE DEF y
<1> QED BY <1>6, <1>7 DEF FirstOf, w, s

\* The last node of a subtree in front of m is in front of m,
LEMMA LastIsBefore ==
  ASSUME NEW h \in Heap, NEW M, NEW sub, Tree(h, M, sub), NEW x, NEW n \in M,
         NEW m \in NodeOrNull, LastOf(InOrderBelow(h)[x], n), JustBefore(h, x, m)
  PROVE  EndsBefore(InOrder(h), n, m)
<1> DEFINE w == InOrderBelow(h)
           s == <<n>>
           o == One(m)
<1>1. s \in Seq(Nodes)
  BY SingleSequence DEF Tree
<1>2. PICK c \in Seq(Nodes) : w[x] = c \o s
  BY DEF LastOf
<1>3. PICK u \in Seq(Nodes), v \in Seq(Nodes) :
        InOrder(h) = (u \o w[x]) \o (o \o v) /\ (m = NULL => v = <<>>)
  BY DEF JustBefore
<1> HIDE DEF w, s, o
<1>4. u \o (c \o s) = (u \o c) \o s /\ u \o c \in Seq(Nodes)
  BY <1>1, Associative
<1>5. InOrder(h) = ((u \o c) \o s) \o (o \o v)
  BY <1>2, <1>3, <1>4
<1> QED BY <1>3, <1>4, <1>5 DEF EndsBefore, s, o

\* and the first node of a subtree behind m is behind m.
LEMMA FirstIsAfter ==
  ASSUME NEW h \in Heap, NEW M, NEW sub, Tree(h, M, sub), NEW x, NEW n \in M,
         NEW m \in NodeOrNull, FirstOf(InOrderBelow(h)[x], n), JustAfter(h, x, m)
  PROVE  StartsAfter(InOrder(h), n, m)
<1> DEFINE w == InOrderBelow(h)
           s == <<n>>
           o == One(m)
<1>1. s \in Seq(Nodes)
  BY SingleSequence DEF Tree
<1>2. PICK c \in Seq(Nodes) : w[x] = s \o c
  BY DEF FirstOf
<1>3. PICK u \in Seq(Nodes), v \in Seq(Nodes) :
        InOrder(h) = (u \o o) \o (w[x] \o v) /\ (m = NULL => u = <<>>)
  BY DEF JustAfter
<1> HIDE DEF w, s, o
<1>4. (s \o c) \o v = s \o (c \o v) /\ c \o v \in Seq(Nodes)
  BY <1>1, Associative
<1>5. InOrder(h) = (u \o o) \o (s \o (c \o v))
  BY <1>2, <1>3, <1>4
<1> QED BY <1>3, <1>4, <1>5 DEF StartsAfter, s, o

\* The two children of a node are not the same node.
LEMMA OtherChild ==
  ASSUME NEW h, NEW M, NEW sub, Tree(h, M, sub), NEW n \in M, NEW i \in Side,
         h.child[n][i] # NULL
  PROVE  h.child[n][Opp(i)] # h.child[n][i]
<1>1. h.child[n][i] \in M
  BY DEF Tree, Linked
<1>2. h.child[n][i] \in sub[h.child[n][i]]
  BY <1>1 DEF Tree, Subtrees
<1>3. Sub(sub, h.child[n][i]) \cap Sub(sub, h.child[n][Opp(i)]) = {}
  BY SubtreesAt
<1> QED BY <1>2, <1>3 DEF Sub

\* From a node that is the last of its subtree the climb goes to the node behind it,
LEMMA ClimbNext ==
  ASSUME NEW h \in Heap, NEW M, NEW sub, Tree(h, M, sub), NEW m \in M,
         NEW x \in M, LastOf(InOrderBelow(h)[x], m)
  PROVE  Climb(h, 0)[x] \in M \cup {NULL} /\ EndsBefore(InOrder(h), m, Climb(h, 0)[x])
<1> DEFINE c == Climb(h, 0)
           Good(y) == c[y] \in M \cup {NULL} /\ EndsBefore(InOrder(h), m, c[y])
           P == { y \in M : LastOf(InOrderBelow(h)[y], m) => Good(y) }
<1>1. \A y \in M : c[y] = IF h.parent[y] = NULL THEN NULL
                          ELSE IF h.child[h.parent[y]][0] = y THEN h.parent[y]
                          ELSE c[h.parent[y]]
  BY ClimbIs DEF Tree, Side
<1> HIDE DEF c
<1>2. h.root # NULL => h.root \in P
  <2> SUFFICES ASSUME h.root # NULL, LastOf(InOrderBelow(h)[h.root], m) PROVE Good(h.root)
    BY DEF Tree, Linked
  <2>1. h.root \in M /\ h.parent[h.root] = NULL
    BY DEF Tree, Linked
  <2>2. c[h.root] = NULL /\ NULL \in NodeOrNull
    BY <1>1, <2>1 DEF NodeOrNull
  <2>3. EndsBefore(InOrder(h), m, NULL)
    BY <2>2, RootStart, LastIsBefore
  <2> QED BY <2>2, <2>3
<1>3. ASSUME NEW n \in M, n \in P, NEW i \in Side, h.child[n][i] # NULL
      PROVE  h.child[n][i] \in P
  <2> DEFINE d == h.child[n][i]
  <2>1. d \in M /\ h.parent[d] = n /\ n # NULL /\ n \in NodeOrNull
    BY <1>3, NullNotNode DEF Tree, Linked, NodeOrNull
  <2> SUFFICES ASSUME LastOf(InOrderBelow(h)[d], m) PROVE Good(d)
    BY <2>1
  <2>2. CASE i = 0
    <3>1. c[d] = n
      BY <1>1, <2>1, <2>2
    <3>2. JustBefore(h, d, n)
      BY <2>2, BesideStart
    <3>3. EndsBefore(InOrder(h), m, n)
      <4> HIDE DEF d
      <4> QED BY <2>1, <3>2, LastIsBefore
    <3> QED BY <3>1, <3>3
  <2>3. CASE i = 1
    <3>1. h.child[n][0] # d
      BY <1>3, <2>3, OtherChild DEF Opp
    <3>2. c[d] = c[n]
      BY <1>1, <2>1, <3>1
    <3>3. LastOf(InOrderBelow(h)[n], m)
      BY <2>3, InheritsLast
    <3>4. Good(n)
      BY <1>3, <3>3
    <3> QED BY <3>2, <3>4
  <2> QED BY <2>2, <2>3 DEF Side
<1>4. M \subseteq P
  <2> HIDE DEF P
  <2> QED BY <1>2, <1>3, TreeDown
<1> QED BY <1>4 DEF c

\* and from one that is the first, to the node in front of it.
LEMMA ClimbBack ==
  ASSUME NEW h \in Heap, NEW M, NEW sub, Tree(h, M, sub), NEW m \in M,
         NEW x \in M, FirstOf(InOrderBelow(h)[x], m)
  PROVE  Climb(h, 1)[x] \in M \cup {NULL} /\ StartsAfter(InOrder(h), m, Climb(h, 1)[x])
<1> DEFINE c == Climb(h, 1)
           Good(y) == c[y] \in M \cup {NULL} /\ StartsAfter(InOrder(h), m, c[y])
           P == { y \in M : FirstOf(InOrderBelow(h)[y], m) => Good(y) }
<1>1. \A y \in M : c[y] = IF h.parent[y] = NULL THEN NULL
                          ELSE IF h.child[h.parent[y]][1] = y THEN h.parent[y]
                          ELSE c[h.parent[y]]
  BY ClimbIs DEF Tree, Side
<1> HIDE DEF c
<1>2. h.root # NULL => h.root \in P
  <2> SUFFICES ASSUME h.root # NULL, FirstOf(InOrderBelow(h)[h.root], m) PROVE Good(h.root)
    BY DEF Tree, Linked
  <2>1. h.root \in M /\ h.parent[h.root] = NULL
    BY DEF Tree, Linked
  <2>2. c[h.root] = NULL /\ NULL \in NodeOrNull
    BY <1>1, <2>1 DEF NodeOrNull
  <2>3. StartsAfter(InOrder(h), m, NULL)
    BY <2>2, RootStart, FirstIsAfter
  <2> QED BY <2>2, <2>3
<1>3. ASSUME NEW n \in M, n \in P, NEW i \in Side, h.child[n][i] # NULL
      PROVE  h.child[n][i] \in P
  <2> DEFINE d == h.child[n][i]
  <2>1. d \in M /\ h.parent[d] = n /\ n # NULL /\ n \in NodeOrNull
    BY <1>3, NullNotNode DEF Tree, Linked, NodeOrNull
  <2> SUFFICES ASSUME FirstOf(InOrderBelow(h)[d], m) PROVE Good(d)
    BY <2>1
  <2>2. CASE i = 1
    <3>1. c[d] = n
      BY <1>1, <2>1, <2>2
    <3>2. JustAfter(h, d, n)
      BY <2>2, BesideStart
    <3>3. StartsAfter(InOrder(h), m, n)
      <4> HIDE DEF d
      <4> QED BY <2>1, <3>2, FirstIsAfter
    <3> QED BY <3>1, <3>3
  <2>3. CASE i = 0
    <3>1. h.child[n][1] # d
      BY <1>3, <2>3, OtherChild DEF Opp
    <3>2. c[d] = c[n]
      BY <1>1, <2>1, <3>1
    <3>3. FirstOf(InOrderBelow(h)[n], m)
      BY <2>3, InheritsFirst
    <3>4. Good(n)
      BY <1>3, <3>3
    <3> QED BY <3>2, <3>4
  <2> QED BY <2>2, <2>3 DEF Side
<1>4. M \subseteq P
  <2> HIDE DEF P
  <2> QED BY <1>2, <1>3, TreeDown
<1> QED BY <1>4 DEF c

\* ++ goes to the node behind, or to the end.
LEMMA IncrementIs ==
  ASSUME NEW h \in Heap, NEW M, NEW sub, Tree(h, M, sub), NEW n \in M
  PROVE  Increment(h, n) \in M \cup {NULL} /\ EndsBefore(InOrder(h), n, Increment(h, n))
<1>1. n \in Nodes /\ n # NULL /\ n \in NodeOrNull /\ One(n) = <<n>>
  BY NullNotNode DEF Tree, NodeOrNull, One
<1>2. Increment(h, n) = IF h.child[n][1] # NULL THEN Extreme(h, h.child[n][1], 0)
                        ELSE Climb(h, 0)[n]
  BY <1>1, ClimbIs DEF Increment, Side, Opp
<1>3. CASE h.child[n][1] # NULL
  <2> DEFINE e == Extreme(h, h.child[n][1], 0)
  <2>1. h.child[n][1] \in M
    BY <1>3 DEF Tree, Linked, Side
  <2>2. JustAfter(h, h.child[n][1], n)
    BY BesideStart
  <2>3. e \in M /\ StartsAfter(InOrder(h), e, n)
    BY <1>1, <2>1, <2>2, FirstAfter
  <2>4. e # NULL /\ One(e) = <<e>>
    BY <2>3, NullNotNode DEF Tree, One
  <2>5. EndsBefore(InOrder(h), n, e)
    <3> HIDE DEF e
    <3> QED BY <1>1, <2>3, <2>4 DEF EndsBefore, StartsAfter
  <2> QED BY <1>2, <1>3, <2>3, <2>5
<1>4. CASE h.child[n][1] = NULL
  BY <1>2, <1>4, AloneOf, ClimbNext
<1> QED BY <1>3, <1>4

\* -- goes to the node in front, or out of the tree.
LEMMA DecrementIs ==
  ASSUME NEW h \in Heap, NEW M, NEW sub, Tree(h, M, sub), NEW n \in M
  PROVE  Decrement(h, n) \in M \cup {NULL} /\ StartsAfter(InOrder(h), n, Decrement(h, n))
<1>1. n \in Nodes /\ n # NULL /\ n \in NodeOrNull /\ One(n) = <<n>>
  BY NullNotNode DEF Tree, NodeOrNull, One
<1>2. Decrement(h, n) = IF h.child[n][0] # NULL THEN Extreme(h, h.child[n][0], 1)
                        ELSE Climb(h, 1)[n]
  BY <1>1, ClimbIs DEF Decrement, Side, Opp
<1>3. CASE h.child[n][0] # NULL
  <2> DEFINE e == Extreme(h, h.child[n][0], 1)
  <2>1. h.child[n][0] \in M
    BY <1>3 DEF Tree, Linked, Side
  <2>2. JustBefore(h, h.child[n][0], n)
    BY BesideStart
  <2>3. e \in M /\ EndsBefore(InOrder(h), e, n)
    BY <1>1, <2>1, <2>2, LastBefore
  <2>4. e # NULL /\ One(e) = <<e>>
    BY <2>3, NullNotNode DEF Tree, One
  <2>5. StartsAfter(InOrder(h), n, e)
    <3> HIDE DEF e
    <3> QED BY <1>1, <2>3, <2>4 DEF EndsBefore, StartsAfter
  <2> QED BY <1>2, <1>3, <2>3, <2>5
<1>4. CASE h.child[n][0] = NULL
  BY <1>2, <1>4, AloneOf, ClimbBack
<1> QED BY <1>3, <1>4

\* begin() is the first node, and -- of end() the last one.
LEMMA EndsAre ==
  ASSUME NEW h \in Heap, NEW M, NEW sub, Tree(h, M, sub), h.root # NULL
  PROVE  /\ Begin(h) \in M /\ StartsAfter(InOrder(h), Begin(h), NULL)
         /\ Decrement(h, NULL) \in M /\ EndsBefore(InOrder(h), Decrement(h, NULL), NULL)
<1>1. h.root \in M /\ NULL \in NodeOrNull
  BY DEF Tree, Linked, NodeOrNull
<1>2. JustBefore(h, h.root, NULL) /\ JustAfter(h, h.root, NULL)
  BY RootStart
<1>3. LET e == Extreme(h, h.root, 0) IN e \in M /\ StartsAfter(InOrder(h), e, NULL)
  BY <1>1, <1>2, FirstAfter
<1>4. LET e == Extreme(h, h.root, 1) IN e \in M /\ EndsBefore(InOrder(h), e, NULL)
  BY <1>1, <1>2, LastBefore
<1> QED BY <1>3, <1>4 DEF Begin, Decrement

\* Positions of neighbours: the node behind the one at j is at j + 1,
LEMMA EndsPlace ==
  ASSUME NEW l \in Seq(Nodes), Distinct(l), NEW n \in Nodes, NEW m \in NodeOrNull,
         EndsBefore(l, n, m), NEW j \in DOMAIN l, l[j] = n
  PROVE  m = IF j < Len(l) THEN l[j + 1] ELSE NULL
<1> DEFINE s == <<n>>
           o == One(m)
<1>1. PICK p \in Seq(Nodes), v \in Seq(Nodes) : l = (p \o s) \o (o \o v) /\ (m = NULL => v = <<>>)
  BY DEF EndsBefore
<1>2. s \in Seq(Nodes) /\ Len(s) = 1 /\ o \in Seq(Nodes)
  BY SingleSequence, OneFacts
<1> DEFINE x == p \o s
           y == o \o v
<1>3. /\ x \in Seq(Nodes) /\ Len(x) = Len(p) + 1 /\ y \in Seq(Nodes)
      /\ Len(p) \in Nat /\ Len(y) = Len(o) + Len(v) /\ Len(v) \in Nat
  BY <1>2, Lengths
<1>4. l = x \o y
  BY <1>1
<1>5. j = Len(p) + 1
  <2> HIDE DEF y
  <2>1. Len(p) + 1 \in DOMAIN l /\ l[Len(p) + 1] = n
    BY <1>3, <1>4, AtSplit
  <2> QED BY <2>1 DEF Distinct
<1> HIDE DEF s, o
<1>6. CASE m = NULL
  <2>1. y = <<>>
    BY <1>1, <1>2, <1>6, ConcatEmptySeq DEF One, o
  <2> HIDE DEF x, y
  <2>2. l = x
    BY <1>3, <1>4, <2>1, ConcatEmptySeq
  <2>3. Len(l) = j
    BY <1>3, <1>5, <2>2
  <2> QED BY <1>3, <1>5, <1>6, <2>3
<1>7. CASE m # NULL
  <2>1. m \in Nodes /\ o = <<m>>
    BY <1>7 DEF One, NodeOrNull, o
  <2> HIDE DEF x
  <2>2. l = (x \o <<m>>) \o v
    <3>1. x \in Seq(Nodes) /\ o \in Seq(Nodes) /\ v \in Seq(Nodes)
      BY <1>2, <1>3
    <3>2. x \o (o \o v) = (x \o o) \o v
      <4> HIDE DEF y
      <4> QED BY ONLY <3>1, Regrouped
    <3> QED BY <1>4, <2>1, <3>2
  <2> HIDE DEF y
  <2>3. Len(x) + 1 \in DOMAIN l /\ l[Len(x) + 1] = m
    BY <1>3, <2>1, <2>2, AtSplit
  <2>4. j < Len(l) /\ l[j + 1] = m
    <3>1. DOMAIN l = 1 .. Len(l) /\ Len(l) \in Nat
      BY LenProperties
    <3>2. Len(x) + 1 = j + 1
      BY <1>3, <1>5
    <3> QED BY <1>3, <1>5, <2>3, <3>1, <3>2
  <2> QED BY <2>4
<1> QED BY <1>6, <1>7

\* and the one in front of it at j - 1.
LEMMA StartsPlace ==
  ASSUME NEW l \in Seq(Nodes), Distinct(l), NEW n \in Nodes, NEW m \in NodeOrNull,
         StartsAfter(l, n, m), NEW j \in DOMAIN l, l[j] = n
  PROVE  m = IF j > 1 THEN l[j - 1] ELSE NULL
<1> DEFINE s == <<n>>
           o == One(m)
<1>1. PICK u \in Seq(Nodes), q \in Seq(Nodes) : l = (u \o o) \o (s \o q) /\ (m = NULL => u = <<>>)
  BY DEF StartsAfter
<1>2. s \in Seq(Nodes) /\ Len(s) = 1 /\ o \in Seq(Nodes)
  BY SingleSequence, OneFacts
<1> DEFINE x == u \o o
           y == s \o q
<1>3. /\ x \in Seq(Nodes) /\ Len(x) = Len(u) + Len(o) /\ y \in Seq(Nodes) /\ Len(u) \in Nat
      /\ Len(x) \in Nat
  BY <1>2, Lengths
<1>4. l = x \o y
  BY <1>1
<1>5. j = Len(x) + 1
  <2>1. x \o (s \o q) = (x \o s) \o q
    <3> HIDE DEF x, s
    <3> QED BY <1>2, <1>3, Regrouped
  <2>2. l = (x \o <<n>>) \o q
    BY <1>4, <2>1
  <2> HIDE DEF x
  <2>3. Len(x) + 1 \in DOMAIN l /\ l[Len(x) + 1] = n
    BY <1>3, <2>2, AtSplit
  <2> QED BY <2>3 DEF Distinct
<1> HIDE DEF s, o
<1>6. CASE m = NULL
  <2>1. Len(u) = 0 /\ Len(o) = 0
    BY <1>1, <1>6, NoElements DEF One, o
  <2> HIDE DEF x
  <2> QED BY <1>3, <1>5, <1>6, <2>1
<1>7. CASE m # NULL
  <2>1. m \in Nodes /\ o = <<m>>
    BY <1>7 DEF One, NodeOrNull, o
  <2>2. Len(o) = 1
    BY <2>1, SingleSequence
  <2> HIDE DEF y
  <2>3. l = (u \o <<m>>) \o y
    BY <1>4, <2>1
  <2>4. l[Len(u) + 1] = m
    BY <1>3, <2>1, <2>3, AtSplit
  <2> HIDE DEF x
  <2>5. j > 1 /\ j - 1 = Len(u) + 1
    BY <1>3, <1>5, <2>2
  <2> QED BY <2>4, <2>5
<1> QED BY <1>6, <1>7

\* Iterators go through the nodes in their order, in both directions and out at
\* both ends.
THEOREM IteratorsCorrect == Spec => []IteratorsWalk
<1>1. Inv => IteratorsWalk
  <2> SUFFICES ASSUME Inv PROVE IteratorsWalk
    OBVIOUS
  <2> DEFINE l == InOrder(t)
  <2>1. PICK sub : Tree(t, members, sub)
    BY TreeAlways
  <2>2. t \in Heap
    BY TreeAlways
  <2>3. l \in Seq(Nodes) /\ Distinct(l) /\ Elements(l) = members /\ (t.root = NULL => l = <<>>)
    BY <2>1, <2>2, OrderFacts
  <2>4. members \subseteq Nodes /\ members \cup {NULL} \subseteq NodeOrNull
        /\ (t.root = NULL => members = {})
    BY <2>1 DEF Tree, NodeOrNull, Subtrees, Sub
  <2>5. ASSUME NEW j \in DOMAIN l
        PROVE  /\ Increment(t, l[j]) = IF j < Len(l) THEN l[j + 1] ELSE NULL
               /\ Decrement(t, l[j]) = IF j > 1 THEN l[j - 1] ELSE NULL
    <3> DEFINE n == l[j]
    <3>1. n \in members
      BY <2>3 DEF Elements
    <3>2. /\ Increment(t, n) \in NodeOrNull /\ EndsBefore(l, n, Increment(t, n))
          /\ Decrement(t, n) \in NodeOrNull /\ StartsAfter(l, n, Decrement(t, n))
      <4> HIDE DEF n
      <4> QED BY <2>1, <2>2, <2>4, <3>1, IncrementIs, DecrementIs
    <3> HIDE DEF l
    <3>3. n \in Nodes /\ l[j] = n
      BY <2>4, <3>1
    <3> HIDE DEF n
    <3>4. Increment(t, n) = IF j < Len(l) THEN l[j + 1] ELSE NULL
      BY <2>3, <3>2, <3>3, EndsPlace
    <3>5. Decrement(t, n) = IF j > 1 THEN l[j - 1] ELSE NULL
      BY <2>3, <3>2, <3>3, StartsPlace
    <3> QED BY <3>4, <3>5 DEF n
  <2>6. l # <<>> => Begin(t) = l[1] /\ Decrement(t, NULL) = l[Len(l)]
    <3> SUFFICES ASSUME l # <<>> PROVE Begin(t) = l[1] /\ Decrement(t, NULL) = l[Len(l)]
      OBVIOUS
    <3>1. /\ Begin(t) \in members /\ StartsAfter(l, Begin(t), NULL)
          /\ Decrement(t, NULL) \in members /\ EndsBefore(l, Decrement(t, NULL), NULL)
      BY <2>1, <2>2, <2>3, EndsAre
    <3>2. DOMAIN l = 1 .. Len(l) /\ Len(l) \in Nat
      BY <2>3, LenProperties
    <3>3. PICK i \in DOMAIN l, j \in DOMAIN l : l[i] = Begin(t) /\ l[j] = Decrement(t, NULL)
      BY <2>3, <3>1 DEF Elements
    <3> HIDE DEF l
    <3>4. l[i] \in Nodes /\ l[j] \in Nodes /\ NULL \in NodeOrNull
      BY <2>4, <3>1, <3>3 DEF NodeOrNull
    <3>5. NULL = IF i > 1 THEN l[i - 1] ELSE NULL
      BY <2>3, <3>1, <3>3, <3>4, StartsPlace
    <3>6. NULL = IF j < Len(l) THEN l[j + 1] ELSE NULL
      BY <2>3, <3>1, <3>3, <3>4, EndsPlace
    <3>7. \A k \in 1 .. Len(l) : l[k] # NULL
      BY <2>3, <2>4, <3>2, NullNotNode DEF Elements
    <3>8. ~ (i > 1)
      <4> SUFFICES ASSUME i > 1 PROVE FALSE
        OBVIOUS
      <4>1. i - 1 \in 1 .. Len(l)
        BY <3>2
      <4> QED BY <3>5, <3>7, <4>1
    <3>9. ~ (j < Len(l))
      <4> SUFFICES ASSUME j < Len(l) PROVE FALSE
        OBVIOUS
      <4>1. j + 1 \in 1 .. Len(l)
        BY <3>2
      <4> QED BY <3>6, <3>7, <4>1
    <3>10. i = 1 /\ j = Len(l)
      BY <3>2, <3>8, <3>9
    <3> QED BY <3>3, <3>10
  <2>7. l = <<>> => Begin(t) = NULL
    <3>1. l = <<>> => members = {}
      BY <2>3, NoElements
    <3>2. members = {} => t.root = NULL
      BY <2>1 DEF Tree, Linked
    <3> QED BY <3>1, <3>2 DEF Begin
  <2> QED BY <2>5, <2>6, <2>7 DEF IteratorsWalk
<1> QED BY <1>1, Invariance, PTL

-----------------------------------------------------------------------------
(* The searches *)

\* The descent of PartitionPoint.
Descend(h, yes) ==
  CHOOSE descend : descend =
    [at \in NodeOrNull \X NodeOrNull |->
       IF at[1] = NULL THEN at[2]
       ELSE IF at[1] \in yes THEN descend[<<h.child[at[1]][1], at[2]>>]
                             ELSE descend[<<h.child[at[1]][0], at[1]>>]]

\* d follows the links of h as it does.
Descends(h, yes, d) ==
  \A n \in NodeOrNull, pt \in NodeOrNull :
    d[<<n, pt>>] = IF n = NULL THEN pt
                   ELSE IF n \in yes THEN d[<<h.child[n][1], pt>>]
                                     ELSE d[<<h.child[n][0], n>>]

\* The descent is one that does.
LEMMA DescendIs ==
  ASSUME NEW h \in Heap, NEW yes
  PROVE  /\ PartitionPoint(h, yes) = Descend(h, yes)[<<h.root, NULL>>]
         /\ Descends(h, yes, Descend(h, yes))
<1> DEFINE X == NodeOrNull \X NodeOrNull
           Stop == { x \in X : x[1] = NULL }
           Onward(x) == IF x[1] = NULL THEN x
                        ELSE IF x[1] \in yes THEN <<h.child[x[1]][1], x[2]>>
                                             ELSE <<h.child[x[1]][0], x[1]>>
           F == [x \in X |-> Onward(x)]
           G(q) == [at \in X |->
                      IF at[1] = NULL THEN at[2]
                      ELSE IF at[1] \in yes THEN q[<<h.child[at[1]][1], at[2]>>]
                                            ELSE q[<<h.child[at[1]][0], at[1]>>]]
           g == Descend(h, yes)
<1>1. \A n \in Nodes : h.child[n][0] \in NodeOrNull /\ h.child[n][1] \in NodeOrNull
  BY HeapFacts DEF Side
<1>2. \A x \in X : /\ x[1] \in NodeOrNull /\ x[2] \in NodeOrNull
                   /\ x[1] # NULL => x[1] \in Nodes
                   /\ x[1] # NULL => h.child[x[1]][0] \in NodeOrNull /\ h.child[x[1]][1] \in NodeOrNull
  BY <1>1 DEF NodeOrNull
<1>3. F \in [X -> X]
  <2>1. ASSUME NEW x \in X PROVE Onward(x) \in X
    BY <1>2
  <2> QED BY <2>1
<1>4. PICK f : \A x \in X : f[x] = IF x \in Stop THEN x ELSE f[F[x]]
  <2> HIDE DEF F, Stop, X
  <2> QED BY <1>3, Follows
<1> DEFINE q == [x \in X |-> f[x][2]]
<1>5. ASSUME NEW x \in X
      PROVE  q[x] = IF x[1] = NULL THEN x[2]
                    ELSE IF x[1] \in yes THEN q[<<h.child[x[1]][1], x[2]>>]
                                         ELSE q[<<h.child[x[1]][0], x[1]>>]
  <2>1. f[x] = IF x \in Stop THEN x ELSE f[F[x]]
    <3> HIDE DEF Stop, F, X
    <3> QED BY <1>4
  <2>2. x \in Stop <=> x[1] = NULL
    OBVIOUS
  <2>3. F[x] = Onward(x) /\ F[x] \in X
    BY <1>3
  <2>4. q[x] = f[x][2] /\ q[F[x]] = f[F[x]][2]
    BY <2>3
  <2> HIDE DEF Stop, F, X, q
  <2> QED BY <2>1, <2>2, <2>3, <2>4
<1>6. q = G(q)
  <2>1. q = [x \in X |-> q[x]]
    OBVIOUS
  <2> HIDE DEF q, X
  <2> QED BY <1>5, <2>1
<1>7. g = G(g)
  <2> HIDE DEF q
  <2> QED BY <1>6 DEF Descend
<1>8. PartitionPoint(h, yes) = g[<<h.root, NULL>>]
  BY DEF PartitionPoint, Descend
<1> HIDE DEF g
<1>9. ASSUME NEW n \in NodeOrNull, NEW pt \in NodeOrNull
      PROVE  g[<<n, pt>>] = IF n = NULL THEN pt
                            ELSE IF n \in yes THEN g[<<h.child[n][1], pt>>]
                                              ELSE g[<<h.child[n][0], n>>]
  <2>1. <<n, pt>> \in X /\ <<n, pt>>[1] = n /\ <<n, pt>>[2] = pt
    OBVIOUS
  <2>2. \A x \in X : g[x] = IF x[1] = NULL THEN x[2]
                            ELSE IF x[1] \in yes THEN g[<<h.child[x[1]][1], x[2]>>]
                                                 ELSE g[<<h.child[x[1]][0], x[1]>>]
    <3> HIDE DEF X
    <3> QED BY <1>7
  <2> HIDE DEF X
  <2> QED BY <2>1, <2>2
<1> QED BY <1>8, <1>9 DEF g, Descends

\* pt is the first element of v, or NULL if it has none.
Leads(v, pt) ==
  \/ v = <<>> /\ pt = NULL
  \/ pt \in Nodes /\ \E r \in Seq(Nodes) : v = <<pt>> \o r

\* The nodes in front of the part s are in `yes', those behind it are not, and pt
\* is the first of these.
Cut(l, s, pt, yes) ==
  \E u, v \in Seq(Nodes) :
    /\ l = (u \o s) \o v
    /\ Elements(u) \subseteq yes
    /\ Elements(v) \cap yes = {}
    /\ Leads(v, pt)

\* `yes' holds of the first k nodes and of no other.
FirstNodes(l, yes, k) == \A j \in DOMAIN l : l[j] \in yes <=> j <= k

\* n stands between p and q.
Between(l, p, n, q) == l = (p \o <<n>>) \o q

\* Where a node is in it, all in front of it are; where it is not, none behind it is.
LEMMA FirstAround ==
  ASSUME NEW p \in Seq(Nodes), NEW q \in Seq(Nodes), NEW n \in Nodes, NEW l \in Seq(Nodes),
         Between(l, p, n, q), NEW yes, NEW k \in Nat, FirstNodes(l, yes, k)
  PROVE  /\ n \in yes => Elements(p) \subseteq yes
         /\ n \notin yes => Elements(q) \cap yes = {}
<1> USE DEF Between
<1> DEFINE s == <<n>>
           x == p \o s
<1>1. s \in Seq(Nodes) /\ Len(s) = 1
  BY SingleSequence
<1>2. /\ x \in Seq(Nodes) /\ Len(x) = Len(p) + 1 /\ Len(p) \in Nat /\ Len(q) \in Nat
      /\ Len(l) = Len(x) + Len(q)
  <2>1. x \in Seq(Nodes) /\ Len(x) = Len(p) + 1 /\ Len(p) \in Nat
    BY <1>1, Lengths
  <2>2. l = x \o q
    OBVIOUS
  <2> HIDE DEF x
  <2> QED BY <2>1, <2>2, Lengths
<1>3. Len(p) + 1 \in DOMAIN l /\ l[Len(p) + 1] = n
  BY AtSplit
<1>4. ASSUME NEW i \in DOMAIN p PROVE i \in DOMAIN l /\ l[i] = p[i] /\ i <= Len(p) /\ i \in Nat
  <2>1. i \in 1 .. Len(p)
    BY LenProperties
  <2>2. x[i] = p[i]
    BY <1>1, <1>2, <2>1, ConcatProperties
  <2> HIDE DEF x
  <2>3. l[i] = x[i]
    <3>1. l = x \o q
      BY DEF x
    <3> QED BY <1>2, <2>1, <3>1, ConcatProperties
  <2>4. DOMAIN l = 1 .. Len(l)
    BY LenProperties
  <2> QED BY <1>2, <2>1, <2>2, <2>3, <2>4
<1>5. ASSUME NEW i \in DOMAIN q
      PROVE  i + Len(x) \in DOMAIN l /\ l[i + Len(x)] = q[i] /\ i \in Nat /\ i >= 1
  <2>1. i \in 1 .. Len(q)
    BY LenProperties
  <2>2. l = x \o q
    OBVIOUS
  <2> HIDE DEF x
  <2>3. i + Len(x) \in 1 .. Len(x) + Len(q) /\ ~ (i + Len(x) <= Len(x)) /\ (i + Len(x)) - Len(x) = i
    BY <1>2, <2>1
  <2>4. l[i + Len(x)] = q[i]
    BY <1>2, <2>2, <2>3, ConcatProperties
  <2>5. DOMAIN l = 1 .. Len(l)
    BY LenProperties
  <2> QED BY <1>2, <2>1, <2>3, <2>4, <2>5
<1> HIDE DEF x, s
<1>6. n \in yes <=> Len(p) + 1 <= k
  BY <1>3 DEF FirstNodes
<1>7. ASSUME n \in yes, NEW i \in DOMAIN p PROVE p[i] \in yes
  <2>1. i <= k
    BY <1>2, <1>4, <1>6, <1>7
  <2> QED BY <1>4, <2>1 DEF FirstNodes
<1>8. ASSUME n \notin yes, NEW i \in DOMAIN q PROVE q[i] \notin yes
  <2>1. ~ (i + Len(x) <= k)
    BY <1>2, <1>5, <1>6, <1>8
  <2> QED BY <1>5, <2>1 DEF FirstNodes
<1> QED BY <1>7, <1>8 DEF Elements

\* A pass of the descent keeps the cut,
LEMMA CutStep ==
  ASSUME NEW h \in Heap, NEW M, NEW sub, Tree(h, M, sub), NEW n \in M, NEW pt,
         NEW yes, NEW k \in Nat, FirstNodes(InOrder(h), yes, k),
         Cut(InOrder(h), InOrderBelow(h)[n], pt, yes)
  PROVE  /\ n \in yes => Cut(InOrder(h), InOrderBelow(h)[h.child[n][1]], pt, yes)
         /\ n \notin yes => Cut(InOrder(h), InOrderBelow(h)[h.child[n][0]], n, yes)
<1> DEFINE w == InOrderBelow(h)
           l == InOrder(h)
           r == <<n>>
<1>1. PICK u \in Seq(Nodes), v \in Seq(Nodes) :
        /\ l = (u \o w[n]) \o v
        /\ Elements(u) \subseteq yes /\ Elements(v) \cap yes = {} /\ Leads(v, pt)
  BY DEF Cut
<1>2. PICK a \in Seq(Nodes), b \in Seq(Nodes) : Parts(InOrderBelow(h), h, n, a, b)
  BY WalkParts
<1>3. /\ a = w[h.child[n][0]] /\ b = w[h.child[n][1]] /\ w[n] = (a \o r) \o b
      /\ r \in Seq(Nodes)
  BY <1>2 DEF Parts
<1>4. n \in Nodes /\ l \in Seq(Nodes) /\ Elements(r) = {n} /\ r \in Seq(Nodes)
  <2>1. n \in Nodes
    BY DEF Tree
  <2> QED BY <2>1, OrderFacts, SingleSequence
<1> HIDE DEF w, r
<1>5. l = (u \o ((a \o r) \o b)) \o v
  BY <1>1, <1>3
<1> HIDE DEF l
<1> DEFINE p == u \o a
           q == b \o v
<1>6. p \in Seq(Nodes) /\ q \in Seq(Nodes)
  BY Associative
<1>7. l = (p \o r) \o q /\ l = p \o (r \o q)
  <2>1. /\ Cat(Cat(u, Cat(Cat(a, r), b)), v) = Cat(Cat(Cat(u, a), r), Cat(b, v))
        /\ Cat(Cat(u, Cat(Cat(a, r), b)), v) = Cat(Cat(u, a), Cat(r, Cat(b, v)))
    BY <1>4, FiveParts
  <2> QED BY <1>5, <2>1 DEF Cat
<1> HIDE DEF p
<1>8. CASE n \in yes
  <2>1. Elements(p) \subseteq yes
    <3> HIDE DEF q
    <3>1. Between(l, p, n, q) /\ FirstNodes(l, yes, k)
      BY <1>7 DEF r, l, Between
    <3> QED BY <1>4, <1>6, <1>8, <3>1, FirstAround
  <2> DEFINE x == p \o r
  <2>2. x \in Seq(Nodes) /\ Elements(x) = Elements(p) \cup {n}
    BY <1>3, <1>4, <1>6, Associative, ConcatElements
  <2>3. l = x \o (b \o v)
    BY <1>7
  <2> HIDE DEF x
  <2>4. l = (x \o b) \o v
    BY <2>2, <2>3, Regrouped
  <2>5. Elements(x) \subseteq yes
    BY <1>8, <2>1, <2>2
  <2>6. Cut(l, b, pt, yes)
    BY <1>1, <2>2, <2>4, <2>5 DEF Cut
  <2> QED BY <1>3, <1>8, <2>6 DEF l, w
<1>9. CASE n \notin yes
  <2> HIDE DEF q
  <2>1. Elements(q) \cap yes = {}
    <3>1. Between(l, p, n, q) /\ FirstNodes(l, yes, k)
      BY <1>7 DEF r, l, Between
    <3> QED BY <1>4, <1>6, <1>9, <3>1, FirstAround
  <2> DEFINE y == r \o q
  <2>2. y \in Seq(Nodes) /\ Elements(y) = {n} \cup Elements(q)
    BY <1>3, <1>4, <1>6, Associative, ConcatElements
  <2>3. Leads(y, n)
    BY <1>4, <1>6 DEF Leads, r
  <2>4. l = (u \o a) \o y
    BY <1>7 DEF p
  <2> HIDE DEF y
  <2>5. Elements(y) \cap yes = {}
    BY <1>9, <2>1, <2>2
  <2>6. Cut(l, a, n, yes)
    BY <1>1, <2>2, <2>3, <2>4, <2>5 DEF Cut
  <2> QED BY <1>3, <1>9, <2>6 DEF l, w
<1> QED BY <1>8, <1>9

\* so that it ends with one.
LEMMA DescendFinds ==
  ASSUME NEW h \in Heap, NEW M, NEW sub, Tree(h, M, sub), NEW yes, NEW k \in Nat,
         FirstNodes(InOrder(h), yes, k), NEW x \in M \cup {NULL}, NEW pt0 \in NodeOrNull,
         Cut(InOrder(h), InOrderBelow(h)[x], pt0, yes)
  PROVE  Cut(InOrder(h), <<>>, Descend(h, yes)[<<x, pt0>>], yes)
<1> DEFINE w == InOrderBelow(h)
           l == InOrder(h)
           D == Descend(h, yes)
           P == { n \in M : \A pt \in NodeOrNull :
                    Cut(l, w[n], pt, yes) => Cut(l, <<>>, D[<<n, pt>>], yes) }
<1>1. w[NULL] = <<>> /\ M \subseteq NodeOrNull /\ NULL \in NodeOrNull /\ NULL \notin M
  BY InOrderWalks, NullNotNode DEF Walks, Tree, NodeOrNull
<1>2. \A n \in NodeOrNull, pt \in NodeOrNull :
        D[<<n, pt>>] = IF n = NULL THEN pt
                       ELSE IF n \in yes THEN D[<<h.child[n][1], pt>>]
                                         ELSE D[<<h.child[n][0], n>>]
  <2>1. Descends(h, yes, D)
    BY DescendIs
  <2> HIDE DEF D
  <2> QED BY <2>1 DEF Descends
<1> HIDE DEF D
<1>3. ASSUME NEW pt \in NodeOrNull, Cut(l, w[NULL], pt, yes)
      PROVE  Cut(l, <<>>, D[<<NULL, pt>>], yes)
  BY <1>1, <1>2, <1>3
<1>4. ASSUME NEW n \in M, \A i \in Side : h.child[n][i] # NULL => h.child[n][i] \in P
      PROVE  n \in P
  <2> SUFFICES ASSUME NEW pt \in NodeOrNull, Cut(l, w[n], pt, yes)
               PROVE  Cut(l, <<>>, D[<<n, pt>>], yes)
    OBVIOUS
  <2>1. /\ n \in yes => Cut(l, w[h.child[n][1]], pt, yes)
        /\ n \notin yes => Cut(l, w[h.child[n][0]], n, yes)
    BY CutStep
  <2>2. \A i \in Side, q \in NodeOrNull :
          Cut(l, w[h.child[n][i]], q, yes) => Cut(l, <<>>, D[<<h.child[n][i], q>>], yes)
    BY <1>3, <1>4
  <2>3. n \in NodeOrNull /\ n # NULL /\ 0 \in Side /\ 1 \in Side
    BY <1>1 DEF Side
  <2>4. CASE n \in yes
    <3>1. Cut(l, <<>>, D[<<h.child[n][1], pt>>], yes)
      BY <2>1, <2>2, <2>3, <2>4
    <3>2. D[<<n, pt>>] = D[<<h.child[n][1], pt>>]
      BY <1>2, <2>3, <2>4
    <3> QED BY <3>1, <3>2
  <2>5. CASE n \notin yes
    <3>1. Cut(l, <<>>, D[<<h.child[n][0], n>>], yes)
      BY <2>1, <2>2, <2>3, <2>5
    <3>2. D[<<n, pt>>] = D[<<h.child[n][0], n>>]
      BY <1>2, <2>3, <2>5
    <3> QED BY <3>1, <3>2
  <2> QED BY <2>4, <2>5
<1>5. M \subseteq P
  <2> HIDE DEF P
  <2> QED BY <1>4, TreeUp
<1> QED BY <1>3, <1>5 DEF D

\* The cut then is behind the first k nodes.
LEMMA CutPlace ==
  ASSUME NEW l \in Seq(Nodes), NEW yes, NEW k \in Nat, FirstNodes(l, yes, k), NEW pt,
         Cut(l, <<>>, pt, yes)
  PROVE  pt = At(l, k + 1)
<1>1. PICK u \in Seq(Nodes), v \in Seq(Nodes) :
        /\ l = (u \o <<>>) \o v
        /\ Elements(u) \subseteq yes /\ Elements(v) \cap yes = {} /\ Leads(v, pt)
  BY DEF Cut
<1>2. l = u \o v
  BY <1>1, ConcatEmptySeq
<1>3. /\ DOMAIN u = 1 .. Len(u) /\ DOMAIN v = 1 .. Len(v) /\ Len(u) \in Nat /\ Len(v) \in Nat
      /\ DOMAIN l = 1 .. Len(u) + Len(v)
      /\ \A i \in 1 .. Len(u) + Len(v) : l[i] = IF i <= Len(u) THEN u[i] ELSE v[i - Len(u)]
  BY <1>2, ConcatProperties, LenProperties
<1>4. ASSUME NEW j \in 1 .. Len(u) PROVE j <= k
  <2>1. j \in DOMAIN l /\ l[j] = u[j] /\ j \in DOMAIN u
    BY <1>3
  <2> QED BY <1>1, <2>1 DEF FirstNodes, Elements
<1>5. CASE v = <<>>
  <2>1. pt = NULL
    <3>1. ASSUME NEW r \in Seq(Nodes), pt \in Nodes, v = <<pt>> \o r PROVE FALSE
      <4>1. <<pt>> \in Seq(Nodes) /\ Len(<<pt>>) = 1
        BY <3>1, SingleSequence
      <4> DEFINE s == <<pt>>
      <4> HIDE DEF s
      <4>2. s \in Seq(Nodes) /\ Len(s) = 1 /\ v = s \o r
        BY <3>1, <4>1 DEF s
      <4>3. Len(v) = Len(s) + Len(r) /\ Len(r) \in Nat
        BY <4>2, Lengths
      <4>4. Len(v) = 1 + Len(r) /\ Len(r) \in Nat
        BY <4>2, <4>3
      <4> QED BY <1>5, <4>4, NoElements
    <3> QED BY <1>1, <3>1 DEF Leads
  <2>2. Len(v) = 0
    BY <1>5, NoElements
  <2>3. Len(u) <= k
    <3>1. CASE Len(u) = 0
      BY <3>1
    <3>2. CASE Len(u) # 0
      BY <1>3, <1>4, <3>2
    <3> QED BY <3>1, <3>2
  <2>4. k + 1 \notin DOMAIN l
    BY <1>3, <2>2, <2>3
  <2> QED BY <2>1, <2>4 DEF At
<1>6. CASE v # <<>>
  <2>1. PICK r \in Seq(Nodes) : pt \in Nodes /\ v = <<pt>> \o r
    BY <1>1, <1>6 DEF Leads
  <2>2. Len(v) >= 1 /\ v[1] = pt
    <3> DEFINE s == <<pt>>
    <3>1. s \in Seq(Nodes) /\ Len(s) = 1 /\ s[1] = pt /\ Len(r) \in Nat
      BY <2>1, SingleSequence, LenProperties
    <3>2. v = s \o r
      BY <2>1
    <3> HIDE DEF s
    <3>3. Len(v) = 1 + Len(r)
      <4>1. Len(v) = Len(s) + Len(r)
        BY <3>1, <3>2, Lengths
      <4> QED BY <3>1, <4>1
    <3>4. 1 \in 1 .. Len(s) + Len(r)
      BY <3>1
    <3>5. v[1] = s[1]
      BY <3>1, <3>2, <3>4, ConcatProperties
    <3> QED BY <3>1, <3>3, <3>5
  <2> DEFINE m == Len(u) + 1
  <2>3. m \in DOMAIN l /\ l[m] = pt /\ 1 \in DOMAIN v
    BY <1>3, <2>2
  <2>4. pt \notin yes
    BY <1>1, <2>2, <2>3 DEF Elements
  <2>5. ~ (m <= k)
    <3> HIDE DEF m
    <3> QED BY <2>3, <2>4 DEF FirstNodes
  <2>6. Len(u) = k
    <3>1. CASE Len(u) = 0
      BY <2>5, <3>1
    <3>2. CASE Len(u) # 0
      <4>1. Len(u) <= k
        BY <1>3, <1>4, <3>2
      <4>2. Len(u) \in Nat
        BY <1>3
      <4> QED BY <2>5, <4>1, <4>2
    <3> QED BY <3>1, <3>2
  <2> QED BY <2>3, <2>6 DEF At
<1> QED BY <1>5, <1>6

\* partition_point finds the node behind those that the predicate holds for.
LEMMA PartitionPointIs ==
  ASSUME NEW h \in Heap, NEW M, NEW sub, Tree(h, M, sub), NEW yes, NEW k \in Nat,
         FirstNodes(InOrder(h), yes, k)
  PROVE  PartitionPoint(h, yes) = At(InOrder(h), k + 1)
<1> DEFINE l == InOrder(h)
<1>1. l \in Seq(Nodes) /\ l = InOrderBelow(h)[h.root]
  BY OrderFacts DEF InOrder
<1>2. h.root \in M \cup {NULL} /\ NULL \in NodeOrNull
  BY DEF Tree, Linked, NodeOrNull
<1> HIDE DEF l
<1>3. Cut(l, l, NULL, yes)
  <2>1. <<>> \in Seq(Nodes) /\ Elements(<<>>) = {}
    BY NoElements
  <2>2. l = (<<>> \o l) \o <<>>
    BY <1>1, ConcatEmptySeq
  <2>3. Leads(<<>>, NULL)
    BY DEF Leads
  <2> QED BY <2>1, <2>2, <2>3 DEF Cut
<1>4. Cut(InOrder(h), InOrderBelow(h)[h.root], NULL, yes)
  BY <1>1, <1>3 DEF l
<1>5. Cut(InOrder(h), <<>>, Descend(h, yes)[<<h.root, NULL>>], yes)
  BY <1>2, <1>4, DescendFinds
<1>6. PartitionPoint(h, yes) = Descend(h, yes)[<<h.root, NULL>>]
  BY DescendIs
<1> QED BY <1>1, <1>5, <1>6, CutPlace DEF l

\* The keys of BoundsCorrect: position j has the key (j - 1) \div run.
LEMMA RunFacts ==
  ASSUME NEW run \in 1 .. 3, NEW j \in Nat, j >= 1, NEW k \in Nat
  PROVE  /\ (j - 1) \div run < k <=> j <= run * k
         /\ ~ (k < (j - 1) \div run) <=> j <= run * (k + 1)
         /\ run * k \in Nat /\ run * (k + 1) \in Nat
<1>1. CASE run = 1
  BY <1>1
<1>2. CASE run = 2
  BY <1>2
<1>3. CASE run = 3
  BY <1>3
<1> QED BY <1>1, <1>2, <1>3

\* lower_bound finds the first node of a key, and upper_bound the first one behind it,
\* in every tree whose keys ascend.
THEOREM SearchesCorrect == Spec => []BoundsCorrect
<1>1. Inv => BoundsCorrect
  <2> SUFFICES ASSUME Inv PROVE BoundsCorrect
    OBVIOUS
  <2> DEFINE l == InOrder(t)
             place == [n \in members |-> CHOOSE j \in DOMAIN l : l[j] = n]
  <2>1. PICK sub : Tree(t, members, sub)
    BY TreeAlways
  <2>2. t \in Heap
    BY TreeAlways
  <2>3. l \in Seq(Nodes) /\ Distinct(l) /\ Elements(l) = members /\ DOMAIN l = 1 .. Len(l)
        /\ Len(l) \in Nat
    BY <2>1, <2>2, OrderFacts, LenProperties
  <2>4. Size \in Nat
    <3>1. IsFiniteSet(members)
      BY <2>1, NodesFinite, FS_Subset DEF Tree
    <3> QED BY <3>1, FS_CardinalityType DEF Size
  <2>5. ASSUME NEW j \in DOMAIN l PROVE l[j] \in members /\ place[l[j]] = j /\ j \in Nat /\ j >= 1
    <3>1. l[j] \in members
      BY <2>3 DEF Elements
    <3> DEFINE n == l[j]
    <3>2. (CHOOSE i \in DOMAIN l : l[i] = n) = j
      <4> HIDE DEF l
      <4> QED BY <2>3 DEF Distinct
    <3> QED BY <2>3, <3>1, <3>2
  <2> HIDE DEF place
  <2>6. ASSUME NEW run \in 1 .. 3, NEW k \in 0 .. Size
        PROVE  LET key == [n \in members |-> (place[n] - 1) \div run]
               IN  /\ LowerBound(t, key, k) = At(l, run * k + 1)
                   /\ UpperBound(t, key, k) = At(l, run * (k + 1) + 1)
    <3> DEFINE key == [n \in members |-> (place[n] - 1) \div run]
               low == { n \in DOMAIN key : key[n] < k }
               up  == { n \in DOMAIN key : ~ (k < key[n]) }
    <3>1. k \in Nat /\ run * k \in Nat /\ run * (k + 1) \in Nat
      BY <2>4, RunFacts
    <3>2. FirstNodes(l, low, run * k) /\ FirstNodes(l, up, run * (k + 1))
      <4>1. ASSUME NEW j \in DOMAIN l
            PROVE  (l[j] \in low <=> j <= run * k) /\ (l[j] \in up <=> j <= run * (k + 1))
        <5>1. key[l[j]] = (j - 1) \div run /\ l[j] \in DOMAIN key
          BY <2>5
        <5> HIDE DEF key
        <5>2. (l[j] \in low <=> key[l[j]] < k) /\ (l[j] \in up <=> ~ (k < key[l[j]]))
          BY <5>1
        <5> HIDE DEF low, up
        <5> QED BY <2>5, <3>1, <5>1, <5>2, RunFacts
      <4> HIDE DEF low, up
      <4> QED BY <4>1 DEF FirstNodes
    <3>3. LowerBound(t, key, k) = PartitionPoint(t, low)
      BY DEF LowerBound
    <3>4. UpperBound(t, key, k) = PartitionPoint(t, up)
      BY DEF UpperBound
    <3> HIDE DEF low, up
    <3>5. PartitionPoint(t, low) = At(l, run * k + 1)
      BY <2>1, <2>2, <3>1, <3>2, PartitionPointIs
    <3>6. PartitionPoint(t, up) = At(l, run * (k + 1) + 1)
      BY <2>1, <2>2, <3>1, <3>2, PartitionPointIs
    <3> QED BY <3>3, <3>4, <3>5, <3>6
  <2> QED BY <2>6 DEF BoundsCorrect, place
<1> QED BY <1>1, Invariance, PTL

=============================================================================
