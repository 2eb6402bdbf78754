----------------------------- MODULE FactoryProofs -----------------------------
(***************************************************************************)
(* The invariants of Factory and of ReuseFactory for nodes of any size and *)
(* any number of slots: release() destroys every object once.              *)
(***************************************************************************)
EXTENDS ReuseFactoryProps, TLAPS

-----------------------------------------------------------------------------
(* Stacks of different things: what is in them *)

\* IsInjective, on sequences.
Distinct(s) == \A i, j \in DOMAIN s : s[i] = s[j] => i = j

\* Taking the last element of a sequence without repetition.
LEMMA PopFacts ==
  ASSUME NEW S, NEW s \in Seq(S), s # << >>, Distinct(s)
  PROVE  /\ Front(s) \in Seq(S) /\ Distinct(Front(s))
         /\ Last(s) \in ToSet(s) /\ ToSet(Front(s)) = ToSet(s) \ {Last(s)}
<1> DEFINE n == Len(s)
<1>1. n \in Nat /\ n > 0 /\ DOMAIN s = 1 .. n
  OBVIOUS
<1>2. Front(s) \in Seq(S) /\ Len(Front(s)) = n - 1
      /\ \A i \in 1 .. n - 1 : Front(s)[i] = s[i]
  BY <1>1 DEF Front
<1>3. DOMAIN Front(s) = 1 .. n - 1
  BY <1>1, <1>2
<1>4. Distinct(Front(s))
  BY <1>1, <1>2, <1>3 DEF Distinct
<1>5. Last(s) = s[n] /\ Last(s) \in ToSet(s)
  BY <1>1 DEF Last, ToSet
<1>6. ToSet(Front(s)) = { s[i] : i \in 1 .. n - 1 }
  BY <1>2, <1>3 DEF ToSet
<1>7. { s[i] : i \in 1 .. n - 1 } = { s[i] : i \in 1 .. n } \ {s[n]}
  BY <1>1 DEF Distinct
<1>8. ToSet(s) = { s[i] : i \in 1 .. n }
  BY <1>1 DEF ToSet
<1> QED BY <1>2, <1>4, <1>5, <1>6, <1>7, <1>8

\* Adding a new element to a sequence without repetition.
LEMMA PushFacts ==
  ASSUME NEW S, NEW s \in Seq(S), NEW p \in S, p \notin ToSet(s), Distinct(s)
  PROVE  /\ Append(s, p) \in Seq(S) /\ Distinct(Append(s, p))
         /\ ToSet(Append(s, p)) = ToSet(s) \cup {p}
<1> DEFINE n == Len(s)
           t == Append(s, p)
<1>1. n \in Nat /\ DOMAIN s = 1 .. n /\ ToSet(s) = { s[i] : i \in 1 .. n }
  BY DEF ToSet
<1>2. t \in Seq(S) /\ DOMAIN t = 1 .. n + 1 /\ t[n + 1] = p
      /\ \A i \in 1 .. n : t[i] = s[i]
  BY <1>1
<1>3. ToSet(t) = { t[i] : i \in 1 .. n + 1 }
  BY <1>2 DEF ToSet
<1>4. \A i \in 1 .. n + 1 : i \in 1 .. n \/ i = n + 1
  BY <1>1
<1> HIDE DEF n, t
<1>5. ToSet(t) = ToSet(s) \cup {p}
  <2>1. \A i \in 1 .. n + 1 : t[i] \in ToSet(s) \cup {p}
    BY <1>1, <1>2, <1>4
  <2>2. p \in ToSet(t)
    BY <1>1, <1>2, <1>3
  <2>3. \A i \in 1 .. n : s[i] \in ToSet(t)
    BY <1>1, <1>2, <1>3
  <2> QED BY <1>1, <1>3, <2>1, <2>2, <2>3
<1>6. Distinct(t)
  <2> SUFFICES ASSUME NEW i \in 1 .. n + 1, NEW j \in 1 .. n + 1, t[i] = t[j]
               PROVE  i = j
    BY <1>2 DEF Distinct
  <2>1. \A k \in 1 .. n : s[k] # p
    BY <1>1
  <2>2. CASE i \in 1 .. n /\ j \in 1 .. n
    BY <1>1, <1>2, <2>2 DEF Distinct
  <2>3. CASE i = n + 1 \/ j = n + 1
    BY <1>2, <1>4, <2>1, <2>3
  <2> QED BY <1>4, <2>2, <2>3
<1> QED BY <1>2, <1>5, <1>6 DEF t

-----------------------------------------------------------------------------
(* The invariant *)

-----------------------------------------------------------------------------
(* Entries by number: which node and which entry of it *)

\* A node has entries.
LEMMA NodeSizeNat == NodeSize \in Nat /\ NodeSize > 0
  BY FactoryAssumption

Places == 0 .. NodeSize - 1
NodeType == [Places -> Slots \cup {NULL}]

\* Every number has one node and one place in it.
LEMMA Divided ==
  \A k \in Nat : /\ k \div NodeSize \in Nat /\ (k % NodeSize) \in Places
                 /\ k = (k \div NodeSize) * NodeSize + (k % NodeSize)
  BY NodeSizeNat DEF Places

\* A number has no other node and place.
LEMMA DividedUnique ==
  ASSUME NEW q \in Nat, NEW r \in Places, NEW m \in Nat, NEW s \in Places,
         q * NodeSize + r = m * NodeSize + s
  PROVE  q = m /\ r = s
  BY NodeSizeNat DEF Places

\* Number q * NodeSize + r is place r of node q + 1.
LEMMA DividedOf ==
  ASSUME NEW q \in Nat, NEW r \in Places, NEW n \in Nat, n = q * NodeSize + r
  PROVE  n \div NodeSize = q /\ (n % NodeSize) = r
<1>1. /\ n \div NodeSize \in Nat /\ (n % NodeSize) \in Places
      /\ n = (n \div NodeSize) * NodeSize + (n % NodeSize)
  BY Divided
<1> QED BY <1>1, DividedUnique

\* Products with the size of a node keep the order.
LEMMA TimesOrder ==
  ASSUME NEW m \in Nat, NEW n \in Nat, m <= n
  PROVE  m * NodeSize <= n * NodeSize /\ m * NodeSize \in Nat
  BY NodeSizeNat

\* A number below that of n full nodes is in one of them.
LEMMA NodeOf ==
  ASSUME NEW k \in Nat, NEW n \in Nat, k < n * NodeSize
  PROVE  k \div NodeSize + 1 \in 1 .. n
<1> DEFINE q == k \div NodeSize
           t == q * NodeSize
<1>1. q \in Nat /\ (k % NodeSize) \in Nat /\ k = t + (k % NodeSize)
  BY Divided DEF Places
<1>2. t \in Nat
  BY <1>1, TimesOrder
<1>3. ASSUME n <= q PROVE FALSE
  <2>1. n * NodeSize <= t /\ n * NodeSize \in Nat
    BY <1>1, <1>3, TimesOrder
  <2> HIDE DEF t
  <2> QED BY <1>1, <1>2, <2>1
<1> QED BY <1>1, <1>3

-----------------------------------------------------------------------------
(* What push does to the list *)

\* The cursor names the entry behind the last one.
LEMMA CursorFacts ==
  ASSUME TypeOK, CursorBehindLast
  PROVE  /\ Node \in Nat /\ Node >= 1 /\ Node <= Len(objects) + 1
         /\ Index \in Places
         /\ obj_size = (Node - 1) * NodeSize + Index
<1>1. /\ objects \in Seq(NodeType) /\ Len(objects) \in Nat
      /\ obj_it \in 0 .. Len(objects) /\ obj_i \in 0 .. NodeSize /\ obj_size \in Nat
  BY FactoryAssumption DEF TypeOK, NodeType, Places
<1>2. CASE obj_it = 0
  <2>1. Node = 1 /\ Index = 0 /\ obj_size = 0
    BY <1>2, NodeSizeNat DEF CursorBehindLast, Node, Index
  <2>2. (1 - 1) * NodeSize + 0 = 0
    BY NodeSizeNat
  <2> QED BY <1>1, <2>1, <2>2, NodeSizeNat DEF Places
<1>3. CASE obj_it # 0 /\ obj_i < NodeSize
  <2>1. Node = obj_it /\ Index = obj_i
    BY <1>1, <1>3, NodeSizeNat DEF Node, Index
  <2> QED BY <1>1, <1>3, <2>1, NodeSizeNat DEF CursorBehindLast, Places
<1>4. CASE obj_it # 0 /\ obj_i >= NodeSize
  <2>1. Node = obj_it + 1 /\ Index = 0 /\ obj_i = NodeSize
    BY <1>1, <1>4, NodeSizeNat DEF Node, Index
  <2>2. obj_size = (obj_it - 1) * NodeSize + NodeSize
    BY <1>4, <2>1 DEF CursorBehindLast
  <2>3. (obj_it - 1) * NodeSize + NodeSize = (obj_it + 1 - 1) * NodeSize + 0
    BY <1>1, NodeSizeNat
  <2> QED BY <1>1, <2>1, <2>2, <2>3, NodeSizeNat DEF Places
<1> QED BY <1>1, <1>2, <1>3, <1>4, NodeSizeNat

\* There is a node for the next entry, and the old ones are as they were.
LEMMA NodesFacts ==
  ASSUME TypeOK, CursorBehindLast
  PROVE  /\ Nodes \in Seq(NodeType)
         /\ Len(Nodes) \in Nat /\ Len(objects) \in Nat
         /\ Len(objects) <= Len(Nodes) /\ Node \in 1 .. Len(Nodes)
         /\ \A n \in 1 .. Len(objects) : Nodes[n] = objects[n]
<1>1. objects \in Seq(NodeType) /\ EmptyNode \in NodeType
  BY DEF TypeOK, NodeType, Places, EmptyNode
<1>2. Node \in Nat /\ Node >= 1 /\ Node <= Len(objects) + 1
  BY CursorFacts
<1>3. CASE Node > Len(objects)
  BY <1>1, <1>2, <1>3 DEF Nodes
<1>4. CASE ~(Node > Len(objects))
  BY <1>1, <1>2, <1>4 DEF Nodes
<1> QED BY <1>3, <1>4

\* A push adds one entry behind the others.
LEMMA PushEntries ==
  ASSUME TypeOK, NodesSuffice, CursorBehindLast, NEW p \in Slots, Push(p)
  PROVE  /\ objects' \in Seq(NodeType) /\ Len(objects') \in Nat
         /\ Len(objects) <= Len(objects') /\ Node \in 1 .. Len(objects')
         /\ objects'[obj_size \div NodeSize + 1][obj_size % NodeSize] = p
         /\ \A k \in 0 .. obj_size - 1 : Entry(k)' = Entry(k)
<1> DEFINE N == Node
           J == Index
           O == Nodes
<1>1. /\ N \in Nat /\ N >= 1 /\ J \in Places /\ obj_size = (N - 1) * NodeSize + J
      /\ N - 1 \in Nat /\ obj_size \in Nat
  BY CursorFacts, FactoryAssumption DEF TypeOK
<1>2. /\ O \in Seq(NodeType) /\ Len(O) \in Nat /\ Len(objects) \in Nat
      /\ Len(objects) <= Len(O) /\ N \in 1 .. Len(O)
      /\ \A n \in 1 .. Len(objects) : O[n] = objects[n]
  BY NodesFacts
<1>3. objects' = [O EXCEPT ![N][J] = p]
  BY DEF Push
<1>4. obj_size \div NodeSize = N - 1 /\ (obj_size % NodeSize) = J
  BY <1>1, DividedOf
<1> HIDE DEF N, J, O
<1>5. O[N] \in NodeType
  BY <1>2
<1>6. objects' = [O EXCEPT ![N] = [O[N] EXCEPT ![J] = p]]
  BY <1>3
<1>7. [O[N] EXCEPT ![J] = p] \in NodeType
  BY <1>1, <1>5 DEF NodeType
<1>8. objects' \in Seq(NodeType) /\ Len(objects') = Len(O)
  BY <1>2, <1>6, <1>7
<1>9. objects'[N] = [O[N] EXCEPT ![J] = p] /\ \A n \in 1 .. Len(O) : n # N => objects'[n] = O[n]
  BY <1>2, <1>6
<1>10. objects'[N][J] = p /\ \A j \in Places : j # J => objects'[N][j] = O[N][j]
  BY <1>1, <1>5, <1>9 DEF NodeType
<1>11. ASSUME NEW k \in 0 .. obj_size - 1
       PROVE  Entry(k)' = Entry(k)
  <2> DEFINE q == k \div NodeSize
             r == (k % NodeSize)
  <2>1. k \in Nat /\ k < obj_size
    BY <1>1
  <2>2. q \in Nat /\ r \in Places /\ k = q * NodeSize + r
    BY <2>1, Divided
  <2>3. q + 1 \in 1 .. Len(objects)
    <3>1. k < Len(objects) * NodeSize
      <4>1. Len(objects) * NodeSize \in Nat
        BY <1>2, TimesOrder
      <4> QED BY <1>1, <2>1, <4>1 DEF NodesSuffice
    <3> QED BY <1>2, <2>1, <3>1, NodeOf
  <2> HIDE DEF q, r
  <2>4. O[q + 1] = objects[q + 1] /\ q + 1 \in 1 .. Len(O)
    BY <1>2, <2>3
  <2>5. q + 1 # N \/ r # J
    <3>1. ASSUME q = N - 1, r = J PROVE FALSE
      <4>1. k = (N - 1) * NodeSize + J
        BY <2>2, <3>1
      <4> QED BY <1>1, <2>1, <4>1
    <3> QED BY <1>1, <2>2, <3>1
  <2>6. objects'[q + 1][r] = objects[q + 1][r]
    BY <1>9, <1>10, <2>2, <2>4, <2>5
  <2> QED BY <2>6 DEF Entry, q, r
<1>12. N - 1 + 1 = N
  BY <1>1
<1> QED BY <1>2, <1>4, <1>8, <1>10, <1>11, <1>12 DEF N

-----------------------------------------------------------------------------
(* The steps, for whatever slot the factories take *)

\* The list is as it was.
LEMMA SameList ==
  ASSUME UNCHANGED listVars
  PROVE  /\ \A k : Entry(k)' = Entry(k)
         /\ Listed' = Listed
         /\ NodesSuffice <=> NodesSuffice'
         /\ CursorBehindLast <=> CursorBehindLast'
  BY DEF listVars, Entry, Listed, NodesSuffice, CursorBehindLast

\* construct_() in a slot that nobody holds.
LEMMA ConstructInv ==
  ASSUME Inv, NEW p \in Slots, p \notin raw, Construct_(p),
         pool' = pool \cup {p}, raw' = raw
  PROVE  Inv'
<1> USE DEF Inv
<1>1. /\ objects' \in Seq(NodeType) /\ Len(objects') \in Nat /\ Node \in 1 .. Len(objects')
      /\ objects'[obj_size \div NodeSize + 1][obj_size % NodeSize] = p
      /\ \A k \in 0 .. obj_size - 1 : Entry(k)' = Entry(k)
  BY PushEntries DEF Construct_
<1>2. /\ Node \in Nat /\ Node >= 1 /\ Index \in Places
      /\ obj_size = (Node - 1) * NodeSize + Index
  BY CursorFacts
<1>3. /\ obj_size \in Nat /\ MaxPushes \in Nat /\ obj_size < MaxPushes
      /\ obj_size' = obj_size + 1 /\ obj_it' = Node /\ obj_i' = Index + 1
  BY FactoryAssumption DEF TypeOK, Construct_, Push
<1>4. del' = [del EXCEPT ![p] = TRUE] /\ alive' = alive \cup {p}
  BY DEF Construct_
<1>5. TypeOK'
  <2>1. objects' \in Seq([0 .. NodeSize - 1 -> Slots \cup {NULL}])
    BY <1>1 DEF NodeType, Places
  <2>2. obj_it' \in 0 .. Len(objects')
    BY <1>1, <1>3
  <2>3. obj_i' \in 0 .. NodeSize
    BY <1>2, <1>3, NodeSizeNat DEF Places
  <2>4. obj_size' \in 0 .. MaxPushes
    BY <1>3
  <2>5. del' \in [Slots -> BOOLEAN \cup {Raw}]
    BY <1>4 DEF TypeOK
  <2>6. pool' \in SUBSET Slots /\ alive' \in SUBSET Slots /\ raw' \in SUBSET Slots
    BY <1>4 DEF TypeOK
  <2> QED BY <2>1, <2>2, <2>3, <2>4, <2>5, <2>6 DEF TypeOK
<1>6. NodesSuffice'
  <2> DEFINE before == (Node - 1) * NodeSize
             upto == Node * NodeSize
  <2>1. before \in Nat /\ upto \in Nat /\ upto = before + NodeSize
    BY <1>2, NodeSizeNat
  <2>2. upto <= Len(objects') * NodeSize /\ Len(objects') * NodeSize \in Nat
    BY <1>1, <1>2, TimesOrder
  <2>3. obj_size' = before + Index + 1
    BY <1>2, <1>3
  <2> HIDE DEF before, upto
  <2>4. obj_size' <= upto /\ obj_size' \in Nat
    BY <1>2, <2>1, <2>3, NodeSizeNat DEF Places
  <2> QED BY <2>1, <2>2, <2>4 DEF NodesSuffice
<1>7. CursorBehindLast'
  <2> DEFINE before == (Node - 1) * NodeSize
  <2>1. before \in Nat
    BY <1>2, NodeSizeNat
  <2>2. obj_size' = before + Index + 1
    BY <1>2, <1>3
  <2>3. (obj_it' - 1) * NodeSize = before
    BY <1>3
  <2> HIDE DEF before
  <2>4. obj_size' = (obj_it' - 1) * NodeSize + obj_i'
    BY <1>2, <1>3, <2>1, <2>2, <2>3 DEF Places
  <2>5. obj_it' # 0 /\ obj_i' > 0
    BY <1>2, <1>3 DEF Places
  <2> QED BY <2>4, <2>5 DEF CursorBehindLast
<1>8. \A k \in 0 .. obj_size' - 1 : k \in 0 .. obj_size - 1 \/ k = obj_size
  BY <1>3
<1>9. ASSUME NEW k, k = obj_size
      PROVE  Entry(k)' = p
  BY <1>1, <1>9 DEF Entry
<1>10. FlagsTellAlive'
  <2> SUFFICES ASSUME NEW k \in 0 .. obj_size' - 1
               PROVE  /\ Entry(k)' \in pool'
                      /\ del'[Entry(k)'] = TRUE <=> Entry(k)' \in alive'
    BY DEF FlagsTellAlive
  <2>1. p \in pool' /\ del'[p] = TRUE /\ p \in alive'
    BY <1>4 DEF TypeOK
  <2>2. CASE k = obj_size
    BY <1>9, <2>1, <2>2
  <2>3. CASE k \in 0 .. obj_size - 1 /\ Entry(k) = p
    BY <1>1, <2>1, <2>3
  <2>4. CASE k \in 0 .. obj_size - 1 /\ Entry(k) # p
    <3>1. Entry(k) \in pool /\ Entry(k) \in Slots /\ (del[Entry(k)] = TRUE <=> Entry(k) \in alive)
      BY <2>4 DEF FlagsTellAlive, TypeOK
    <3>2. del'[Entry(k)] = del[Entry(k)]
      BY <1>4, <2>4, <3>1 DEF TypeOK
    <3>3. Entry(k)' = Entry(k)
      BY <1>1, <2>4
    <3>4. Entry(k) \in alive' <=> Entry(k) \in alive
      BY <1>4, <2>4
    <3> QED BY <3>1, <3>2, <3>3, <3>4
  <2> QED BY <1>8, <2>2, <2>3, <2>4
<1>11. AliveListed'
  <2>1. p \in Listed'
    <3>1. obj_size \in 0 .. obj_size' - 1
      BY <1>3
    <3> QED BY <1>9, <3>1 DEF Listed
  <2>2. ASSUME NEW a \in alive PROVE a \in Listed'
    <3>1. PICK k \in 0 .. obj_size - 1 : a = Entry(k)
      BY DEF AliveListed, Listed
    <3>2. k \in 0 .. obj_size' - 1 /\ a = Entry(k)'
      BY <1>1, <1>3, <3>1
    <3> QED BY <3>2 DEF Listed
  <2> QED BY <1>4, <2>1, <2>2 DEF AliveListed
<1>12. AliveInPool'
  <2>1. \A a \in alive' : del'[a] = TRUE
    BY <1>4 DEF AliveInPool, TypeOK
  <2> QED BY <1>4, <2>1 DEF AliveInPool
<1> QED BY <1>5, <1>6, <1>7, <1>10, <1>11, <1>12

\* destruct_() of an object that is alive.
LEMMA DestructInv ==
  ASSUME Inv, NEW p \in alive, Destruct_(p), pool' = pool, raw' = raw
  PROVE  Inv'
<1> USE DEF Inv
<1>1. del' = [del EXCEPT ![p] = FALSE] /\ alive' = alive \ {p} /\ p \in Slots
  BY DEF Destruct_, TypeOK
<1>2. UNCHANGED listVars
  BY DEF Destruct_
<1>3. TypeOK'
  <2>1. del' \in [Slots -> BOOLEAN \cup {Raw}]
    BY <1>1 DEF TypeOK
  <2> QED BY <1>1, <1>2, <2>1 DEF TypeOK, listVars
<1>4. ASSUME NEW a \in Slots, a # p PROVE del'[a] = del[a]
  BY <1>1, <1>4 DEF TypeOK
<1>5. del'[p] # TRUE
  BY <1>1 DEF TypeOK
<1>6. FlagsTellAlive'
  <2> SUFFICES ASSUME NEW k \in 0 .. obj_size - 1
               PROVE  /\ Entry(k) \in pool
                      /\ del'[Entry(k)] = TRUE <=> Entry(k) \in alive'
    BY <1>2, SameList DEF FlagsTellAlive, listVars
  <2>1. Entry(k) \in pool /\ Entry(k) \in Slots /\ (del[Entry(k)] = TRUE <=> Entry(k) \in alive)
    BY DEF FlagsTellAlive, TypeOK
  <2>2. CASE Entry(k) = p
    BY <1>1, <1>5, <2>1, <2>2
  <2>3. CASE Entry(k) # p
    <3>1. del'[Entry(k)] = del[Entry(k)]
      BY <1>4, <2>1, <2>3
    <3> QED BY <1>1, <2>1, <2>3, <3>1
  <2> QED BY <2>2, <2>3
<1>7. AliveListed'
  BY <1>1, <1>2, SameList DEF AliveListed
<1>8. AliveInPool'
  <2>1. \A a \in alive' : del'[a] = TRUE
    BY <1>1, <1>4 DEF AliveInPool, TypeOK
  <2> QED BY <1>1, <2>1 DEF AliveInPool
<1> QED BY <1>2, <1>3, <1>6, <1>7, <1>8, SameList

\* allocate() of a slot that nobody holds, whether the client gets it or a
\* constructor throws.
LEMMA AllocateInv ==
  ASSUME Inv, NEW p \in Slots, p \notin alive,
         pool' = pool \cup {p}, raw' \subseteq raw \cup {p}, UNCHANGED <<listVars, alive>>,
         del' \in [Slots -> BOOLEAN \cup {Raw}], \A a \in pool : del'[a] = del[a]
  PROVE  Inv'
<1> USE DEF Inv
<1>1. UNCHANGED listVars /\ alive' = alive
  OBVIOUS
<1>2. TypeOK'
  BY DEF TypeOK, listVars
<1>3. FlagsTellAlive'
  <2> SUFFICES ASSUME NEW k \in 0 .. obj_size - 1
               PROVE  /\ Entry(k) \in pool'
                      /\ del'[Entry(k)] = TRUE <=> Entry(k) \in alive
    BY <1>1, SameList DEF FlagsTellAlive, listVars
  <2> QED BY DEF FlagsTellAlive
<1>4. AliveListed'
  BY <1>1, SameList DEF AliveListed
<1>5. AliveInPool'
  BY <1>1 DEF AliveInPool
<1> QED BY <1>1, <1>2, <1>3, <1>4, <1>5, SameList

\* deallocate() of what was allocated.
LEMMA DeallocateInv ==
  ASSUME Inv, NEW p, pool' = pool, raw' = raw \ {p}, UNCHANGED <<del, listVars, alive>>
  PROVE  Inv'
<1> USE DEF Inv
<1>1. UNCHANGED listVars /\ alive' = alive /\ del' = del
  OBVIOUS
<1>2. TypeOK'
  BY DEF TypeOK, listVars
<1>3. FlagsTellAlive' /\ AliveListed'
  BY <1>1, SameList DEF FlagsTellAlive, AliveListed, listVars
<1>4. AliveInPool'
  BY <1>1 DEF AliveInPool
<1> QED BY <1>1, <1>2, <1>3, <1>4, SameList

\* release() destroys what is alive, all of it.
LEMMA ReleaseInv ==
  ASSUME Inv, Release
  PROVE  Inv' /\ alive' = {}
<1> USE DEF Inv
<1>1. alive' = {}
  BY DEF Release, AliveListed, AliveInPool
<1>2. /\ objects' = objects /\ obj_it' = 0 /\ obj_i' = NodeSize /\ obj_size' = 0
      /\ pool' = {} /\ raw' = {} /\ del' = [p \in Slots |-> Raw]
  BY DEF Release
<1>3. TypeOK'
  <2>1. Len(objects) \in Nat
    BY DEF TypeOK
  <2>2. 0 \in 0 .. Len(objects) /\ 0 \in 0 .. MaxPushes /\ NodeSize \in 0 .. NodeSize
    BY <2>1, FactoryAssumption
  <2>3. del' \in [Slots -> BOOLEAN \cup {Raw}]
    BY <1>2
  <2> QED BY <1>1, <1>2, <2>2, <2>3 DEF TypeOK
<1>4. NodesSuffice'
  <2>1. Len(objects) \in Nat
    BY DEF TypeOK
  <2>2. Len(objects) * NodeSize \in Nat
    BY <2>1, TimesOrder
  <2> QED BY <1>2, <2>2 DEF NodesSuffice
<1>5. CursorBehindLast'
  BY <1>2 DEF CursorBehindLast
<1>6. FlagsTellAlive' /\ AliveListed' /\ AliveInPool'
  <2>1. 0 .. obj_size' - 1 = {}
    BY <1>2
  <2> QED BY <1>1, <2>1 DEF FlagsTellAlive, AliveListed, AliveInPool
<1> QED BY <1>1, <1>2, <1>3, <1>4, <1>5, <1>6

\* A new factory has the invariant.
LEMMA InitInv == Init => Inv
<1> SUFFICES ASSUME Init PROVE Inv
  OBVIOUS
<1>1. TypeOK
  <2>1. objects \in Seq([0 .. NodeSize - 1 -> Slots \cup {NULL}]) /\ Len(objects) = 0
    BY DEF Init
  <2>2. 0 \in 0 .. MaxPushes /\ NodeSize \in 0 .. NodeSize
    BY FactoryAssumption
  <2> QED BY <2>1, <2>2 DEF Init, TypeOK
<1>2. NodesSuffice
  <2>1. Len(objects) = 0 /\ 0 * NodeSize = 0
    BY NodeSizeNat DEF Init
  <2> QED BY <2>1 DEF Init, NodesSuffice
<1>3. CursorBehindLast
  BY DEF Init, CursorBehindLast
<1>4. FlagsTellAlive /\ AliveListed /\ AliveInPool /\ raw \subseteq pool
  BY DEF Init, FlagsTellAlive, AliveListed, AliveInPool
<1> QED BY <1>1, <1>2, <1>3, <1>4 DEF Inv

\* What changes nothing keeps it.
LEMMA StutterInv ==
  ASSUME Inv, UNCHANGED vars
  PROVE  Inv'
<1>1. UNCHANGED listVars
  BY DEF vars
<1>2. TypeOK' /\ AliveInPool' /\ (raw \subseteq pool)'
  BY DEF Inv, TypeOK, AliveInPool, vars, listVars
<1>3. FlagsTellAlive' /\ AliveListed'
  BY <1>1, SameList DEF Inv, FlagsTellAlive, AliveListed, vars, listVars
<1> QED BY <1>1, <1>2, <1>3, SameList DEF Inv

-----------------------------------------------------------------------------
(* The theorems *)

\* The invariants of Factory, for nodes of any size and any number of slots.
THEOREM FactoryInvariance == Spec => []Inv
<1>1. Init => Inv
  BY InitInv
<1>2. Inv /\ [Next]_vars => Inv'
  <2> SUFFICES ASSUME Inv, [Next]_vars PROVE Inv'
    OBVIOUS
  <2>1. CASE Release
    BY <2>1, ReleaseInv
  <2>2. ASSUME NEW p \in Fresh, Construct(p) PROVE Inv'
    <3>1. p \in Slots /\ p \notin raw
      BY DEF Inv, Fresh
    <3> QED BY <2>2, <3>1, ConstructInv DEF Construct
  <2>3. ASSUME NEW p \in Fresh, Allocate(p) PROVE Inv'
    <3>1. p \in Slots /\ p \notin alive /\ p \notin pool
      BY DEF Inv, Fresh, AliveInPool
    <3>2. del' \in [Slots -> BOOLEAN \cup {Raw}] /\ \A a \in pool : del'[a] = del[a]
      BY <2>3, <3>1 DEF Allocate, FlagOfMemory, Inv, TypeOK
    <3> QED BY <2>3, <3>1, <3>2, AllocateInv DEF Allocate
  <2>4. ASSUME NEW p \in alive, Destruct(p) PROVE Inv'
    BY <2>4, DestructInv DEF Destruct
  <2>5. ASSUME NEW p \in raw, Deallocate(p) PROVE Inv'
    BY <2>5, DeallocateInv DEF Deallocate
  <2>6. ASSUME NEW p \in Fresh, ConstructThrows(p) PROVE Inv'
    <3>1. p \in Slots /\ p \notin alive /\ p \notin pool
      BY DEF Inv, Fresh, AliveInPool
    <3>2. del' \in [Slots -> BOOLEAN \cup {Raw}] /\ \A a \in pool : del'[a] = del[a]
      BY <2>6, <3>1 DEF ConstructThrows, FlagOfMemory, Inv, TypeOK
    <3> QED BY <2>6, <3>1, <3>2, AllocateInv DEF ConstructThrows
  <2>7. CASE UNCHANGED vars
    BY <2>7, StutterInv
  <2> QED BY <2>1, <2>2, <2>3, <2>4, <2>5, <2>6, <2>7 DEF Next
<1> QED BY <1>1, <1>2, PTL DEF Spec

-----------------------------------------------------------------------------
(* The slots given back *)

\* allocate() finds a slot that nobody holds.
LEMMA TakeFacts ==
  ASSUME ReuseInv, NEW p \in Slots, Take(p)
  PROVE  /\ p \notin alive /\ p \notin raw /\ p \notin lost /\ pool' = pool \cup {p}
         /\ m_reuse' \in Seq(Slots) /\ Distinct(m_reuse')
         /\ ToSet(m_reuse') = ToSet(m_reuse) \ {p}
<1>1. /\ m_reuse \in Seq(Slots) /\ Distinct(m_reuse)
      /\ ToSet(m_reuse) \cap (alive \cup raw \cup lost) = {}
      /\ pool = ToSet(m_reuse) \cup alive \cup raw \cup lost
  BY DEF ReuseInv, SlotsAccounted, Distinct
<1>2. CASE m_reuse = << >>
  BY <1>1, <1>2 DEF Take, Fresh, ToSet
<1>3. CASE m_reuse # << >>
  <2>1. p = Last(m_reuse) /\ m_reuse' = Front(m_reuse) /\ pool' = pool
    BY <1>3 DEF Take
  <2>2. p \in ToSet(m_reuse) /\ ToSet(m_reuse') = ToSet(m_reuse) \ {p}
        /\ m_reuse' \in Seq(Slots) /\ Distinct(m_reuse')
    BY <1>1, <1>3, <2>1, PopFacts
  <2> QED BY <1>1, <2>1, <2>2
<1> QED BY <1>2, <1>3

\* A taken slot is outside of the pool, where any flag may be, or holds its own.
LEMMA TakeFlagFacts ==
  ASSUME Inv, NEW p \in Slots, TakeFlag(p)
  PROVE  del' \in [Slots -> BOOLEAN \cup {Raw}] /\ \A a \in pool : del'[a] = del[a]
BY DEF TakeFlag, FlagOfMemory, Fresh, Inv, TypeOK

\* deallocate() makes one slot of a client one for the next client.
LEMMA GiveBackFacts ==
  ASSUME ReuseInv, NEW p \in alive \cup raw, GiveBack(p)
  PROVE  /\ pool' = pool
         /\ m_reuse' \in Seq(Slots) /\ Distinct(m_reuse')
         /\ ToSet(m_reuse') = ToSet(m_reuse) \cup {p}
<1>1. m_reuse \in Seq(Slots) /\ Distinct(m_reuse) /\ p \notin ToSet(m_reuse) /\ p \in Slots
  BY DEF ReuseInv, SlotsAccounted, Distinct, Inv, TypeOK
<1> QED BY <1>1, PushFacts DEF GiveBack

\* The invariants of ReuseFactory: slots are used again and listed again, and
\* still no object is destroyed twice and no slot held twice, also when
\* constructors and push_back throw and slots are lost to them.
THEOREM ReuseInvariance == ReuseSpec => []ReuseInv
<1>1. ReuseInit => ReuseInv
  <2> SUFFICES ASSUME ReuseInit PROVE ReuseInv
    OBVIOUS
  <2>1. Inv /\ m_reuse \in Seq(Slots)
    BY InitInv DEF ReuseInit
  <2>2. SlotsAccounted
    BY DEF ReuseInit, Init, SlotsAccounted, ToSet
  <2> QED BY <2>1, <2>2 DEF ReuseInv
<1>2. ReuseInv /\ [ReuseNext]_reuseVars => ReuseInv'
  <2> SUFFICES ASSUME ReuseInv, [ReuseNext]_reuseVars PROVE ReuseInv'
    OBVIOUS
  <2>0. /\ Inv /\ m_reuse \in Seq(Slots)
        /\ ToSet(m_reuse) \cap (alive \cup raw \cup lost) = {}
        /\ lost \cap (alive \cup raw) = {}
        /\ pool = ToSet(m_reuse) \cup alive \cup raw \cup lost
    BY DEF ReuseInv, SlotsAccounted
  <2>1. CASE ReuseRelease
    <3>1. Inv' /\ alive' = {} /\ raw' = {} /\ pool' = {} /\ m_reuse' = << >>
          /\ lost' = {}
      BY <2>0, <2>1, ReleaseInv DEF ReuseRelease, Release
    <3> QED BY <3>1 DEF ReuseInv, SlotsAccounted, ToSet
  <2>2. ASSUME NEW p \in Slots, ReuseConstruct(p) PROVE ReuseInv'
    <3>1. /\ p \notin alive /\ p \notin raw /\ p \notin lost /\ pool' = pool \cup {p}
          /\ m_reuse' \in Seq(Slots) /\ Distinct(m_reuse')
          /\ ToSet(m_reuse') = ToSet(m_reuse) \ {p}
      BY <2>2, TakeFacts DEF ReuseConstruct
    <3>2. Construct_(p) /\ raw' = raw /\ lost' = lost /\ alive' = alive \cup {p}
      BY <2>2 DEF ReuseConstruct, Construct_
    <3>3. Inv'
      BY <2>0, <3>1, <3>2, ConstructInv
    <3> QED BY <2>0, <3>1, <3>2, <3>3 DEF ReuseInv, SlotsAccounted, Distinct
  <2>3. ASSUME NEW p \in Slots, ReuseAllocate(p) PROVE ReuseInv'
    <3>1. /\ p \notin alive /\ p \notin raw /\ p \notin lost /\ pool' = pool \cup {p}
          /\ m_reuse' \in Seq(Slots) /\ Distinct(m_reuse')
          /\ ToSet(m_reuse') = ToSet(m_reuse) \ {p}
      BY <2>3, TakeFacts DEF ReuseAllocate
    <3>2. /\ raw' = raw \cup {p} /\ lost' = lost /\ alive' = alive
          /\ UNCHANGED <<listVars, alive>>
      BY <2>3 DEF ReuseAllocate
    <3>3. del' \in [Slots -> BOOLEAN \cup {Raw}] /\ \A a \in pool : del'[a] = del[a]
      BY <2>0, <2>3, TakeFlagFacts DEF ReuseAllocate
    <3>4. Inv'
      BY <2>0, <3>1, <3>2, <3>3, AllocateInv
    <3> QED BY <2>0, <3>1, <3>2, <3>4 DEF ReuseInv, SlotsAccounted, Distinct
  <2>4. ASSUME NEW p \in alive, ReuseDestruct(p) PROVE ReuseInv'
    <3>1. /\ pool' = pool
          /\ m_reuse' \in Seq(Slots) /\ Distinct(m_reuse')
          /\ ToSet(m_reuse') = ToSet(m_reuse) \cup {p}
      BY <2>4, GiveBackFacts DEF ReuseDestruct
    <3>2. /\ Destruct_(p) /\ raw' = raw /\ lost' = lost
          /\ alive' = alive \ {p} /\ p \notin raw
      BY <2>0, <2>4 DEF ReuseDestruct, Destruct_, Inv, AliveInPool
    <3>3. Inv'
      BY <2>0, <3>1, <3>2, DestructInv
    <3> QED BY <2>0, <3>1, <3>2, <3>3 DEF ReuseInv, SlotsAccounted, Distinct
  <2>5. ASSUME NEW p \in raw, ReuseDeallocate(p) PROVE ReuseInv'
    <3>1. /\ pool' = pool
          /\ m_reuse' \in Seq(Slots) /\ Distinct(m_reuse')
          /\ ToSet(m_reuse') = ToSet(m_reuse) \cup {p}
      BY <2>5, GiveBackFacts DEF ReuseDeallocate
    <3>2. /\ raw' = raw \ {p} /\ UNCHANGED <<del, listVars, alive>>
          /\ alive' = alive /\ lost' = lost /\ p \notin alive
      BY <2>0, <2>5 DEF ReuseDeallocate, Inv, AliveInPool
    <3>3. Inv'
      BY <2>0, <3>1, <3>2, DeallocateInv
    <3> QED BY <2>0, <3>1, <3>2, <3>3 DEF ReuseInv, SlotsAccounted, Distinct
  <2>6. ASSUME NEW p \in Slots, ReuseConstructThrows(p) PROVE ReuseInv'
    <3>1. /\ p \notin alive /\ p \notin raw /\ p \notin lost /\ pool' = pool \cup {p}
          /\ m_reuse' \in Seq(Slots) /\ Distinct(m_reuse')
          /\ ToSet(m_reuse') = ToSet(m_reuse) \ {p}
      BY <2>6, TakeFacts DEF ReuseConstructThrows
    <3>2. /\ raw' = raw /\ lost' = lost \cup {p} /\ alive' = alive
          /\ UNCHANGED <<listVars, alive>>
      BY <2>6 DEF ReuseConstructThrows
    <3>3. del' \in [Slots -> BOOLEAN \cup {Raw}] /\ \A a \in pool : del'[a] = del[a]
      BY <2>0, <2>6, TakeFlagFacts DEF ReuseConstructThrows
    <3>4. Inv'
      BY <2>0, <3>1, <3>2, <3>3, AllocateInv
    <3> QED BY <2>0, <3>1, <3>2, <3>4 DEF ReuseInv, SlotsAccounted, Distinct
  <2>7. ASSUME NEW p \in alive, ReuseDestructThrows(p) PROVE ReuseInv'
    <3>1. /\ Destruct_(p) /\ raw' = raw /\ lost' = lost \cup {p} /\ pool' = pool
          /\ m_reuse' = m_reuse /\ alive' = alive \ {p} /\ p \notin raw
      BY <2>0, <2>7 DEF ReuseDestructThrows, Destruct_, Inv, AliveInPool
    <3>2. Inv'
      BY <2>0, <3>1, DestructInv
    <3> QED BY <2>0, <3>1, <3>2 DEF ReuseInv, SlotsAccounted
  <2>8. CASE UNCHANGED reuseVars
    <3>1. Inv'
      BY <2>0, <2>8, StutterInv DEF reuseVars
    <3> QED BY <2>8, <3>1 DEF ReuseInv, SlotsAccounted, reuseVars, vars
  <2> QED BY <2>1, <2>2, <2>3, <2>4, <2>5, <2>6, <2>7, <2>8 DEF ReuseNext, ReuseDeallocateThrows
<1> QED BY <1>1, <1>2, PTL DEF ReuseSpec

\* Each slot of the pool is held by one client, reusable once, or lost to an
\* exception, whatever throws.
THEOREM ReuseSlotsAccounted == ReuseSpec => []SlotsAccounted
<1>1. ReuseInv => SlotsAccounted
  BY DEF ReuseInv
<1> QED BY <1>1, ReuseInvariance, PTL

\* release() destroys no object twice, and nothing that is none.
THEOREM ReuseFlagsTellAlive == ReuseSpec => []FlagsTellAlive
<1>1. ReuseInv => FlagsTellAlive
  BY DEF ReuseInv, Inv
<1> QED BY <1>1, ReuseInvariance, PTL

\* No memory is given back with an object in it.
THEOREM ReuseAliveInPool == ReuseSpec => []AliveInPool
<1>1. ReuseInv => AliveInPool
  BY DEF ReuseInv, Inv
<1> QED BY <1>1, ReuseInvariance, PTL

\* The assert of Factory::release holds.
THEOREM FactoryNodesSuffice == Spec => []NodesSuffice
<1>1. Inv => NodesSuffice
  BY DEF Inv
<1> QED BY <1>1, FactoryInvariance, PTL

\* release() finds every object that is alive.
THEOREM FactoryAliveListed == Spec => []AliveListed
<1>1. Inv => AliveListed
  BY DEF Inv
<1> QED BY <1>1, FactoryInvariance, PTL

\* The types of Factory's pool, flags and list: the cursor stays in the list.
THEOREM FactoryTypeCorrect == Spec => []TypeOK
<1>1. Inv => TypeOK
  BY DEF Inv
<1> QED BY <1>1, FactoryInvariance, PTL

=============================================================================
