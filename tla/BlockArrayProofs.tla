--------------------------- MODULE BlockArrayProofs ---------------------------
(***************************************************************************)
(* The invariants of BlockArrayProps for blocks and tables of any size,    *)
(* and the implementation of AppendList.                                   *)
(***************************************************************************)
EXTENDS BlockArrayProps, TLAPS

(* The arithmetic of split_index. *)

\* A block has places.
LEMMA BlockCountNat == BlockCount \in Nat /\ BlockCount > 0
  BY BlockArrayAssumption

\* Every index has one block and one offset.
LEMMA SplitFacts ==
  \A n \in Nat : /\ Block(n) \in Nat /\ Offset(n) \in Slots
                 /\ n = Block(n) * BlockCount + Offset(n)
  BY BlockCountNat DEF Block, Offset, Slots

\* An index has no other block and offset.
LEMMA SplitUnique ==
  ASSUME NEW q \in Nat, NEW r \in Slots, NEW p \in Nat, NEW s \in Slots,
         q * BlockCount + r = p * BlockCount + s
  PROVE  q = p /\ r = s
  BY BlockCountNat DEF Slots

\* What has block q and offset r.
LEMMA SplitOf ==
  ASSUME NEW q \in Nat, NEW r \in Slots
  PROVE  /\ q * BlockCount + r \in Nat
         /\ Block(q * BlockCount + r) = q /\ Offset(q * BlockCount + r) = r
<1>1. q * BlockCount + r \in Nat /\ q * BlockCount \in Nat
  BY BlockCountNat DEF Slots
<1>2. /\ Block(q * BlockCount + r) \in Nat /\ Offset(q * BlockCount + r) \in Slots
      /\ q * BlockCount + r
           = Block(q * BlockCount + r) * BlockCount + Offset(q * BlockCount + r)
  BY <1>1, SplitFacts
<1> QED BY <1>1, <1>2, SplitUnique

\* The next index is the next place of the block, or the first of the next one.
LEMMA SplitNext ==
  ASSUME NEW n \in Nat
  PROVE  IF Offset(n) = BlockCount - 1
         THEN Block(n + 1) = Block(n) + 1 /\ Offset(n + 1) = 0
         ELSE Block(n + 1) = Block(n) /\ Offset(n + 1) = Offset(n) + 1
<1>1. /\ Block(n) \in Nat /\ Offset(n) \in Slots
      /\ n = Block(n) * BlockCount + Offset(n)
  BY SplitFacts
<1>2. CASE Offset(n) = BlockCount - 1
  <2>1. 0 \in Slots /\ Block(n) + 1 \in Nat
    BY <1>1, BlockCountNat DEF Slots
  <2>2. n + 1 = (Block(n) + 1) * BlockCount + 0
    BY <1>1, <1>2, BlockCountNat
  <2> QED BY <1>2, <2>1, <2>2, SplitOf
<1>3. CASE Offset(n) # BlockCount - 1
  <2>1. Offset(n) \in Slots
    BY <1>1
  <2>2. Offset(n) + 1 \in Slots
    BY <1>3, <2>1, BlockCountNat DEF Slots
  <2>3. Block(n) * BlockCount \in Nat
    BY <1>1, BlockCountNat
  <2>4. n + 1 = Block(n) * BlockCount + (Offset(n) + 1)
    BY <1>1, <2>1, <2>3 DEF Slots
  <2> QED BY <1>1, <1>3, <2>2, <2>4, SplitOf
<1> QED BY <1>2, <1>3

\* Products with the size of a block are numbers.
LEMMA TimesNat == \A q \in Nat : q * BlockCount \in Nat
  BY BlockCountNat

\* Products with the size of a block keep the order.
LEMMA TimesMonotone ==
  ASSUME NEW p \in Nat, NEW q \in Nat, p <= q
  PROVE  p * BlockCount <= q * BlockCount
  BY BlockCountNat

\* Blocks follow each other as the indices do.
LEMMA BlockOrder ==
  ASSUME NEW m \in Nat, NEW n \in Nat
  PROVE  /\ m <= n => Block(m) <= Block(n)
         /\ m < n /\ Block(m) = Block(n) => Offset(m) < Offset(n)
<1>1. /\ Block(m) \in Nat /\ Offset(m) \in Slots
      /\ m = Block(m) * BlockCount + Offset(m)
      /\ Block(n) \in Nat /\ Offset(n) \in Slots
      /\ n = Block(n) * BlockCount + Offset(n)
  BY SplitFacts
<1>2. ASSUME Block(n) < Block(m) PROVE n < m
  <2>1. (Block(n) + 1) * BlockCount <= Block(m) * BlockCount
    BY <1>1, <1>2, TimesMonotone
  <2>2. Block(n) * BlockCount \in Nat /\ Block(m) * BlockCount \in Nat
    BY <1>1, BlockCountNat
  <2>3. (Block(n) + 1) * BlockCount = Block(n) * BlockCount + BlockCount
    BY <1>1, BlockCountNat
  <2>4. n < Block(n) * BlockCount + BlockCount
    BY <1>1, <2>2, BlockCountNat DEF Slots
  <2>5. m >= Block(m) * BlockCount
    BY <1>1, <2>2, BlockCountNat DEF Slots
  <2> QED BY <2>1, <2>2, <2>3, <2>4, <2>5, BlockCountNat
<1>3. ASSUME m < n, Block(m) = Block(n) PROVE Offset(m) < Offset(n)
  <2>1. Block(n) * BlockCount \in Nat
    BY <1>1, BlockCountNat
  <2> QED BY <1>1, <1>3, <2>1, BlockCountNat DEF Slots
<1>4. m <= n => Block(m) <= Block(n)
  BY <1>1, <1>2
<1> QED BY <1>3, <1>4

-----------------------------------------------------------------------------
(* One step *)

\* What Inv gives the proofs of the actions.
LEMMA InvFacts ==
  ASSUME Inv
  PROVE  /\ access_size \in Nat /\ data_size \in Nat /\ data_size <= MaxSize
         /\ DOMAIN access = Entries
         /\ \A k \in Entries : access[k] \in Blocks \cup {NULL}
         /\ \A i \in Indices : i \in Nat /\ Block(i) \in Entries /\ access[Block(i)] \in Blocks
         /\ access = NoTable <=> access_size = 0
<1>1. /\ access_size \in Nat /\ data_size \in Nat /\ data_size <= MaxSize
      /\ access \in [Entries -> Blocks \cup {NULL}]
  BY BlockArrayAssumption DEF Inv, TypeOK, Entries
<1>2. DOMAIN access = Entries /\ \A k \in Entries : access[k] \in Blocks \cup {NULL}
  BY <1>1
<1>3. \A i \in Indices : i \in Nat /\ Block(i) \in Entries /\ access[Block(i)] \in Blocks
  BY <1>1, <1>2 DEF Inv, ElementsReachable, Indices
<1>4. access_size = 0 => access = NoTable
  BY <1>1 DEF Entries, NoTable
<1>5. access_size # 0 => access # NoTable
  <2>1. access_size # 0 => 0 \in Entries
    BY <1>1 DEF Entries
  <2>2. DOMAIN NoTable = {}
    BY DEF NoTable
  <2> QED BY <1>2, <2>1, <2>2
<1> QED BY <1>1, <1>2, <1>3, <1>4, <1>5

\* The blocks before that of the next element are all there.
LEMMA BlocksBefore ==
  ASSUME Inv, NEW k \in Nat, k < Block(data_size)
  PROVE  k \in Entries /\ access[k] \in Blocks
<1>1. data_size \in Nat
  BY InvFacts
<1>2. 0 \in Slots
  BY BlockCountNat DEF Slots
<1> DEFINE i == k * BlockCount + 0
<1>3. i \in Nat /\ Block(i) = k
  BY <1>2, SplitOf
<1> HIDE DEF i
<1>4. i < data_size
  <2>1. data_size <= i => Block(data_size) <= Block(i)
    BY <1>1, <1>3, BlockOrder
  <2>2. Block(data_size) \in Nat
    BY <1>1, SplitFacts
  <2> QED BY <1>1, <1>3, <2>1, <2>2
<1> QED BY <1>1, <1>3, <1>4, InvFacts DEF Indices

\* The table after a push that writes to entry i: there is a block there, the
\* one that was there or a new one, and the rest is as before.
TableAfter(i) ==
  /\ access_size' \in 0 .. Modulus - 1
  /\ access_size' * BlockCount < Modulus
  /\ access' \in [0 .. access_size' - 1 -> Blocks \cup {NULL}]
  /\ i \in 0 .. access_size' - 1
  /\ access_size <= access_size'
  /\ \A k \in 0 .. access_size' - 1 :
       k # i => access'[k] = IF k \in Entries THEN access[k] ELSE NULL
  /\ \/ i \in Entries /\ access[i] # NULL /\ access'[i] = access[i] /\ live' = live
     \/ /\ i \in Entries => access[i] = NULL
        /\ access'[i] \in Blocks \ live
        /\ live' = live \cup {access'[i]}

\* The first table has entry i.
LEMMA FirstTableAfter ==
  ASSUME Inv, NEW i, Block(data_size) = i, FirstTable(i)
  PROVE  TableAfter(i)
<1>1. access_size = 0 /\ data_size = 0
  <2>1. access_size = 0
    BY InvFacts DEF FirstTable
  <2> QED BY <2>1, BlockCountNat, InvFacts DEF Inv, Capacity
<1>2. i = 0
  BY <1>1, BlockCountNat DEF Block
<1>3. Entries = {}
  BY <1>1 DEF Entries
<1>4. MinAccess \in Nat /\ MinAccess > 0 /\ MinAccess * BlockCount < Modulus /\ Modulus \in Nat
  BY BlockArrayAssumption
<1>5. MinAccess <= MinAccess * BlockCount
  BY <1>4, BlockCountNat
<1>6. access_size' \in 0 .. Modulus - 1
  BY <1>4, <1>5, BlockCountNat DEF FirstTable
<1>7. PICK b \in Free :
        /\ access' = [k \in 0 .. MinAccess - 1 |-> IF k = 0 THEN b ELSE NULL]
        /\ live' = live \cup {b}
  BY DEF FirstTable
<1>8. 0 \in 0 .. MinAccess - 1 /\ access_size' = MinAccess
  BY <1>4 DEF FirstTable
<1>9. access' \in [0 .. access_size' - 1 -> Blocks \cup {NULL}] /\ access'[0] = b
  BY <1>7, <1>8 DEF Free
<1>10. \A k \in 0 .. access_size' - 1 : k # i => access'[k] = NULL
  BY <1>2, <1>7, <1>8
<1> QED BY <1>1, <1>2, <1>3, <1>4, <1>6, <1>7, <1>8, <1>9, <1>10 DEF TableAfter, Free

\* The table of twice the size has entry i.
LEMMA GrowTableAfter ==
  ASSUME Inv, NoOverflow, data_size < MaxSize,
         NEW i, Block(data_size) = i, GrowTable(i)
  PROVE  TableAfter(i)
<1>1. /\ access_size \in Nat /\ access_size > 0
      /\ data_size \in Nat /\ i \in Nat /\ i >= access_size
  BY InvFacts, SplitFacts DEF GrowTable
<1>2. data_size = access_size * BlockCount /\ i = access_size
  <2>1. /\ data_size = i * BlockCount + Offset(data_size) /\ Offset(data_size) \in Slots
        /\ data_size <= access_size * BlockCount
    BY <1>1, SplitFacts DEF Inv, Capacity
  <2>2. access_size * BlockCount <= i * BlockCount
    BY <1>1, TimesMonotone
  <2>3. /\ access_size * BlockCount \in Nat /\ i * BlockCount \in Nat
        /\ Offset(data_size) \in Nat
    BY <1>1, <2>1, BlockCountNat DEF Slots
  <2>4. data_size = access_size * BlockCount
    BY <1>1, <2>1, <2>2, <2>3
  <2>5. access_size * BlockCount + 0 = data_size /\ 0 \in Slots
    BY <2>3, <2>4, BlockCountNat DEF Slots
  <2>6. Block(access_size * BlockCount + 0) = access_size
    BY <1>1, <2>5, SplitOf
  <2> QED BY <2>4, <2>5, <2>6
<1>3. (2 * access_size) * BlockCount < Modulus
  <2>1. (2 * access_size) * BlockCount = 2 * (access_size * BlockCount)
    BY <1>1, BlockCountNat
  <2>2. 2 * MaxSize <= Modulus /\ MaxSize \in Nat /\ Modulus \in Nat
    BY BlockArrayAssumption DEF NoOverflow
  <2> QED BY <1>1, <1>2, <2>1, <2>2
<1>4. 2 * access_size < Modulus
  <2>1. 2 * access_size <= (2 * access_size) * BlockCount
    BY <1>1, BlockCountNat
  <2>2. (2 * access_size) * BlockCount \in Nat
    BY <1>1, BlockCountNat
  <2> QED BY <1>1, <1>3, <2>1, <2>2, BlockArrayAssumption
<1>5. access_size' = 2 * access_size
  <2>1. Modulus \in Nat
    BY BlockArrayAssumption
  <2>2. (2 * access_size) % Modulus = 2 * access_size
    BY <1>1, <1>4, <2>1
  <2> QED BY <2>2 DEF GrowTable, Wrap
<1>6. PICK b \in Free :
        /\ access' = [k \in 0 .. access_size' - 1 |->
                        IF k < i THEN access[k] ELSE IF k = i THEN b ELSE NULL]
        /\ live' = live \cup {b}
  BY DEF GrowTable
<1>7. \A k \in 0 .. access_size' - 1 : k < i <=> k \in Entries
  BY <1>1, <1>2, <1>5 DEF Entries
<1>8. i \in 0 .. access_size' - 1 /\ i \notin Entries
  BY <1>1, <1>2, <1>5 DEF Entries
<1>9. access' \in [0 .. access_size' - 1 -> Blocks \cup {NULL}]
  BY <1>6, <1>7, InvFacts DEF Free
<1>10. access'[i] = b
  BY <1>6, <1>8, <1>7
<1>11. \A k \in 0 .. access_size' - 1 :
         k # i => access'[k] = IF k \in Entries THEN access[k] ELSE NULL
  BY <1>6, <1>7
<1>12. access_size' \in 0 .. Modulus - 1 /\ access_size' * BlockCount < Modulus
       /\ access_size <= access_size'
  BY <1>1, <1>3, <1>4, <1>5, BlockArrayAssumption
<1> QED BY <1>6, <1>8, <1>9, <1>10, <1>11, <1>12 DEF TableAfter, Free

\* The table is left as it is.
LEMMA SameTableAfter ==
  ASSUME Inv, NEW i \in Entries, access[i] # NULL, UNCHANGED <<access, access_size, live>>
  PROVE  TableAfter(i)
<1>1. /\ access_size \in 0 .. Modulus - 1
      /\ access \in [0 .. access_size - 1 -> Blocks \cup {NULL}]
      /\ access_size * BlockCount < Modulus
  BY DEF Inv, TypeOK, Capacity
<1> QED BY <1>1, InvFacts DEF TableAfter, Entries

\* The table has entry i already.
LEMMA NextBlockAfter ==
  ASSUME Inv, NEW i, Block(data_size) = i, NextBlock(i)
  PROVE  TableAfter(i)
<1>1. i \in Entries
  BY InvFacts, SplitFacts DEF NextBlock, Entries
<1>2. CASE access[i] # NULL
  BY <1>1, <1>2, SameTableAfter DEF NextBlock
<1>3. CASE access[i] = NULL
  <2>1. /\ access_size \in 0 .. Modulus - 1
        /\ access \in [0 .. access_size - 1 -> Blocks \cup {NULL}]
        /\ access_size * BlockCount < Modulus
    BY DEF Inv, TypeOK, Capacity
  <2>2. PICK b \in Free : access' = [access EXCEPT ![i] = b] /\ live' = live \cup {b}
    BY <1>3 DEF NextBlock
  <2>3. access_size' = access_size
    BY DEF NextBlock
  <2>4. i \in 0 .. access_size - 1
    BY <1>1 DEF Entries
  <2>5. access' \in [0 .. access_size - 1 -> Blocks \cup {NULL}] /\ access'[i] = b
    BY <2>1, <2>2, <2>4 DEF Free
  <2>6. \A k \in 0 .. access_size - 1 : k # i => access'[k] = access[k]
    BY <2>1, <2>2
  <2> QED BY <1>3, <2>1, <2>2, <2>3, <2>4, <2>5, <2>6, InvFacts DEF TableAfter, Free, Entries
<1> QED BY <1>2, <1>3

\* A push that is allowed has a place for the element.
LEMMA PushTable ==
  ASSUME Inv, NoOverflow, NEW v \in Values, PushBack(v)
  PROVE  TableAfter(Block(data_size))
<1> DEFINE i == Block(data_size)
<1>0. data_size < MaxSize
  BY DEF PushBack, NextAddress, Filling
<1>1. CASE access_at = NULL
  <2>1. UpdateAccess(i)
    BY <1>1 DEF PushBack, NextAddress, Filling
  <2> HIDE DEF i
  <2>2. Block(data_size) = i
    BY DEF i
  <2>3. TableAfter(i)
    BY <1>0, <2>1, <2>2, FirstTableAfter, GrowTableAfter, NextBlockAfter DEF UpdateAccess
  <2> QED BY <2>3 DEF i
<1>2. CASE access_at # NULL
  <2>1. UNCHANGED <<access, access_size, live>>
    BY <1>2 DEF PushBack, NextAddress, Filling
  <2>2. Offset(data_size) # 0 /\ data_size \in Nat
    BY <1>2, InvFacts DEF Inv, FillsNext
  <2>3. data_size - 1 \in Indices /\ data_size - 1 \in Nat
    <3>1. data_size # 0
      BY <2>2, BlockCountNat DEF Offset
    <3> QED BY <2>2, <3>1 DEF Indices
  <2>4. Block(data_size - 1) = i
    <3>1. IF Offset(data_size - 1) = BlockCount - 1
          THEN Block(data_size - 1 + 1) = Block(data_size - 1) + 1 /\ Offset(data_size - 1 + 1) = 0
          ELSE Block(data_size - 1 + 1) = Block(data_size - 1)
      BY <2>3, SplitNext
    <3>2. data_size - 1 + 1 = data_size
      BY <2>2
    <3> QED BY <2>2, <3>1, <3>2
  <2>5. i \in Entries /\ access[i] # NULL
    BY <2>3, <2>4, InvFacts, BlockArrayAssumption
  <2> QED BY <2>1, <2>5, SameTableAfter
<1> QED BY <1>1, <1>2

\* A push keeps the invariant.
LEMMA PushBackInv ==
  ASSUME Inv, NoOverflow, NEW v \in Values, PushBack(v)
  PROVE  Inv'
<1> DEFINE n == data_size
           i == Block(n)
           o == Offset(n)
           b == access'[i]
<1>1. /\ n \in Nat /\ n < MaxSize /\ MaxSize \in Nat /\ Modulus \in Nat /\ MaxSize < Modulus
      /\ i \in Nat /\ o \in Slots /\ n = i * BlockCount + o
  BY InvFacts, SplitFacts, BlockArrayAssumption DEF PushBack, NextAddress, Filling
<1>2. data_size' = n + 1
  <2>1. (n + 1) % Modulus = n + 1
    BY <1>1
  <2> QED BY <2>1 DEF PushBack, NextAddress, Wrap
<1>3. TableAfter(i)
  BY PushTable
<1>4. access_at # NULL => access_at = i
  BY DEF Inv, FillsNext
<1>5. access_at' = IF o = BlockCount - 1 THEN NULL ELSE i
  BY <1>4 DEF PushBack, NextAddress, Filling
<1>6. store' = [store EXCEPT ![b][o] = v]
  BY <1>4 DEF PushBack, NextAddress, Filling
<1>7. b \in Blocks /\ b # NULL
  <2>1. i \in Entries /\ access[i] # NULL => access[i] \in Blocks
    BY InvFacts
  <2> QED BY <1>3, <2>1, BlockArrayAssumption DEF TableAfter
<1>8. \A k \in Entries' : k # i => access'[k] = IF k \in Entries THEN access[k] ELSE NULL
  BY <1>3 DEF TableAfter, Entries
<1>9. Entries \subseteq Entries' /\ i \in Entries' /\ access_size' \in Nat
  BY <1>3, InvFacts, BlockArrayAssumption DEF TableAfter, Entries
<1>10. \A k \in 0 .. i - 1 : k \in Entries /\ access[k] \in Blocks
  BY <1>1, BlocksBefore
<1>11. \A k \in Entries' : access'[k] = b => k = i
  <2> SUFFICES ASSUME NEW k \in Entries', access'[k] = b, k # i
               PROVE  FALSE
    OBVIOUS
  <2>1. k \in Entries /\ access[k] = b
    BY <1>7, <1>8
  <2>2. b \in live
    BY <1>7, <2>1 DEF Inv, NoLeaks
  <2>3. i \in Entries /\ access[i] # NULL /\ access[i] = b
    BY <1>3, <2>2 DEF TableAfter
  <2> QED BY <2>1, <2>3 DEF Inv, TableConsistent
<1> HIDE DEF n, i, o, b
<1>12. TypeOK'
  <2>1. access_size' \in 0 .. Modulus - 1
    BY <1>3 DEF TableAfter
  <2>2. access' \in [0 .. access_size' - 1 -> Blocks \cup {NULL}]
    BY <1>3 DEF TableAfter
  <2>3. access_at' \in Nat \cup {NULL}
    BY <1>1, <1>5
  <2>4. data_size' \in 0 .. MaxSize
    BY <1>1, <1>2
  <2>5. store' \in [Blocks -> [Slots -> Values \cup {Raw}]]
    <3>1. store \in [Blocks -> [Slots -> Values \cup {Raw}]]
      BY DEF Inv, TypeOK
    <3> QED BY <1>1, <1>6, <1>7, <3>1
  <2>6. live' \in SUBSET Blocks
    BY <1>3, <1>7 DEF TableAfter, Inv, TypeOK
  <2> QED BY <2>1, <2>2, <2>3, <2>4, <2>5, <2>6 DEF TypeOK
<1>13. TableConsistent'
  <2>1. \A j, k \in Entries' : access'[j] # NULL /\ access'[j] = access'[k] => j = k
    <3> SUFFICES ASSUME NEW j \in Entries', NEW k \in Entries',
                        access'[j] # NULL, access'[j] = access'[k], j # k
                 PROVE  FALSE
      OBVIOUS
    <3>1. j # i /\ k # i
      BY <1>11 DEF b
    <3>2. j \in Entries /\ k \in Entries /\ access[j] # NULL /\ access[j] = access[k]
      BY <1>8, <3>1
    <3> QED BY <3>2 DEF Inv, TableConsistent
  <2>2. \A j, k \in Entries' : access'[j] # NULL /\ k < j => access'[k] # NULL
    <3> SUFFICES ASSUME NEW j \in Entries', NEW k \in Entries',
                        access'[j] # NULL, k < j, k # i
                 PROVE  access'[k] # NULL
      BY <1>7 DEF b
    <3>1. CASE j = i
      <4>1. k \in 0 .. i - 1
        BY <1>1, <1>9, <3>1 DEF Entries
      <4>2. k \in Entries /\ access[k] \in Blocks
        BY <1>10, <4>1
      <4> QED BY <1>8, <4>2, BlockArrayAssumption
    <3>2. CASE j # i
      <4>1. j \in Entries /\ access[j] # NULL
        BY <1>8, <3>2
      <4>2. k \in Entries
        BY <1>9, <4>1, InvFacts DEF Entries
      <4>3. access[k] # NULL
        BY <4>1, <4>2 DEF Inv, TableConsistent
      <4> QED BY <1>8, <4>2, <4>3
    <3> QED BY <3>1, <3>2
  <2> QED BY <2>1, <2>2 DEF TableConsistent
<1>14. NoLeaks'
  <2>1. live = { access[k] : k \in Entries } \ {NULL}
    BY DEF Inv, NoLeaks
  <2>2. ASSUME NEW c \in live' PROVE c \in { access'[k] : k \in Entries' } \ {NULL}
    <3>1. CASE c \in live /\ c # b
      <4>1. PICK k \in Entries : c = access[k] /\ c # NULL
        BY <2>1, <3>1
      <4>2. k # i
        BY <1>3, <3>1, <4>1 DEF TableAfter, b
      <4> QED BY <1>8, <1>9, <4>1, <4>2
    <3>2. CASE c = b
      BY <1>7, <1>9, <3>2 DEF b
    <3>3. c \in live \/ c = b
      BY <1>3, <2>2 DEF TableAfter, b
    <3> QED BY <3>1, <3>2, <3>3
  <2>3. ASSUME NEW k \in Entries', access'[k] # NULL PROVE access'[k] \in live'
    <3>1. live \subseteq live'
      BY <1>3 DEF TableAfter
    <3>2. CASE k = i
      <4>1. i \in Entries /\ access[i] # NULL => access[i] \in live
        BY <2>1
      <4> QED BY <1>3, <3>2, <4>1 DEF TableAfter
    <3>3. CASE k # i
      <4>1. k \in Entries /\ access'[k] = access[k]
        BY <1>8, <2>3, <3>3
      <4> QED BY <2>1, <2>3, <3>1, <4>1
    <3> QED BY <3>2, <3>3
  <2> QED BY <2>2, <2>3 DEF NoLeaks
<1>15. FillsNext'
  <2>1. IF o = BlockCount - 1
        THEN Block(n + 1) = i + 1 /\ Offset(n + 1) = 0
        ELSE Block(n + 1) = i /\ Offset(n + 1) = o + 1
    BY <1>1, SplitNext DEF i, o
  <2>2. o = BlockCount - 1 => access_at' = NULL /\ Offset(data_size') = 0
    BY <1>2, <1>5, <2>1
  <2>3. o # BlockCount - 1 =>
          access_at' = i /\ i # NULL /\ Block(data_size') = i /\ Offset(data_size') # 0
    BY <1>1, <1>2, <1>5, <2>1, BlockArrayAssumption DEF Slots
  <2> QED BY <2>2, <2>3 DEF FillsNext
<1>16. ObjectsMatch'
  <2>1. store \in [Blocks -> [Slots -> Values \cup {Raw}]] /\ Raw \notin Values
    BY BlockArrayAssumption DEF Inv, TypeOK
  <2>2. ASSUME NEW c \in Blocks, NEW j \in Slots
        PROVE  store'[c][j] = IF c = b /\ j = o THEN v ELSE store[c][j]
    BY <1>1, <1>6, <1>7, <2>1
  <2>3. \A k \in Indices : /\ k \in Nat /\ k < n /\ Block(k) \in Entries
                           /\ access[Block(k)] \in Blocks /\ access'[Block(k)] = access[Block(k)]
    <3> SUFFICES ASSUME NEW k \in Indices
                 PROVE  /\ k \in Nat /\ k < n /\ Block(k) \in Entries
                        /\ access[Block(k)] \in Blocks
                        /\ access'[Block(k)] = access[Block(k)]
      OBVIOUS
    <3>1. k \in Nat /\ k < n /\ Block(k) \in Entries /\ access[Block(k)] \in Blocks
      BY <1>1, InvFacts DEF Indices, n
    <3>2. CASE Block(k) # i
      <4>1. access'[Block(k)] = access[Block(k)]
        BY <1>8, <1>9, <3>1, <3>2
      <4> QED BY <3>1, <4>1
    <3>3. CASE Block(k) = i
      <4>1. i \in Entries /\ access[i] # NULL
        BY <3>1, <3>3, BlockArrayAssumption
      <4>2. access'[i] = access[i]
        BY <1>3, <4>1 DEF TableAfter
      <4> QED BY <3>1, <3>3, <4>2
    <3> QED BY <3>2, <3>3
  <2>4. Indices' = Indices \cup {n} /\ n \notin Indices
    BY <1>1, <1>2 DEF Indices, n
  <2>5. ASSUME NEW c \in Blocks, NEW j \in Slots
        PROVE  store'[c][j] # Raw <=> \E k \in Indices' : Position(k)' = <<c, j>>
    <3>1. store[c][j] # Raw <=> \E k \in Indices : Position(k) = <<c, j>>
      BY DEF Inv, ObjectsMatch
    <3>2. (\E k \in Indices' : Position(k)' = <<c, j>>)
            <=> \E k \in Indices \cup {n} : access'[Block(k)] = c /\ Offset(k) = j
      BY <2>4 DEF Position
    <3>3. access'[Block(n)] = b /\ Offset(n) = o
      BY DEF b, i, o
    <3>4. (\E k \in Indices : Position(k) = <<c, j>>)
            <=> \E k \in Indices : access'[Block(k)] = c /\ Offset(k) = j
      BY <2>3 DEF Position
    <3>5. (\E k \in Indices' : Position(k)' = <<c, j>>)
            <=> (c = b /\ j = o) \/ \E k \in Indices : Position(k) = <<c, j>>
      BY <3>2, <3>3, <3>4
    <3>6. v # Raw
      BY <2>1
    <3> QED BY <2>2, <3>1, <3>5, <3>6
  <2> QED BY <2>5 DEF ObjectsMatch
<1>17. ElementsReachable'
  <2> SUFFICES ASSUME NEW k \in Indices'
               PROVE  /\ Block(k) \in Entries' \cap DOMAIN access'
                      /\ access'[Block(k)] # NULL
    BY DEF ElementsReachable
  <2>1. k \in Nat /\ k <= n
    BY <1>1, <1>2 DEF Indices
  <2>2. Block(k) <= i /\ Block(k) \in Nat
    BY <1>1, <2>1, BlockOrder, SplitFacts DEF i
  <2>3. DOMAIN access' = Entries'
    BY <1>3 DEF TableAfter, Entries
  <2>4. CASE Block(k) = i
    BY <1>7, <1>9, <2>3, <2>4 DEF b
  <2>5. CASE Block(k) # i
    <3>1. Block(k) \in 0 .. i - 1
      BY <1>1, <2>2, <2>5
    <3>2. Block(k) \in Entries /\ access[Block(k)] \in Blocks
      BY <1>10, <3>1
    <3> QED BY <1>8, <1>9, <2>3, <2>5, <3>2, BlockArrayAssumption
  <2> QED BY <2>4, <2>5
<1>18. Capacity'
  <2>1. access_size' * BlockCount < Modulus
    BY <1>3 DEF TableAfter
  <2>0. i \in Nat /\ i + 1 \in Nat /\ access_size' \in Nat /\ i \in Entries'
    BY <1>1, <1>9
  <2>2. i + 1 <= access_size'
    <3> DEFINE m == access_size'
    <3>1. i \in 0 .. m - 1
      BY <1>3 DEF TableAfter
    <3>2. m \in Nat /\ i \in Nat
      BY <2>0
    <3>3. i + 1 <= m
      <4> HIDE DEF m, i
      <4> QED BY <3>1, <3>2
    <3> QED BY <3>3
  <2>3. (i + 1) * BlockCount <= access_size' * BlockCount
    BY <2>2, <2>0, TimesMonotone
  <2>4. n + 1 <= (i + 1) * BlockCount
    BY <1>1, BlockCountNat DEF Slots
  <2>5. (i + 1) * BlockCount \in Nat /\ access_size' * BlockCount \in Nat
    BY <2>0, TimesNat
  <2> QED BY <1>1, <1>2, <2>1, <2>3, <2>4, <2>5 DEF Capacity
<1> QED BY <1>12, <1>13, <1>14, <1>15, <1>16, <1>17, <1>18 DEF Inv

-----------------------------------------------------------------------------
(* clear() and reset() *)

\* clear() destroys the objects of the elements, which are all that are alive.
LEMMA DestroyAllFacts ==
  ASSUME Inv, DestroyAll
  PROVE  store' = [b \in Blocks |-> [j \in Slots |-> Raw]]
<1>1. data_size \in Nat
  BY InvFacts
<1>2. ASSUME NEW i \in Indices
      PROVE  <<Block(i), Offset(i)>> \in Destroyed
  <2>1. i \in Nat /\ i <= data_size - 1 /\ data_size # 0 /\ data_size - 1 \in Nat
    BY <1>1 DEF Indices
  <2>2. /\ Block(i) \in Nat /\ Offset(i) \in Slots
        /\ Block(data_size - 1) \in Nat /\ Offset(data_size - 1) \in Slots
    BY <2>1, SplitFacts
  <2>3. Block(i) <= Block(data_size - 1)
    BY <2>1, BlockOrder
  <2>4. Block(i) = Block(data_size - 1) => Offset(i) <= Offset(data_size - 1)
    <3>1. CASE i = data_size - 1
      BY <2>2, <3>1 DEF Slots
    <3>2. CASE i < data_size - 1
      BY <2>1, <2>2, <3>2, BlockOrder DEF Slots
    <3> QED BY <2>1, <3>1, <3>2
  <2> QED BY <2>1, <2>2, <2>3, <2>4 DEF Destroyed
<1>3. ASSUME NEW b \in Blocks, NEW j \in Slots, store[b][j] # Raw
      PROVE  \E p \in Destroyed : access[p[1]] = b /\ p[2] = j
  <2>1. PICK i \in Indices : Position(i) = <<b, j>>
    BY <1>3 DEF Inv, ObjectsMatch
  <2>2. access[Block(i)] = b /\ Offset(i) = j
    BY <2>1 DEF Position
  <2> QED BY <1>2, <2>2
<1> QED BY <1>3 DEF DestroyAll

\* An array without elements has no object, and begins a block next.
LEMMA EmptyArray ==
  ASSUME data_size' = 0, access_at' = NULL,
         store' = [b \in Blocks |-> [j \in Slots |-> Raw]]
  PROVE  FillsNext' /\ ObjectsMatch' /\ ElementsReachable'
<1>1. Indices' = {}
  BY DEF Indices
<1>2. Offset(0) = 0
  BY BlockCountNat DEF Offset
<1> QED BY <1>1, <1>2 DEF FillsNext, ObjectsMatch, ElementsReachable

\* clear() keeps the invariant.
LEMMA ClearInv ==
  ASSUME Inv, Clear
  PROVE  Inv'
<1>1. store' = [b \in Blocks |-> [j \in Slots |-> Raw]]
  BY DestroyAllFacts DEF Clear
<1>2. FillsNext' /\ ObjectsMatch' /\ ElementsReachable'
  BY <1>1, EmptyArray DEF Clear
<1>3. TypeOK'
  BY <1>1, BlockArrayAssumption DEF Inv, TypeOK, Clear
<1>4. TableConsistent' /\ NoLeaks'
  BY DEF Inv, TableConsistent, NoLeaks, Entries, Clear
<1>5. Capacity'
  <2>1. access_size * BlockCount \in Nat
    BY InvFacts, TimesNat
  <2> QED BY <2>1 DEF Inv, Capacity, Clear
<1> QED BY <1>2, <1>3, <1>4, <1>5 DEF Inv

\* reset() finds every block: there is none after the first null entry.
LEMMA ReturnedFacts ==
  ASSUME Inv
  PROVE  live \ Returned = {}
<1> SUFFICES ASSUME NEW b \in live
             PROVE  b \in Returned
  OBVIOUS
<1>1. PICK i \in Entries : b = access[i] /\ access[i] # NULL
  BY DEF Inv, NoLeaks
<1>2. \A j \in 0 .. i : access[j] # NULL
  <2>1. \A j \in 0 .. i : j \in Entries /\ (j = i \/ j < i)
    BY InvFacts DEF Entries
  <2> QED BY <1>1, <2>1 DEF Inv, TableConsistent
<1> QED BY <1>1, <1>2 DEF Returned, Entries

\* reset() keeps the invariant: no block is left behind.
LEMMA ResetInv ==
  ASSUME Inv, Reset
  PROVE  Inv'
<1>1. store' = [b \in Blocks |-> [j \in Slots |-> Raw]]
  BY DestroyAllFacts DEF Reset
<1>2. FillsNext' /\ ObjectsMatch' /\ ElementsReachable'
  BY <1>1, EmptyArray DEF Reset
<1>3. live' = {}
  BY ReturnedFacts DEF Reset
<1>4. Entries' = {} /\ access_size' = 0
  BY DEF Reset, Entries
<1>5. TypeOK'
  <2>1. access' \in [0 .. access_size' - 1 -> Blocks \cup {NULL}]
    BY <1>4 DEF Reset, NoTable
  <2>2. 0 \in 0 .. Modulus - 1 /\ 0 \in 0 .. MaxSize
    BY BlockArrayAssumption
  <2> QED BY <1>1, <1>3, <1>4, <2>1, <2>2 DEF TypeOK, Reset
<1>6. TableConsistent' /\ NoLeaks'
  BY <1>3, <1>4 DEF TableConsistent, NoLeaks
<1>7. Capacity'
  <2>1. 0 * BlockCount = 0 /\ 0 < Modulus
    BY BlockArrayAssumption
  <2> QED BY <1>4, <2>1 DEF Capacity, Reset
<1> QED BY <1>2, <1>5, <1>6, <1>7 DEF Inv

\* A new array has the invariant.
LEMMA InitInv == Init => Inv
<1> SUFFICES ASSUME Init PROVE Inv
  OBVIOUS
<1>1. Entries = {} /\ Indices = {} /\ Offset(0) = 0
  BY BlockCountNat DEF Init, Entries, Indices, Offset
<1>2. TypeOK
  <2>1. 0 \in 0 .. Modulus - 1 /\ 0 \in 0 .. MaxSize
    BY BlockArrayAssumption
  <2>2. access \in [0 .. access_size - 1 -> Blocks \cup {NULL}]
    BY DEF Init, NoTable
  <2> QED BY <2>1, <2>2 DEF Init, TypeOK
<1>3. TableConsistent /\ NoLeaks /\ FillsNext /\ ObjectsMatch /\ ElementsReachable
  BY <1>1 DEF Init, TableConsistent, NoLeaks, FillsNext, ObjectsMatch, ElementsReachable
<1>4. Capacity
  <2>1. 0 * BlockCount = 0 /\ 0 < Modulus
    BY BlockArrayAssumption
  <2> QED BY <2>1 DEF Init, Capacity
<1> QED BY <1>2, <1>3, <1>4 DEF Inv

\* What changes nothing keeps it.
LEMMA StutterInv == Inv /\ UNCHANGED vars => Inv'
  BY DEF vars, Inv, TypeOK, TableConsistent, NoLeaks, FillsNext, ObjectsMatch,
         ElementsReachable, Capacity, Entries, Indices, Position

-----------------------------------------------------------------------------
(* The theorems *)

\* The invariants of the array, whatever the sizes of blocks and table are, for
\* a client that stays within half the range of uint32.
THEOREM ArrayInvariance ==
  ASSUME NoOverflow
  PROVE  Spec => []Inv
<1>1. Init => Inv
  BY InitInv
<1>2. Inv /\ [Next]_vars => Inv'
  <2> SUFFICES ASSUME Inv, [Next]_vars PROVE Inv'
    OBVIOUS
  <2>1. CASE Clear
    BY <2>1, ClearInv
  <2>2. CASE Reset
    BY <2>2, ResetInv
  <2>3. ASSUME NEW v \in Values, PushBack(v) PROVE Inv'
    BY <2>3, PushBackInv
  <2>4. CASE UNCHANGED vars
    BY <2>4, StutterInv
  <2> QED BY <2>1, <2>2, <2>3, <2>4 DEF Next
<1> QED BY <1>1, <1>2, PTL DEF Spec

\* The types of the table, the sizes and the blocks, in uint32.
THEOREM ArrayTypeCorrect ==
  ASSUME NoOverflow
  PROVE  Spec => []TypeOK
<1>1. Inv => TypeOK
  BY DEF Inv
<1> QED BY <1>1, ArrayInvariance, PTL

\* The allocated blocks are those of the table.
THEOREM ArrayKeepsBlocks ==
  ASSUME NoOverflow
  PROVE  Spec => []NoLeaks
<1>1. Inv => NoLeaks
  BY DEF Inv
<1> QED BY <1>1, ArrayInvariance, PTL

\* The objects that are alive are the elements of the array.
THEOREM ArrayDestroysOnce ==
  ASSUME NoOverflow
  PROVE  Spec => []ObjectsMatch
<1>1. Inv => ObjectsMatch
  BY DEF Inv
<1> QED BY <1>1, ArrayInvariance, PTL

\* What a push does to the elements: it adds one and leaves the others alone.
LEMMA PushElements ==
  ASSUME Inv, NoOverflow, NEW v \in Values, PushBack(v)
  PROVE  /\ data_size' = data_size + 1
         /\ access'[Block(data_size)] \in Blocks
         /\ store'[access'[Block(data_size)]][Offset(data_size)] = v
         /\ \A k \in Indices :
              /\ access'[Block(k)] = access[Block(k)]
              /\ store'[access[Block(k)]][Offset(k)] = store[access[Block(k)]][Offset(k)]
<1> DEFINE n == data_size
           i == Block(n)
           o == Offset(n)
           b == access'[i]
<1>1. /\ n \in Nat /\ n < MaxSize /\ MaxSize < Modulus /\ MaxSize \in Nat /\ Modulus \in Nat
      /\ i \in Nat /\ o \in Slots
  BY InvFacts, SplitFacts, BlockArrayAssumption DEF PushBack, NextAddress
<1>2. data_size' = n + 1
  <2>1. (n + 1) % Modulus = n + 1
    BY <1>1
  <2> QED BY <2>1 DEF PushBack, NextAddress, Wrap
<1>3. TableAfter(i)
  BY PushTable
<1>4. store' = [store EXCEPT ![b][o] = v]
  BY DEF PushBack, Filling, Inv, FillsNext
<1>5. b \in Blocks /\ b # NULL
  <2>1. i \in Entries /\ access[i] # NULL => access[i] \in Blocks
    BY InvFacts
  <2> QED BY <1>3, <2>1, BlockArrayAssumption DEF TableAfter
<1>6. TableConsistent' /\ i \in Entries' /\ Entries \subseteq Entries'
  BY <1>3, PushBackInv, InvFacts DEF Inv, TableAfter, Entries
<1>7. store \in [Blocks -> [Slots -> Values \cup {Raw}]]
  BY DEF Inv, TypeOK
<1> HIDE DEF n, i, o, b
<1>8. store'[b][o] = v
  BY <1>1, <1>4, <1>5, <1>7
<1>9. ASSUME NEW k \in Indices
      PROVE  /\ access'[Block(k)] = access[Block(k)]
             /\ store'[access[Block(k)]][Offset(k)] = store[access[Block(k)]][Offset(k)]
  <2>1. k \in Nat /\ k < n /\ Block(k) \in Entries /\ access[Block(k)] \in Blocks
    BY <1>1, InvFacts DEF Indices, n
  <2>2. Offset(k) \in Slots
    BY <2>1, SplitFacts
  <2>3. access'[Block(k)] = access[Block(k)]
    <3>1. Block(k) \in Entries'
      BY <1>6, <2>1
    <3> QED BY <1>3, <2>1, <3>1, BlockArrayAssumption DEF TableAfter, Entries
  <2>4. access[Block(k)] = b => Offset(k) # o
    <3>1. ASSUME access[Block(k)] = b PROVE Block(k) = i
      BY <1>5, <1>6, <2>1, <2>3, <3>1 DEF TableConsistent, b
    <3>2. Block(k) = i => Offset(k) < o
      BY <1>1, <2>1, BlockOrder DEF i, o
    <3>3. Offset(k) \in Nat /\ o \in Nat
      BY <1>1, <2>2 DEF Slots
    <3> QED BY <3>1, <3>2, <3>3
  <2> QED BY <1>1, <1>4, <1>5, <1>7, <2>1, <2>2, <2>3, <2>4
<1> QED BY <1>2, <1>5, <1>8, <1>9 DEF n, i, o, b

\* References to elements survive: no push moves or changes an element.
THEOREM ArrayElementsStay ==
  ASSUME NoOverflow
  PROVE  Spec => ElementsStay
<1> DEFINE Stay == data_size' > data_size =>
             \A i \in Indices :
               /\ Position(i)' = Position(i)
               /\ store'[Position(i)[1]][Position(i)[2]]
                    = store[Position(i)[1]][Position(i)[2]]
<1>1. Inv /\ [Next]_vars => [Stay]_vars
  <2> SUFFICES ASSUME Inv, Next, data_size' > data_size, NEW i \in Indices
               PROVE  /\ Position(i)' = Position(i)
                      /\ store'[Position(i)[1]][Position(i)[2]]
                           = store[Position(i)[1]][Position(i)[2]]
    OBVIOUS
  <2>1. ~Clear /\ ~Reset
    BY InvFacts DEF Clear, Reset
  <2>2. PICK v \in Values : PushBack(v)
    BY <2>1 DEF Next
  <2>3. /\ access'[Block(i)] = access[Block(i)]
        /\ store'[access[Block(i)]][Offset(i)] = store[access[Block(i)]][Offset(i)]
    BY <2>2, PushElements
  <2> QED BY <2>3 DEF Position
<1> QED BY <1>1, ArrayInvariance, PTL DEF Spec, ElementsStay

\* The array as a sequence.
Elements == [k \in 1 .. data_size |-> Element(k - 1)]

\* An empty array is the empty sequence.
LEMMA NoElements ==
  ASSUME data_size = 0
  PROVE  Elements = << >>
  BY DEF Elements

\* A push appends to the sequence.
LEMMA PushAppends ==
  ASSUME Inv, NoOverflow, NEW v \in Values, PushBack(v)
  PROVE  Elements' = Append(Elements, v)
<1> DEFINE n == data_size
<1>1. n \in Nat /\ data_size' = n + 1
  BY InvFacts, PushElements
<1>2. Elements' = [k \in 1 .. n + 1 |-> Element(k - 1)']
  BY <1>1 DEF Elements
<1>3. store'[access'[Block(n)]][Offset(n)] = v
  BY PushElements
<1>4. ASSUME NEW k \in 1 .. n
      PROVE  Element(k - 1)' = Element(k - 1)
  <2>1. k - 1 \in Indices
    BY <1>1 DEF Indices
  <2>2. /\ access'[Block(k - 1)] = access[Block(k - 1)]
        /\ store'[access[Block(k - 1)]][Offset(k - 1)]
             = store[access[Block(k - 1)]][Offset(k - 1)]
    BY <2>1, PushElements
  <2> QED BY <2>2 DEF Element
<1>5. Len(Elements) = n /\ Elements = [k \in 1 .. n |-> Element(k - 1)]
  BY <1>1 DEF Elements
<1>6. Append(Elements, v) = [k \in 1 .. n + 1 |-> IF k = n + 1 THEN v ELSE Element(k - 1)]
  <2> HIDE DEF n
  <2>1. \A k \in 1 .. n : Elements[k] = Element(k - 1)
    BY <1>5
  <2> QED BY <1>1, <1>5, <2>1 DEF Append
<1>7. ASSUME NEW k \in 1 .. n + 1
      PROVE  Element(k - 1)' = IF k = n + 1 THEN v ELSE Element(k - 1)
  <2>1. CASE k = n + 1
    <3>1. k - 1 = n
      BY <1>1, <2>1
    <3> QED BY <1>3, <2>1, <3>1 DEF Element
  <2>2. CASE k # n + 1
    BY <1>1, <1>4, <2>2
  <2> QED BY <2>1, <2>2
<1> QED BY <1>2, <1>6, <1>7

\* The array is the sequence of what was pushed since it was last emptied.
THEOREM ArrayImplementsList ==
  ASSUME NoOverflow
  PROVE  Spec => ImplementsList
<1>1. Init => List!Init
  BY NoElements DEF Init, List!Init, Elements
<1>2. Inv /\ [Next]_vars => [List!Next]_Elements
  <2> SUFFICES ASSUME Inv, [Next]_vars PROVE List!Next \/ UNCHANGED Elements
    OBVIOUS
  <2>1. CASE Clear \/ Reset
    <3>1. data_size' = 0
      BY <2>1 DEF Clear, Reset
    <3>2. Elements' = << >>
      BY <3>1 DEF Elements
    <3> QED BY <3>2 DEF List!Next, List!Clear, Elements
  <2>2. ASSUME NEW v \in Values, PushBack(v) PROVE List!Next
    BY <2>2, PushAppends DEF List!Next, List!PushBack, Elements
  <2>3. CASE UNCHANGED vars
    BY <2>3 DEF vars, Elements, Element
  <2> QED BY <2>1, <2>2, <2>3 DEF Next
<1> QED BY <1>1, <1>2, ArrayInvariance, PTL DEF Spec, ImplementsList, List!Spec, Elements

\* The asserts of block_array.hpp hold.
THEOREM ArrayAssertions ==
  ASSUME NoOverflow
  PROVE  Spec => []AssertionsHold
<1>1. Inv => AssertionsHold
  <2> SUFFICES ASSUME Inv PROVE AssertionsHold
    OBVIOUS
  <2>1. ElementsReachable
    BY DEF Inv
  <2>2. /\ access_size \in Nat /\ data_size \in Nat
        /\ access_size * BlockCount \in Nat
        /\ access_size * BlockCount < Modulus /\ data_size <= access_size * BlockCount
    BY InvFacts, TimesNat DEF Inv, Capacity
  <2>3. CapacitySuffices
    <3>1. Wrap(access_size * BlockCount) = access_size * BlockCount
      BY <2>2, BlockArrayAssumption DEF Wrap
    <3> QED BY <2>2, <3>1 DEF CapacitySuffices
  <2>4. access = NoTable => Block(data_size) = 0
    <3>1. access = NoTable => data_size = 0
      BY <2>2, InvFacts, BlockCountNat
    <3>2. Block(0) = 0
      BY BlockCountNat DEF Block
    <3> QED BY <3>1, <3>2
  <2>5. Block(data_size) <= access_size
    <3>1. 0 \in Slots
      BY BlockCountNat DEF Slots
    <3>2. Block(access_size * BlockCount + 0) = access_size
      BY <2>2, <3>1, SplitOf
    <3>3. access_size * BlockCount + 0 = access_size * BlockCount
      BY <2>2
    <3> QED BY <2>2, <3>2, <3>3, BlockOrder
  <2> QED BY <2>1, <2>3, <2>4, <2>5 DEF AssertionsHold, UpdateAsserts
<1> QED BY <1>1, ArrayInvariance, PTL

=============================================================================
