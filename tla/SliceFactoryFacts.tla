--------------------------- MODULE SliceFactoryFacts ---------------------------
(***************************************************************************)
(* What each operation of SliceFactory does to a factory that is sound     *)
(* (SliceFactoryLists): it stays sound, and the chunks that were cut from  *)
(* blocks stay shared out between the clients, H[l] for level l, and the   *)
(* lists of chunks given back.  The first part is about Chain and the      *)
(* lists that are read through it, for any links; W is what clients may    *)
(* write in the words of a block.                                          *)
(***************************************************************************)
EXTENDS SliceFactoryLists, FiniteSetTheorems, TLAPS

-----------------------------------------------------------------------------
(* Natural numbers *)

\* A set of natural numbers that has a member has a least one.
LEMMA Least ==
  ASSUME NEW T \in SUBSET Nat, T # {}
  PROVE  \E m \in T : \A n \in T : m <= n
<1> DEFINE R == { ss \in Nat \X Nat : ss[1] < ss[2] }
<1>1. IsWellFoundedOn(R, Nat)
  BY NatLessThanWellFounded DEF OpToRel
<1>2. \A x, y \in Nat : x < y => <<x, y>> \in R
  OBVIOUS
<1>3. \E m \in T : \A n \in T : ~ (<<n, m>> \in R)
  <2> HIDE DEF R
  <2> QED BY <1>1, WFMin
<1> HIDE DEF R
<1>4. PICK m \in T : \A n \in T : ~ (<<n, m>> \in R)
  BY <1>3
<1>5. ASSUME NEW n \in T PROVE m <= n
  <2>1. m \in Nat /\ n \in Nat
    OBVIOUS
  <2>2. ~ (n < m)
    BY <1>2, <1>4, <2>1
  <2> QED BY <2>1, <2>2
<1> QED BY <1>5

\* What holds of 0 and of each successor of a number of which it holds, holds of
\* all natural numbers.
LEMMA Induction ==
  ASSUME NEW S \in SUBSET Nat, 0 \in S, \A n \in S : n + 1 \in S
  PROVE  S = Nat
<1> SUFFICES ASSUME S # Nat PROVE FALSE
  OBVIOUS
<1>1. PICK m \in Nat \ S : \A n \in Nat \ S : m <= n
  <2>1. Nat \ S # {} /\ Nat \ S \in SUBSET Nat
    OBVIOUS
  <2> QED BY <2>1, Least
<1>2. m - 1 \in Nat /\ m - 1 \in S
  BY <1>1
<1> QED BY <1>1, <1>2

-----------------------------------------------------------------------------
(* Chains *)


\* One step further along the links from all of a set.
Further(link, T) == T \cup ({ link[y] : y \in T } \cap DOMAIN link)

\* The function that Chain goes through, as a fixed point.
IsReach(link, x, N, r) ==
  r = [n \in 0 .. N |->
         IF n = 0 THEN {x} \cap DOMAIN link
         ELSE Further(link, r[n - 1])]

\* There is such a function.
LEMMA ReachExists ==
  ASSUME NEW link, NEW x, NEW N \in Nat
  PROVE  \E r : IsReach(link, x, N, r)
<1> DEFINE S == { m \in Nat : \E r : IsReach(link, x, m, r) }
<1>1. 0 \in S
  <2> DEFINE r == [n \in 0 .. 0 |-> {x} \cap DOMAIN link]
  <2>1. IsReach(link, x, 0, r)
    BY DEF IsReach
  <2> QED BY <2>1
<1>2. ASSUME NEW m \in S PROVE m + 1 \in S
  <2>1. PICK r : IsReach(link, x, m, r)
    OBVIOUS
  <2> DEFINE next == Further(link, r[m])
             q == [n \in 0 .. m + 1 |-> IF n = m + 1 THEN next ELSE r[n]]
  <2>2. \A n \in 0 .. m : r[n] = IF n = 0 THEN {x} \cap DOMAIN link
         ELSE Further(link, r[n - 1])
    BY <2>1 DEF IsReach
  <2>3. \A n \in 0 .. m + 1 : q[n] = IF n = 0 THEN {x} \cap DOMAIN link
         ELSE Further(link, q[n - 1])
    <3> SUFFICES ASSUME NEW n \in 0 .. m + 1
                 PROVE  q[n] = IF n = 0 THEN {x} \cap DOMAIN link
                          ELSE Further(link, q[n - 1])
      OBVIOUS
    <3>1. CASE n = m + 1
      <4>1. q[n] = next /\ n # 0 /\ q[n - 1] = r[m]
        BY <3>1
      <4> QED BY <4>1
    <3>2. CASE n \in 0 .. m
      <4>1. q[n] = r[n] /\ (n # 0 => q[n - 1] = r[n - 1])
        BY <3>2
      <4> HIDE DEF q
      <4> QED BY <2>2, <3>2, <4>1
    <3> QED BY <3>1, <3>2
  <2>4. IsReach(link, x, m + 1, q)
    <3>1. q = [n \in 0 .. m + 1 |-> q[n]]
      OBVIOUS
    <3> HIDE DEF q
    <3> QED BY <2>3, <3>1 DEF IsReach
  <2> QED BY <2>4
<1> HIDE DEF S
<1>3. S = Nat
  BY <1>1, <1>2, Induction DEF S
<1> QED BY <1>3 DEF S

\* The steps, one by one.
Steps(link, x, N, r) ==
  /\ r[0] = {x} \cap DOMAIN link
  /\ \A n \in Nat : n + 1 <= N => r[n + 1] = Further(link, r[n])

\* The function goes through the steps.
LEMMA ReachSteps ==
  ASSUME NEW link, NEW x, NEW N \in Nat, NEW r, IsReach(link, x, N, r)
  PROVE  Steps(link, x, N, r)
<1>1. \A n \in 0 .. N : r[n] = IF n = 0 THEN {x} \cap DOMAIN link
         ELSE Further(link, r[n - 1])
  BY DEF IsReach
<1>2. r[0] = {x} \cap DOMAIN link
  <2>1. 0 \in 0 .. N
    OBVIOUS
  <2>2. \A n \in 0 .. N : n = 0 => r[n] = {x} \cap DOMAIN link
    BY <1>1
  <2> QED BY <2>1, <2>2
<1>3. ASSUME NEW n \in Nat, n + 1 <= N
      PROVE  r[n + 1] = Further(link, r[n])
  <2>1. n + 1 \in 0 .. N /\ n + 1 # 0 /\ (n + 1) - 1 = n
    BY <1>3
  <2> QED BY <1>1, <2>1
<1> QED BY <1>2, <1>3 DEF Steps

\* What Chain gives: the things reached in as many steps as there are things.
LEMMA ChainReach ==
  ASSUME NEW link, NEW x, IsFiniteSet(DOMAIN link)
  PROVE  \E N, r : /\ N \in Nat /\ N = Cardinality(DOMAIN link)
                   /\ Steps(link, x, N, r)
                   /\ Chain(link, x) = r[N]
<1> DEFINE Reach(N) == CHOOSE r : IsReach(link, x, N, r)
<1>1. PICK N \in Nat : N = Cardinality(DOMAIN link)
  BY FS_CardinalityType
<1>2. IsReach(link, x, N, Reach(N))
  <2>1. \E r : IsReach(link, x, N, r)
    BY <1>1, ReachExists
  <2> QED BY <2>1
<1>3. Chain(link, x) = Reach(N)[N]
  BY <1>1 DEF Chain, IsReach, Further
<1> HIDE DEF Reach
<1>4. Steps(link, x, N, Reach(N))
  BY <1>2, ReachSteps
<1> QED BY <1>1, <1>3, <1>4

\* A chain is closed under its links, and is what is reached.
LEMMA ChainClosed ==
  ASSUME NEW link, NEW x, IsFiniteSet(DOMAIN link)
  PROVE  /\ Chain(link, x) \subseteq DOMAIN link
         /\ x \in DOMAIN link => x \in Chain(link, x)
         /\ \A y \in Chain(link, x) : link[y] \in DOMAIN link => link[y] \in Chain(link, x)
<1> DEFINE D == DOMAIN link
<1>1. PICK N, r : /\ N \in Nat /\ N = Cardinality(DOMAIN link)
                  /\ Steps(link, x, N, r)
                  /\ Chain(link, x) = r[N]
  BY ChainReach
<1>2. N \in Nat
  BY <1>1
<1>3. /\ r[0] = {x} \cap D
      /\ \A n \in Nat : n + 1 <= N => r[n + 1] = Further(link, r[n])
  BY <1>1 DEF Steps
<1> DEFINE Closed(T) == \A y \in T : link[y] \in D => link[y] \in T
           S == { n \in Nat : n <= N =>
                    /\ r[n] \subseteq D
                    /\ x \in D => x \in r[n]
                    /\ Closed(r[n]) \/ Cardinality(r[n]) >= n + 1 }
<1> HIDE DEF D
<1>4. 0 \in S
  <2>1. r[0] \subseteq D /\ (x \in D => x \in r[0])
    BY <1>3
  <2>2. CASE x \in D
    <3>1. r[0] = {x}
      BY <1>3, <2>2
    <3>2. Cardinality({x}) = 1
      BY FS_Singleton
    <3> QED BY <2>1, <3>1, <3>2
  <2>3. CASE x \notin D
    <3>1. r[0] = {}
      BY <1>3, <2>3
    <3>2. Closed(r[0])
      BY <3>1
    <3> QED BY <2>1, <3>2
  <2> QED BY <2>2, <2>3
<1>5. ASSUME NEW n \in S PROVE n + 1 \in S
  <2>1. n \in Nat /\ n + 1 \in Nat
    OBVIOUS
  <2>2. CASE ~ (n + 1 <= N)
    BY <2>1, <2>2
  <2>3. CASE n + 1 <= N
    <3> DEFINE A == r[n]
               B == r[n + 1]
    <3>1. A \subseteq D /\ (x \in D => x \in A) /\ (Closed(A) \/ Cardinality(A) >= n + 1)
      <4>1. n <= N
        BY <1>2, <2>1, <2>3
      <4> QED BY <4>1
    <3>2. B = A \cup ({ link[y] : y \in A } \cap D)
      BY <1>3, <2>1, <2>3 DEF Further, D
    <3> HIDE DEF A, B
    <3>3. B \subseteq D /\ (x \in D => x \in B)
      BY <3>1, <3>2
    <3>4. CASE Closed(A)
      <4>1. B = A
        BY <3>2, <3>4
      <4>2. Closed(B)
        BY <3>4, <4>1
      <4> QED BY <2>1, <3>3, <4>2 DEF B
    <3>5. CASE ~ Closed(A)
      <4>1. PICK y \in A : link[y] \in D /\ link[y] \notin A
        BY <3>5
      <4>2. link[y] \in B /\ A \cup {link[y]} \subseteq B
        BY <3>2, <4>1
      <4>3. IsFiniteSet(B) /\ IsFiniteSet(A)
        BY <3>1, <3>3, FS_Subset DEF D
      <4>4. Cardinality(A \cup {link[y]}) = Cardinality(A) + 1
        BY <4>1, <4>3, FS_AddElement
      <4>5. Cardinality(A \cup {link[y]}) <= Cardinality(B)
        BY <4>2, <4>3, FS_Subset
      <4>6. Cardinality(A) \in Nat /\ Cardinality(B) \in Nat
        BY <4>3, FS_CardinalityType
      <4>7. Cardinality(B) >= (n + 1) + 1
        BY <2>1, <3>1, <3>5, <4>4, <4>5, <4>6
      <4> QED BY <2>1, <3>3, <4>7 DEF B
    <3> QED BY <3>4, <3>5
  <2> QED BY <2>2, <2>3
<1> HIDE DEF S
<1>6. S = Nat
  <2>1. S \in SUBSET Nat
    BY DEF S
  <2> QED BY <1>4, <1>5, <2>1, Induction
<1>7. /\ r[N] \subseteq D /\ (x \in D => x \in r[N])
      /\ Closed(r[N]) \/ Cardinality(r[N]) >= N + 1
  BY <1>2, <1>6 DEF S
<1>8. Closed(r[N])
  <2> SUFFICES ASSUME Cardinality(r[N]) >= N + 1 PROVE FALSE
    BY <1>7
  <2>1. IsFiniteSet(D)
    BY DEF D
  <2>2. Cardinality(r[N]) <= Cardinality(D) /\ Cardinality(r[N]) \in Nat
    BY <1>7, <2>1, FS_Subset, FS_CardinalityType
  <2> QED BY <1>1, <1>2, <2>2 DEF D
<1> QED BY <1>1, <1>7, <1>8 DEF D

\* A chain is in every set that has its first member and is closed under links.
LEMMA ChainLeast ==
  ASSUME NEW link, NEW x, IsFiniteSet(DOMAIN link), NEW T,
         x \in DOMAIN link => x \in T,
         \A y \in T : y \in DOMAIN link /\ link[y] \in DOMAIN link => link[y] \in T
  PROVE  Chain(link, x) \subseteq T
<1> DEFINE D == DOMAIN link
<1>1. PICK N, r : /\ N \in Nat /\ N = Cardinality(DOMAIN link)
                  /\ Steps(link, x, N, r)
                  /\ Chain(link, x) = r[N]
  BY ChainReach
<1>2. N \in Nat
  BY <1>1
<1>3. /\ r[0] = {x} \cap D
      /\ \A n \in Nat : n + 1 <= N => r[n + 1] = Further(link, r[n])
  BY <1>1 DEF Steps
<1> DEFINE S == { n \in Nat : n <= N => r[n] \subseteq T /\ r[n] \subseteq D }
<1>4. 0 \in S
  BY <1>3
<1>5. ASSUME NEW n \in S PROVE n + 1 \in S
  <2>1. CASE ~ (n + 1 <= N)
    BY <2>1
  <2>2. CASE n + 1 <= N
    <3>1. r[n] \subseteq T /\ r[n] \subseteq D
      BY <1>2, <2>2
    <3>2. r[n + 1] = r[n] \cup ({ link[y] : y \in r[n] } \cap D)
      BY <1>3, <2>2 DEF Further, D
    <3>3. r[n + 1] \subseteq T /\ r[n + 1] \subseteq D
      BY <3>1, <3>2
    <3> QED BY <3>3
  <2> QED BY <2>1, <2>2
<1> HIDE DEF S
<1>6. S = Nat
  <2>1. S \in SUBSET Nat
    BY DEF S
  <2> QED BY <1>4, <1>5, <2>1, Induction
<1> QED BY <1>1, <1>2, <1>6 DEF S

\* From nothing nothing is reached.
LEMMA ChainNone ==
  ASSUME NEW link, NEW x, IsFiniteSet(DOMAIN link), x \notin DOMAIN link
  PROVE  Chain(link, x) = {}
BY ChainLeast

\* The first member of a chain and the chain behind it.
LEMMA ChainUnfold ==
  ASSUME NEW link, NEW x, IsFiniteSet(DOMAIN link), x \in DOMAIN link
  PROVE  Chain(link, x) = {x} \cup Chain(link, link[x])
<1> DEFINE T == {x} \cup Chain(link, link[x])
<1>1. /\ Chain(link, link[x]) \subseteq DOMAIN link
      /\ link[x] \in DOMAIN link => link[x] \in Chain(link, link[x])
      /\ \A y \in Chain(link, link[x]) : link[y] \in DOMAIN link => link[y] \in Chain(link, link[x])
  BY ChainClosed
<1>2. Chain(link, x) \subseteq T
  <2>1. \A y \in T : y \in DOMAIN link /\ link[y] \in DOMAIN link => link[y] \in T
    BY <1>1
  <2> QED BY <2>1, ChainLeast
<1>3. /\ Chain(link, x) \subseteq DOMAIN link /\ x \in Chain(link, x)
      /\ \A y \in Chain(link, x) : link[y] \in DOMAIN link => link[y] \in Chain(link, x)
  BY ChainClosed
<1>4. Chain(link, link[x]) \subseteq Chain(link, x)
  <2>1. link[x] \in DOMAIN link => link[x] \in Chain(link, x)
    BY <1>3
  <2>2. \A y \in Chain(link, x) :
          y \in DOMAIN link /\ link[y] \in DOMAIN link => link[y] \in Chain(link, x)
    BY <1>3
  <2> QED BY <2>1, <2>2, ChainLeast
<1> QED BY <1>2, <1>3, <1>4

\* Links outside a chain may change: it stays the same.
LEMMA ChainSame ==
  ASSUME NEW link, NEW new, NEW x, IsFiniteSet(DOMAIN link), DOMAIN new = DOMAIN link,
         \A y \in Chain(link, x) : new[y] = link[y]
  PROVE  Chain(new, x) = Chain(link, x)
<1> DEFINE A == Chain(link, x)
           B == Chain(new, x)
<1>1. /\ A \subseteq DOMAIN link /\ (x \in DOMAIN link => x \in A)
      /\ \A y \in A : link[y] \in DOMAIN link => link[y] \in A
  BY ChainClosed
<1>2. /\ B \subseteq DOMAIN link /\ (x \in DOMAIN link => x \in B)
      /\ \A y \in B : new[y] \in DOMAIN link => new[y] \in B
  BY ChainClosed
<1>3. B \subseteq A
  <2> HIDE DEF A
  <2>1. x \in DOMAIN new => x \in A
    BY <1>1
  <2>2. \A y \in A : y \in DOMAIN new /\ new[y] \in DOMAIN new => new[y] \in A
    BY <1>1 DEF A
  <2> QED BY <2>1, <2>2, ChainLeast
<1>4. A \subseteq B
  <2> DEFINE T == A \cap B
  <2>1. x \in DOMAIN link => x \in T
    BY <1>1, <1>2
  <2>2. \A y \in T : y \in DOMAIN link /\ link[y] \in DOMAIN link => link[y] \in T
    BY <1>1, <1>2
  <2>3. A \subseteq T
    <3> HIDE DEF T
    <3> QED BY <2>1, <2>2, ChainLeast
  <2> QED BY <2>3
<1> QED BY <1>3, <1>4

-----------------------------------------------------------------------------
(* Chains that end *)

\* Behind each member of a list is its end.
LEMMA EndBehind ==
  ASSUME NEW link, NEW x, IsFiniteSet(DOMAIN link), NULL \notin DOMAIN link,
         NEW e \in Chain(link, x), link[e] = NULL, NEW y \in Chain(link, x)
  PROVE  e \in Chain(link, y)
<1> DEFINE T == { z \in Chain(link, x) : e \in Chain(link, z) }
<1>1. /\ Chain(link, x) \subseteq DOMAIN link /\ (x \in DOMAIN link => x \in Chain(link, x))
      /\ \A z \in Chain(link, x) : link[z] \in DOMAIN link => link[z] \in Chain(link, x)
  BY ChainClosed
<1>2. ASSUME NEW z \in T, link[z] \in DOMAIN link PROVE link[z] \in T
  <2>1. z # e /\ z \in DOMAIN link
    BY <1>1, <1>2
  <2>2. Chain(link, z) = {z} \cup Chain(link, link[z])
    BY <2>1, ChainUnfold
  <2> QED BY <1>1, <1>2, <2>1, <2>2
<1>3. x \in DOMAIN link => x \in T
  BY <1>1
<1>4. Chain(link, x) \subseteq T
  <2> HIDE DEF T
  <2> QED BY <1>2, <1>3, ChainLeast
<1> QED BY <1>4

\* A list has one end.
LEMMA OneEnd ==
  ASSUME NEW link, NEW x, IsFiniteSet(DOMAIN link), NULL \notin DOMAIN link,
         IsList(link, x), Chain(link, x) # {}
  PROVE  Cardinality({ y \in Chain(link, x) : link[y] = NULL }) = 1
<1>1. x \in DOMAIN link
  BY ChainNone
<1>2. PICK e \in Chain(link, x) : link[e] = NULL
  BY <1>1 DEF IsList
<1>3. ASSUME NEW y \in Chain(link, x), link[y] = NULL PROVE y = e
  <2>1. e \in Chain(link, y)
    BY <1>2, EndBehind
  <2>2. y \in DOMAIN link
    BY ChainClosed
  <2>3. Chain(link, y) = {y} \cup Chain(link, link[y])
    BY <2>2, ChainUnfold
  <2>4. Chain(link, link[y]) = {}
    BY <1>3, ChainNone
  <2> QED BY <2>1, <2>3, <2>4
<1>4. { y \in Chain(link, x) : link[y] = NULL } = {e}
  BY <1>2, <1>3
<1>5. Cardinality({e}) = 1
  BY FS_Singleton
<1> QED BY <1>4, <1>5

\* Nothing is a list.
LEMMA ListNone ==
  ASSUME NEW link, IsFiniteSet(DOMAIN link), NULL \notin DOMAIN link
  PROVE  Chain(link, NULL) = {} /\ IsList(link, NULL)
<1>1. Chain(link, NULL) = {}
  BY ChainNone
<1> QED BY <1>1 DEF IsList

\* Behind the first member of a list is a list, in which it is not.
LEMMA ListRest ==
  ASSUME NEW link, NEW x, IsFiniteSet(DOMAIN link), NULL \notin DOMAIN link,
         IsList(link, x), x # NULL
  PROVE  /\ x \in Chain(link, x) /\ x \in DOMAIN link
         /\ IsList(link, link[x])
         /\ x \notin Chain(link, link[x])
         /\ Chain(link, x) = {x} \cup Chain(link, link[x])
<1>1. x \in DOMAIN link /\ x \in Chain(link, x)
  BY ChainClosed DEF IsList
<1>2. Chain(link, x) = {x} \cup Chain(link, link[x])
  BY <1>1, ChainUnfold
<1>3. PICK e \in Chain(link, x) : link[e] = NULL
  BY DEF IsList
<1>4. e \in DOMAIN link /\ Chain(link, e) = {e}
  <2>1. e \in DOMAIN link
    BY ChainClosed
  <2>2. Chain(link, e) = {e} \cup Chain(link, link[e])
    BY <2>1, ChainUnfold
  <2>3. Chain(link, link[e]) = {}
    BY <1>3, ChainNone
  <2> QED BY <2>1, <2>2, <2>3
<1>5. x \notin Chain(link, link[x])
  <2> SUFFICES ASSUME x \in Chain(link, link[x]) PROVE FALSE
    OBVIOUS
  <2> DEFINE T == { z \in Chain(link, x) : x \in Chain(link, z) }
  <2>1. x \in DOMAIN link => x \in T
    BY <1>1
  <2>2. ASSUME NEW z \in T, z \in DOMAIN link /\ link[z] \in DOMAIN link PROVE link[z] \in T
    <3>1. link[z] \in Chain(link, x)
      BY <2>2, ChainClosed
    <3>2. CASE z = x
      BY <3>1, <3>2
    <3>3. CASE z # x
      <4>1. Chain(link, z) = {z} \cup Chain(link, link[z])
        BY <2>2, ChainUnfold
      <4> QED BY <3>1, <3>3, <4>1
    <3> QED BY <3>2, <3>3
  <2>3. Chain(link, x) \subseteq T
    <3> HIDE DEF T
    <3> QED BY <2>1, <2>2, ChainLeast
  <2>4. x = e
    BY <1>4, <2>3
  <2>5. Chain(link, link[x]) = {}
    BY <1>3, <2>4, ChainNone
  <2> QED BY <2>5
<1>6. IsList(link, link[x])
  <2>1. link[x] \in DOMAIN link \cup {NULL}
    BY <1>1 DEF IsList
  <2>2. \A y \in Chain(link, link[x]) : link[y] \in DOMAIN link \cup {NULL}
    BY <1>2 DEF IsList
  <2>3. ASSUME link[x] # NULL PROVE \E y \in Chain(link, link[x]) : link[y] = NULL
    <3>1. e # x
      BY <1>3, <2>3
    <3> QED BY <1>2, <1>3, <3>1
  <2> QED BY <2>1, <2>2, <2>3 DEF IsList
<1> QED BY <1>1, <1>2, <1>5, <1>6

\* What leads to a list is one, one member longer.
LEMMA ListPush ==
  ASSUME NEW link, NEW x, IsFiniteSet(DOMAIN link), NULL \notin DOMAIN link,
         x \in DOMAIN link, IsList(link, link[x])
  PROVE  IsList(link, x) /\ Chain(link, x) = {x} \cup Chain(link, link[x])
<1>1. Chain(link, x) = {x} \cup Chain(link, link[x])
  BY ChainUnfold
<1>2. \A y \in Chain(link, x) : link[y] \in DOMAIN link \cup {NULL}
  BY <1>1 DEF IsList
<1>3. \E y \in Chain(link, x) : link[y] = NULL
  BY <1>1 DEF IsList
<1> QED BY <1>1, <1>2, <1>3 DEF IsList

\* A list stays one when links outside it change.
LEMMA ListSame ==
  ASSUME NEW link, NEW new, NEW x, IsFiniteSet(DOMAIN link), DOMAIN new = DOMAIN link,
         IsList(link, x), \A y \in Chain(link, x) : new[y] = link[y]
  PROVE  IsList(new, x) /\ Chain(new, x) = Chain(link, x)
<1>1. Chain(new, x) = Chain(link, x)
  BY ChainSame
<1> QED BY <1>1 DEF IsList

-----------------------------------------------------------------------------
(* Sizes *)

\* SlicesOf is defined, and doubles from level to level.
LEMMA SlicesStep ==
  /\ SlicesOf[0] = 1
  /\ \A l \in Levels : SlicesOf[l + 1] = 2 * SlicesOf[l]
<1> DEFINE N == TopLevel + 1
           Is(m, r) == r = [l \in 0 .. m |-> IF l = 0 THEN 1 ELSE 2 * r[l - 1]]
           S == { m \in Nat : \E r : Is(m, r) }
<1>1. 0 \in S
  <2> DEFINE r == [l \in 0 .. 0 |-> 1]
  <2>1. Is(0, r)
    OBVIOUS
  <2> QED BY <2>1
<1>2. ASSUME NEW m \in S PROVE m + 1 \in S
  <2>1. PICK r : Is(m, r)
    OBVIOUS
  <2> DEFINE q == [l \in 0 .. m + 1 |-> IF l = m + 1 THEN 2 * r[m] ELSE r[l]]
  <2>2. \A l \in 0 .. m : r[l] = IF l = 0 THEN 1 ELSE 2 * r[l - 1]
    BY <2>1
  <2>3. \A l \in 0 .. m + 1 : q[l] = IF l = 0 THEN 1 ELSE 2 * q[l - 1]
    <3> SUFFICES ASSUME NEW l \in 0 .. m + 1
                 PROVE  q[l] = IF l = 0 THEN 1 ELSE 2 * q[l - 1]
      OBVIOUS
    <3>1. CASE l = m + 1
      <4>1. q[l] = 2 * r[m] /\ l # 0 /\ q[l - 1] = r[m]
        BY <3>1
      <4> QED BY <4>1
    <3>2. CASE l \in 0 .. m
      <4>1. q[l] = r[l] /\ (l # 0 => q[l - 1] = r[l - 1])
        BY <3>2
      <4> HIDE DEF q
      <4> QED BY <2>2, <3>2, <4>1
    <3> QED BY <3>1, <3>2
  <2>4. Is(m + 1, q)
    <3>1. q = [l \in 0 .. m + 1 |-> q[l]]
      OBVIOUS
    <3> HIDE DEF q
    <3> QED BY <2>3, <3>1
  <2> HIDE DEF q
  <2>5. \E t : Is(m + 1, t)
    BY <2>4
  <2>6. m + 1 \in Nat
    OBVIOUS
  <2> HIDE DEF Is
  <2> QED BY <2>5, <2>6
<1> HIDE DEF S
<1>3. S = Nat
  BY <1>1, <1>2, Induction DEF S
<1>4. TopLevel \in Nat /\ N \in Nat
  BY SliceFactoryAssumption
<1>5. \E r : Is(N, r)
  BY <1>3, <1>4 DEF S
<1>6. Is(N, SlicesOf)
  BY <1>5 DEF SlicesOf
<1>7. \A l \in 0 .. N : SlicesOf[l] = IF l = 0 THEN 1 ELSE 2 * SlicesOf[l - 1]
  BY <1>6
<1>8. ASSUME NEW l \in Levels PROVE SlicesOf[l + 1] = 2 * SlicesOf[l]
  <2>1. l + 1 \in 0 .. N /\ l + 1 # 0 /\ (l + 1) - 1 = l
    BY <1>4 DEF Levels
  <2> QED BY <1>7, <2>1
<1>9. SlicesOf[0] = 1
  <2>1. 0 \in 0 .. N
    BY <1>4
  <2> QED BY <1>7, <2>1
<1> QED BY <1>8, <1>9

\* Chunks have slices, more on higher levels, and those up to MaxLevel fit in a
\* block.
LEMMA SlicesFacts ==
  /\ \A l \in Levels : SlicesOf[l] \in Nat /\ SlicesOf[l] > 0
  /\ \A l \in Levels : l <= MaxLevel => SlicesOf[l] <= SlabUnits
  /\ \A l \in Levels : SlicesOf[l] <= SlicesOf[TopLevel]
  /\ \A k, l \in Levels : k <= l => SlicesOf[k] <= SlicesOf[l]
  /\ SlabUnits \in Nat /\ SlabUnits > 0
<1>1. TopLevel \in Nat /\ MaxLevel \in Levels /\ SlicesOf[MaxLevel] <= SlabUnits
      /\ SlabUnits \in Nat
  BY SliceFactoryAssumption DEF Levels
<1> DEFINE S == { m \in Nat : m <= TopLevel =>
                    /\ SlicesOf[m] \in Nat /\ SlicesOf[m] > 0
                    /\ \A l \in 0 .. m : SlicesOf[l] \in Nat /\ SlicesOf[l] <= SlicesOf[m] }
<1>2. 0 \in S
  BY SlicesStep
<1>3. ASSUME NEW m \in S PROVE m + 1 \in S
  <2> SUFFICES ASSUME m + 1 <= TopLevel
               PROVE  /\ SlicesOf[m + 1] \in Nat /\ SlicesOf[m + 1] > 0
                      /\ \A l \in 0 .. m + 1 : SlicesOf[l] \in Nat /\ SlicesOf[l] <= SlicesOf[m + 1]
    OBVIOUS
  <2>1. m \in Nat /\ m \in Levels /\ m <= TopLevel
    BY <1>1 DEF Levels
  <2>2. /\ SlicesOf[m] \in Nat /\ SlicesOf[m] > 0
        /\ \A l \in 0 .. m : SlicesOf[l] \in Nat /\ SlicesOf[l] <= SlicesOf[m]
    BY <2>1
  <2>3. SlicesOf[m + 1] = 2 * SlicesOf[m]
    BY <2>1, SlicesStep
  <2>4. SlicesOf[m + 1] \in Nat /\ SlicesOf[m + 1] > 0 /\ SlicesOf[m] <= SlicesOf[m + 1]
    BY <2>2, <2>3
  <2>5. ASSUME NEW l \in 0 .. m + 1
        PROVE  SlicesOf[l] \in Nat /\ SlicesOf[l] <= SlicesOf[m + 1]
    <3>1. CASE l = m + 1
      BY <2>4, <3>1
    <3>2. CASE l \in 0 .. m
      <4>1. SlicesOf[l] \in Nat /\ SlicesOf[l] <= SlicesOf[m]
        BY <2>2, <3>2
      <4> QED BY <2>2, <2>4, <4>1
    <3> QED BY <2>1, <3>1, <3>2
  <2> QED BY <2>4, <2>5
<1> HIDE DEF S
<1>4. S = Nat
  BY <1>2, <1>3, Induction DEF S
<1>5. \A m \in Levels :
        /\ SlicesOf[m] \in Nat /\ SlicesOf[m] > 0
        /\ \A l \in 0 .. m : SlicesOf[l] <= SlicesOf[m]
  BY <1>1, <1>4 DEF S, Levels
<1>6. ASSUME NEW l \in Levels
      PROVE  SlicesOf[l] <= SlicesOf[TopLevel] /\ (l <= MaxLevel => SlicesOf[l] <= SlabUnits)
  <2>1. TopLevel \in Levels /\ l \in 0 .. TopLevel
    BY <1>1 DEF Levels
  <2>2. SlicesOf[l] <= SlicesOf[TopLevel]
    BY <1>5, <2>1
  <2>3. ASSUME l <= MaxLevel PROVE SlicesOf[l] <= SlabUnits
    <3>1. l \in 0 .. MaxLevel
      BY <1>1, <2>1, <2>3 DEF Levels
    <3>2. SlicesOf[l] <= SlicesOf[MaxLevel] /\ SlicesOf[l] \in Nat /\ SlicesOf[MaxLevel] \in Nat
      BY <1>1, <1>5, <3>1
    <3> QED BY <1>1, <3>2
  <2> QED BY <2>2, <2>3
<1>7. SlabUnits > 0
  <2>1. SlicesOf[MaxLevel] > 0 /\ SlicesOf[MaxLevel] \in Nat
    BY <1>1, <1>5
  <2> QED BY <1>1, <2>1
<1>8. ASSUME NEW k \in Levels, NEW l \in Levels, k <= l PROVE SlicesOf[k] <= SlicesOf[l]
  <2>1. k \in 0 .. l
    BY <1>1, <1>8 DEF Levels
  <2> QED BY <1>5, <2>1
<1> QED BY <1>1, <1>5, <1>6, <1>7, <1>8

\* The slices of the memory.
LEMMA UnitsFacts ==
  /\ IsFiniteSet(Units) /\ Units \subseteq Nat /\ 0 \in Units
  /\ \A n \in Nat : n < SlabUnits \/ n < SlicesOf[TopLevel] => n \in Units
<1> DEFINE M == Max({SlicesOf[TopLevel], SlabUnits})
<1>1. TopLevel \in Levels /\ SlicesOf[TopLevel] \in Nat /\ SlabUnits \in Nat /\ SlabUnits > 0
  BY SlicesFacts, SliceFactoryAssumption DEF Levels
<1>2. M \in Nat /\ SlabUnits <= M /\ SlicesOf[TopLevel] <= M
  <2>1. \E m \in {SlicesOf[TopLevel], SlabUnits} : \A n \in {SlicesOf[TopLevel], SlabUnits} : m >= n
    BY <1>1
  <2> QED BY <1>1, <2>1 DEF Max
<1> HIDE DEF M
<1>3. Units = 0 .. M - 1
  BY DEF Units, M
<1>4. IsFiniteSet(Units)
  BY <1>2, <1>3, FS_Interval
<1> QED BY <1>1, <1>2, <1>3, <1>4

\* The constants, as the lemmas below need them.
LEMMA Constants ==
  /\ MinLevel \in Levels /\ MaxLevel \in Levels /\ TopLevel \in Levels
  /\ MinLevel <= MaxLevel /\ Levels \subseteq Nat
  /\ Regular \subseteq Levels /\ \A l \in Levels : l \in Regular <=> MinLevel <= l /\ l <= MaxLevel
  /\ NULL # Data /\ NULL \notin Slabs /\ Data \notin Slabs /\ NULL \notin Levels
  /\ NULL \notin Pointers /\ Data \notin Pointers
  /\ IsFiniteSet(Slabs) /\ IsFiniteSet(Pointers)
<1>1. IsFiniteSet(Pointers)
  BY UnitsFacts, SliceFactoryAssumption, FS_Product DEF Pointers
<1>2. /\ NULL \notin Slabs /\ Data \notin Slabs /\ NULL \notin Levels
      /\ NULL \notin Pointers /\ Data \notin Pointers
  BY SliceFactoryAssumption DEF Pointers
<1> QED BY <1>1, <1>2, SliceFactoryAssumption DEF Levels, Regular

\* The level of the chunk that a client gets when it asks for level l.
LEMMA LiftFacts ==
  ASSUME NEW l \in Levels
  PROVE  Lift(l) \in Levels /\ MinLevel <= Lift(l) /\ l <= Lift(l) /\ (l <= MaxLevel => Lift(l) \in Regular)
<1>1. MinLevel \in Nat /\ l \in Nat /\ MaxLevel \in Nat /\ MinLevel <= MaxLevel
  BY Constants
<1>2. CASE l < MinLevel
  BY <1>1, <1>2, Constants DEF Lift
<1>3. CASE ~ (l < MinLevel)
  BY <1>1, <1>3, Constants DEF Lift
<1> QED BY <1>2, <1>3

-----------------------------------------------------------------------------
(* The lists of a factory *)

\* The domains of its links.
LEMMA LinkDomains ==
  ASSUME NEW W, NEW f \in Factories(W)
  PROVE  /\ DOMAIN f.next = Slabs /\ DOMAIN f.head = Slabs /\ DOMAIN Links(f) = Pointers
         /\ IsFiniteSet(DOMAIN f.next) /\ IsFiniteSet(DOMAIN f.head)
         /\ IsFiniteSet(DOMAIN Links(f))
         /\ NULL \notin DOMAIN f.next /\ NULL \notin DOMAIN f.head
         /\ NULL \notin DOMAIN Links(f)
<1>1. DOMAIN f.next = Slabs /\ DOMAIN f.head = Slabs
  BY DEF Factories
<1>2. DOMAIN Links(f) = Pointers
  BY DEF Links
<1> QED BY <1>1, <1>2, Constants

\* The links of two factories whose blocks have the same words.
LEMMA SameLinks ==
  ASSUME NEW f, NEW g, g.body = f.body
  PROVE  Links(g) = Links(f)
BY DEF Links

\* What the lists hold.
LEMMA ListTypes ==
  ASSUME NEW W, NEW f \in Factories(W)
  PROVE  /\ \A l \in Levels : InLevel(f, l) \subseteq Slabs
         /\ \A l \in Levels : f.slab[l] # NULL => f.slab[l] \in InLevel(f, l)
         /\ \A l \in Levels : f.slab[l] = NULL => InLevel(f, l) = {}
         /\ WaitingHeads(f) \subseteq Slabs /\ Waiting(f) \subseteq Slabs
         /\ WaitingHeads(f) \subseteq Waiting(f)
         /\ f.slabReuse # NULL => f.slabReuse \in WaitingHeads(f)
         /\ f.slabReuse = NULL => WaitingHeads(f) = {} /\ Waiting(f) = {}
         /\ Owned(f) \subseteq Slabs
<1>1. /\ DOMAIN f.next = Slabs /\ DOMAIN f.head = Slabs
      /\ IsFiniteSet(DOMAIN f.next) /\ IsFiniteSet(DOMAIN f.head)
      /\ NULL \notin Slabs
  BY LinkDomains
<1>2. f.slabReuse \in Slabs \cup {NULL} /\ f.slab \in [Levels -> Slabs \cup {NULL}]
  BY DEF Factories
<1>3. \A x : Chain(f.next, x) \subseteq Slabs /\ (x \in Slabs => x \in Chain(f.next, x))
             /\ (x \notin Slabs => Chain(f.next, x) = {})
  BY <1>1, ChainClosed, ChainNone
<1>4. \A x : Chain(f.head, x) \subseteq Slabs /\ (x \in Slabs => x \in Chain(f.head, x))
             /\ (x \notin Slabs => Chain(f.head, x) = {})
  BY <1>1, ChainClosed, ChainNone
<1>5. WaitingHeads(f) \subseteq Slabs /\ Waiting(f) \subseteq Slabs
      /\ WaitingHeads(f) \subseteq Waiting(f)
  BY <1>3, <1>4 DEF WaitingHeads, Waiting
<1>6. /\ f.slabReuse # NULL => f.slabReuse \in WaitingHeads(f)
      /\ f.slabReuse = NULL => WaitingHeads(f) = {} /\ Waiting(f) = {}
  BY <1>1, <1>2, <1>4 DEF WaitingHeads, Waiting
<1>7. ASSUME NEW l \in Levels
      PROVE  /\ InLevel(f, l) \subseteq Slabs
             /\ f.slab[l] # NULL => f.slab[l] \in InLevel(f, l)
             /\ f.slab[l] = NULL => InLevel(f, l) = {}
  BY <1>1, <1>2, <1>3 DEF InLevel
<1>8. Owned(f) \subseteq Slabs
  BY DEF Owned
<1> QED BY <1>5, <1>6, <1>7, <1>8

\* A level whose first block and links are the same has the same blocks.
LEMMA SameLevel ==
  ASSUME NEW W, NEW f \in Factories(W), NEW g \in Factories(W), NEW l \in Levels,
         g.slab[l] = f.slab[l], \A s \in InLevel(f, l) : g.next[s] = f.next[s],
         IsList(f.next, f.slab[l])
  PROVE  InLevel(g, l) = InLevel(f, l) /\ IsList(g.next, g.slab[l])
<1>1. /\ DOMAIN g.next = DOMAIN f.next
      /\ IsFiniteSet(DOMAIN f.next)
  BY LinkDomains
<1> QED BY <1>1, ListSame DEF InLevel

\* So has a chain that waits.
LEMMA SameChain ==
  ASSUME NEW W, NEW f \in Factories(W), NEW g \in Factories(W), NEW s,
         \A t \in Chain(f.next, s) : g.next[t] = f.next[t],
         IsList(f.next, s)
  PROVE  Chain(g.next, s) = Chain(f.next, s) /\ IsList(g.next, s)
<1>1. /\ DOMAIN g.next = DOMAIN f.next
      /\ IsFiniteSet(DOMAIN f.next)
  BY LinkDomains
<1> QED BY <1>1, ListSame

\* What waits is the same when nothing that waits has new links.
LEMMA SameWaiting ==
  ASSUME NEW W, NEW f \in Factories(W), NEW g \in Factories(W),
         BlockLists(f), g.slabReuse = f.slabReuse,
         \A s \in Waiting(f) : g.next[s] = f.next[s],
         \A s \in WaitingHeads(f) : g.head[s] = f.head[s]
  PROVE  /\ WaitingHeads(g) = WaitingHeads(f) /\ IsList(g.head, g.slabReuse)
         /\ \A s \in WaitingHeads(f) :
              Chain(g.next, s) = Chain(f.next, s) /\ IsList(g.next, s)
         /\ Waiting(g) = Waiting(f)
<1>1. /\ DOMAIN g.head = DOMAIN f.head /\ IsFiniteSet(DOMAIN f.head)
  BY LinkDomains
<1>2. IsList(f.head, f.slabReuse)
  BY DEF BlockLists
<1>3. WaitingHeads(g) = WaitingHeads(f) /\ IsList(g.head, g.slabReuse)
  BY <1>1, <1>2, ListSame DEF WaitingHeads
<1>4. ASSUME NEW s \in WaitingHeads(f)
      PROVE  Chain(g.next, s) = Chain(f.next, s) /\ IsList(g.next, s)
  <2>1. \A t \in Chain(f.next, s) : g.next[t] = f.next[t]
    BY DEF Waiting
  <2>2. IsList(f.next, s)
    BY DEF BlockLists
  <2> QED BY <2>1, <2>2, SameChain
<1>5. Waiting(g) = Waiting(f)
  <2>1. Waiting(g) = UNION { Chain(g.next, s) : s \in WaitingHeads(f) }
    BY <1>3 DEF Waiting
  <2> QED BY <1>4, <2>1 DEF Waiting
<1> QED BY <1>3, <1>4, <1>5

\* A list of free chunks is the same when it begins with the same chunk and no
\* chunk in it has a new link.
LEMMA SameFree ==
  ASSUME NEW W, NEW f \in Factories(W), NEW g \in Factories(W), NEW l \in Regular,
         g.reuse[l] = f.reuse[l], IsList(Links(f), f.reuse[l]),
         \A p \in FreeList(f, l) : Links(g)[p] = Links(f)[p]
  PROVE  FreeList(g, l) = FreeList(f, l) /\ IsList(Links(g), g.reuse[l])
<1>1. DOMAIN Links(g) = DOMAIN Links(f) /\ IsFiniteSet(DOMAIN Links(f))
  BY LinkDomains
<1>2. l <= MaxLevel
  BY Constants
<1>3. FreeList(f, l) = Chain(Links(f), f.reuse[l]) /\ FreeList(g, l) = Chain(Links(g), g.reuse[l])
  BY <1>2 DEF FreeList
<1> QED BY <1>1, <1>3, ListSame

\* Levels with no list of free chunks.
LEMMA NoFree ==
  ASSUME NEW W, NEW f \in Factories(W), NEW l \in Levels, f.reuse[l] = NULL
  PROVE  FreeList(f, l) = {}
<1>1. IsFiniteSet(DOMAIN Links(f)) /\ NULL \notin DOMAIN Links(f)
  BY LinkDomains
<1> QED BY <1>1, ChainNone DEF FreeList

\* Free chunks are pointers, with the first among them.
LEMMA FreeTypes ==
  ASSUME NEW W, NEW f \in Factories(W), LevelsIn(f), NEW l \in Levels
  PROVE  /\ FreeList(f, l) \subseteq Pointers
         /\ f.reuse[l] # NULL => l \in Regular /\ f.reuse[l] \in FreeList(f, l)
<1>1. DOMAIN Links(f) = Pointers /\ IsFiniteSet(DOMAIN Links(f))
  BY LinkDomains
<1>2. f.reuse[l] \in Pointers \cup {NULL}
  BY DEF Factories
<1>3. CASE f.reuse[l] = NULL
  BY <1>3, NoFree
<1>4. CASE f.reuse[l] # NULL
  <2>1. l \in Regular /\ l <= MaxLevel
    BY <1>4, Constants DEF LevelsIn
  <2>2. FreeList(f, l) = Chain(Links(f), f.reuse[l])
    BY <2>1 DEF FreeList
  <2> QED BY <1>1, <1>2, <1>4, <2>1, <2>2, ChainClosed
<1> QED BY <1>3, <1>4

-----------------------------------------------------------------------------
(* Chunks *)

\* Each chunk that was cut is with a client or free, and not both.
Shared(f, H) ==
  \A l \in Levels : CutOf(f, l) = H[l] \cup FreeList(f, l) /\ H[l] \cap FreeList(f, l) = {}

\* That the lists end makes the rest of ChunksIn.
LEMMA ChunksFrom ==
  ASSUME NEW W, NEW f \in Factories(W), FreeLists(f), NEW H, Shared(f, H)
  PROVE  ChunksIn(f, H)
<1> SUFFICES ASSUME NEW l \in Levels, l \in Regular, FreeList(f, l) # {}
             PROVE  Cardinality({ p \in FreeList(f, l) : f.body[p[1]][p[2]] = NULL }) = 1
  BY DEF ChunksIn, Shared
<1>1. /\ IsFiniteSet(DOMAIN Links(f)) /\ NULL \notin DOMAIN Links(f) /\ DOMAIN Links(f) = Pointers
  BY LinkDomains
<1>2. FreeList(f, l) = Chain(Links(f), f.reuse[l])
  BY Constants DEF FreeList
<1>3. IsList(Links(f), f.reuse[l])
  BY DEF FreeLists
<1>4. Cardinality({ p \in FreeList(f, l) : Links(f)[p] = NULL }) = 1
  BY <1>1, <1>2, <1>3, OneEnd
<1>5. FreeList(f, l) \subseteq Pointers
  BY <1>1, <1>2, ChainClosed
<1>6. \A p \in Pointers : Links(f)[p] = f.body[p[1]][p[2]]
  BY DEF Links
<1>7. { p \in FreeList(f, l) : Links(f)[p] = NULL }
        = { p \in FreeList(f, l) : f.body[p[1]][p[2]] = NULL }
  BY <1>5, <1>6
<1> QED BY <1>4, <1>7

\* A chunk is in a block of its level.
LEMMA CutInLevel ==
  ASSUME NEW W, NEW f \in Factories(W), NEW l \in Levels, NEW p \in CutOf(f, l)
  PROVE  p \in Pointers /\ p[1] \in InLevel(f, l) /\ p[1] \in Slabs
<1>1. InLevel(f, l) \subseteq Slabs /\ 0 \in Units
  BY ListTypes, UnitsFacts
<1> QED BY <1>1 DEF CutOf, Pointers

\* So chunks of different levels are in different blocks.
LEMMA OneLevel ==
  ASSUME NEW W, NEW f \in Factories(W), BlocksIn(f), NEW H, Shared(f, H),
         NEW l \in Levels, NEW p \in H[l] \cup FreeList(f, l),
         NEW k \in Levels, k # l
  PROVE  /\ p[1] \in InLevel(f, l) /\ p[1] \notin InLevel(f, k)
         /\ p \notin CutOf(f, k) /\ p \notin H[k] /\ p \notin FreeList(f, k)
<1>1. p \in CutOf(f, l) /\ CutOf(f, k) = H[k] \cup FreeList(f, k)
  BY DEF Shared
<1>2. p[1] \in InLevel(f, l) /\ (p \in CutOf(f, k) => p[1] \in InLevel(f, k))
  BY <1>1, CutInLevel
<1>3. InLevel(f, k) \cap InLevel(f, l) = {}
  BY DEF BlocksIn
<1> QED BY <1>1, <1>2, <1>3

\* What the blocks of a level say of its chunks.
LEMMA SameCut ==
  ASSUME NEW W, NEW f \in Factories(W), NEW g \in Factories(W), NEW l \in Levels,
         InLevel(g, l) = InLevel(f, l),
         \A s \in InLevel(f, l) : g.head[s] = f.head[s]
  PROVE  CutOf(g, l) = CutOf(f, l)
<1>1. CASE l <= MaxLevel
  <2>1. \A p \in InLevel(f, l) \X Units : g.head[p[1]] = f.head[p[1]]
    OBVIOUS
  <2> QED BY <1>1, <2>1 DEF CutOf
<1>2. CASE ~ (l <= MaxLevel)
  BY <1>2 DEF CutOf
<1> QED BY <1>1, <1>2

\* BlocksIn, when blocks, lists, positions and sizes are the same.
LEMMA SameBlocks ==
  ASSUME NEW W, NEW f \in Factories(W), NEW g \in Factories(W), BlocksIn(f), BlockLists(f),
         g.next = f.next, g.slab = f.slab, g.slabReuse = f.slabReuse, g.size = f.size,
         \A s \in WaitingHeads(f) : g.head[s] = f.head[s],
         \A l \in Levels : \A s \in InLevel(f, l) : l <= MaxLevel => g.head[s] \in 0 .. SlabUnits
  PROVE  /\ BlocksIn(g) /\ BlockLists(g)
         /\ \A l \in Levels : InLevel(g, l) = InLevel(f, l)
         /\ WaitingHeads(g) = WaitingHeads(f) /\ Waiting(g) = Waiting(f)
         /\ Owned(g) = Owned(f)
<1>1. \A l \in Levels : InLevel(g, l) = InLevel(f, l)
  BY DEF InLevel
<1>2. WaitingHeads(g) = WaitingHeads(f) /\ Waiting(g) = Waiting(f) /\ BlockLists(g)
  BY SameWaiting DEF BlockLists
<1>3. Owned(g) = Owned(f)
  BY DEF Owned
<1>4. BlocksIn(g)
  BY <1>1, <1>2, <1>3 DEF BlocksIn
<1> QED BY <1>1, <1>2, <1>3, <1>4

-----------------------------------------------------------------------------
(* allocate *)

\* A chunk p of level l goes to a client.
With(H, l, p) == [H EXCEPT ![l] = @ \cup {p}]

\* A chunk that was given back is handed out again.
LEMMA ReusedFacts ==
  ASSUME NEW W, NEW f \in Factories(W), Sound(f), NEW H, DOMAIN H = Levels, Shared(f, H),
         NEW l \in Levels, f.reuse[l] # NULL,
         NEW g, g = Reused(f, l).f, NEW p, p = Reused(f, l).p
  PROVE  /\ g \in Factories(W) /\ Sound(g) /\ Shared(g, With(H, l, p))
         /\ p \in Pointers /\ p \in FreeList(f, l) /\ \A k \in Levels : p \notin H[k]
<1>1. l \in Regular /\ p = f.reuse[l] /\ p \in FreeList(f, l) /\ FreeList(f, l) \subseteq Pointers
      /\ l <= MaxLevel
  BY FreeTypes, Constants DEF Sound, Reused
<1>2. p \in Pointers /\ f.body[p[1]][p[2]] = Links(f)[p]
  BY <1>1 DEF Links
<1>3. g = [f EXCEPT !.reuse[l] = Links(f)[p]]
  BY <1>1, <1>2 DEF Reused
<1>4. /\ IsFiniteSet(DOMAIN Links(f)) /\ NULL \notin DOMAIN Links(f) /\ DOMAIN Links(f) = Pointers
  BY LinkDomains
<1>5. /\ IsList(Links(f), Links(f)[p]) /\ p \notin Chain(Links(f), Links(f)[p])
      /\ Chain(Links(f), p) = {p} \cup Chain(Links(f), Links(f)[p])
  <2>1. IsList(Links(f), p) /\ p # NULL
    BY <1>1 DEF Sound, FreeLists
  <2> QED BY <1>4, <2>1, ListRest
<1>6. Links(f)[p] \in Pointers \cup {NULL}
  BY <1>4, <1>5 DEF IsList
<1>7. /\ g \in Factories(W)
      /\ g.slab = f.slab /\ g.slabReuse = f.slabReuse /\ g.next = f.next /\ g.head = f.head
      /\ g.body = f.body /\ g.size = f.size
      /\ g.reuse[l] = Links(f)[p] /\ \A k \in Levels : k # l => g.reuse[k] = f.reuse[k]
  <2> DEFINE x == Links(f)[p]
  <2>1. g = [f EXCEPT !.reuse[l] = x] /\ x \in Pointers \cup {NULL}
    BY <1>3, <1>6
  <2> HIDE DEF x
  <2>2. [f.reuse EXCEPT ![l] = x] \in [Levels -> Pointers \cup {NULL}]
    BY <2>1 DEF Factories
  <2>3. /\ g \in Factories(W)
        /\ g.slab = f.slab /\ g.slabReuse = f.slabReuse /\ g.next = f.next /\ g.head = f.head
        /\ g.body = f.body /\ g.size = f.size
        /\ g.reuse[l] = x /\ \A k \in Levels : k # l => g.reuse[k] = f.reuse[k]
    BY <2>1, <2>2 DEF Factories
  <2> QED BY <2>3 DEF x
<1>8. /\ BlocksIn(g) /\ BlockLists(g)
      /\ \A k \in Levels : InLevel(g, k) = InLevel(f, k)
  <2>1. \A k \in Levels : \A s \in InLevel(f, k) : k <= MaxLevel => g.head[s] \in 0 .. SlabUnits
    BY <1>7 DEF Sound, BlocksIn
  <2> QED BY <1>7, <2>1, SameBlocks DEF Sound
<1>9. Links(g) = Links(f)
  BY <1>7, SameLinks
<1>10. ASSUME NEW k \in Levels, k # l PROVE FreeList(g, k) = FreeList(f, k)
  BY <1>7, <1>9, <1>10 DEF FreeList
<1>11. FreeList(g, l) = FreeList(f, l) \ {p}
  BY <1>1, <1>5, <1>7, <1>9 DEF FreeList
<1>12. FreeLists(g)
  BY <1>1, <1>5, <1>7, <1>9, Constants DEF FreeLists, Sound
<1>13. LevelsIn(g)
  BY <1>1, <1>7, Constants DEF LevelsIn, Sound
<1>14. Aligned(g)
  BY <1>7, <1>8, Constants DEF Aligned, Sound
<1>15. \A k \in Levels : CutOf(g, k) = CutOf(f, k)
  BY <1>7, <1>8, SameCut
<1>16. Shared(g, With(H, l, p))
  <2> SUFFICES ASSUME NEW k \in Levels
               PROVE  /\ CutOf(g, k) = With(H, l, p)[k] \cup FreeList(g, k)
                      /\ With(H, l, p)[k] \cap FreeList(g, k) = {}
    BY DEF Shared
  <2>1. CutOf(f, k) = H[k] \cup FreeList(f, k) /\ H[k] \cap FreeList(f, k) = {}
    BY DEF Shared
  <2>2. CASE k = l
    <3>1. With(H, l, p)[k] = H[k] \cup {p}
      BY <2>2 DEF With
    <3> QED BY <1>1, <1>11, <1>15, <2>1, <2>2, <3>1
  <2>3. CASE k # l
    <3>1. With(H, l, p)[k] = H[k]
      BY <2>3 DEF With
    <3> QED BY <1>10, <1>15, <2>1, <2>3, <3>1
  <2> QED BY <2>2, <2>3
<1>17. \A k \in Levels : p \notin H[k]
  <2>1. p \notin H[l]
    BY <1>1 DEF Shared
  <2>2. ASSUME NEW k \in Levels, k # l PROVE p \notin H[k]
    BY <1>1, <2>2, OneLevel DEF Sound
  <2> QED BY <2>1, <2>2
<1> QED BY <1>1, <1>2, <1>7, <1>8, <1>12, <1>13, <1>14, <1>16, <1>17 DEF Sound

\* Different multiples of a number are at least as far apart as it is.
LEMMA Multiples ==
  ASSUME NEW B \in Nat, B > 0, NEW m \in Nat, (m % B) = 0, NEW n \in Nat, (n % B) = 0, m < n
  PROVE  m + B <= n
<1> DEFINE a == m \div B
           b == n \div B
<1>1. a \in Nat /\ b \in Nat /\ m = B * a + (m % B) /\ n = B * b + (n % B)
  OBVIOUS
<1> HIDE DEF a, b
<1>2. m = B * a /\ n = B * b
  BY <1>1
<1>3. a < b
  <2> SUFFICES ASSUME b <= a PROVE FALSE
    BY <1>1
  <2>1. B * b <= B * a
    BY <1>1
  <2> QED BY <1>2, <2>1
<1>4. a + 1 <= b
  BY <1>1, <1>3
<1>5. B * (a + 1) <= B * b
  BY <1>1, <1>4
<1>6. B * (a + 1) = B * a + B
  BY <1>1
<1> QED BY <1>2, <1>5, <1>6

\* The next multiple.
LEMMA NextMultiple ==
  ASSUME NEW B \in Nat, B > 0, NEW m \in Nat, (m % B) = 0
  PROVE  ((m + B) % B) = 0
<1> DEFINE a == m \div B
<1>1. a \in Nat /\ m = B * a + (m % B)
  OBVIOUS
<1> HIDE DEF a
<1>2. m + B = B * (a + 1)
  BY <1>1
<1> DEFINE z == m + B
           c == a + 1
           q == z \div B
           r == z % B
<1>3. z \in Nat /\ c \in Nat /\ z = B * c
  BY <1>1, <1>2
<1> HIDE DEF z, c
<1>4. q \in Int /\ r \in Nat /\ r < B /\ z = B * q + r
  BY <1>3
<1> HIDE DEF q, r
<1>5. CASE c >= q + 1
  <2>1. B * c >= B * (q + 1)
    BY <1>3, <1>4, <1>5
  <2>2. B * (q + 1) = B * q + B
    BY <1>4
  <2> QED BY <1>3, <1>4, <2>1, <2>2
<1>6. CASE q >= c + 1
  <2>1. B * q >= B * (c + 1)
    BY <1>3, <1>4, <1>6
  <2>2. B * (c + 1) = B * c + B
    BY <1>3
  <2> QED BY <1>3, <1>4, <2>1, <2>2
<1>7. CASE q = c
  BY <1>3, <1>4, <1>7 DEF r, z
<1> QED BY <1>3, <1>4, <1>5, <1>6, <1>7

\* A chunk is cut from the block of its level.
LEMMA CutFacts ==
  ASSUME NEW W, NEW f \in Factories(W), Sound(f), NEW H, DOMAIN H = Levels, Shared(f, H),
         NEW l \in Regular, HasRoom(f, l),
         NEW g, g = Cut(f, l).f, NEW p, p = Cut(f, l).p
  PROVE  /\ g \in Factories(W) /\ Sound(g) /\ Shared(g, With(H, l, p))
         /\ p \in Pointers /\ \A k \in Levels : p \notin H[k]
<1> DEFINE B == SlicesOf[l]
<1>1. PICK s \in Slabs : s = f.slab[l] /\ s \in InLevel(f, l)
  BY ListTypes, Constants DEF HasRoom
<1>2. l \in Levels /\ l <= MaxLevel
  BY Constants
<1>3. B \in Nat /\ B > 0 /\ SlabUnits \in Nat
  BY <1>2, SlicesFacts
<1>4. PICK h \in Nat : h = f.head[s] /\ h <= SlabUnits /\ (h % B) = 0
  <2>1. f.head[s] \in 0 .. SlabUnits
    BY <1>1, <1>2 DEF Sound, BlocksIn
  <2>2. f.head[s] % B = 0
    BY <1>1 DEF Sound, Aligned
  <2> QED BY <1>3, <2>1, <2>2
<1>5. h + B <= SlabUnits
  BY <1>1, <1>4 DEF HasRoom
<1>6. p = <<s, h>> /\ g = [f EXCEPT !.head[s] = h + B]
  BY <1>1, <1>4 DEF Cut
<1>7. ((h + B) % B) = 0 /\ h + B \in 0 .. SlabUnits /\ h \in Units
  <2>1. ((h + B) % B) = 0
    <3> HIDE DEF B
    <3> QED BY <1>3, <1>4, NextMultiple
  <2>2. h + B \in 0 .. SlabUnits /\ h < SlabUnits
    <3> HIDE DEF B
    <3> QED BY <1>3, <1>4, <1>5
  <2>3. h \in Units
    BY <2>2, UnitsFacts
  <2> QED BY <2>1, <2>2, <2>3
<1> HIDE DEF B
<1>8. /\ g \in Factories(W)
      /\ g.slab = f.slab /\ g.slabReuse = f.slabReuse /\ g.next = f.next /\ g.reuse = f.reuse
      /\ g.body = f.body /\ g.size = f.size
      /\ g.head[s] = h + B /\ \A t \in Slabs : t # s => g.head[t] = f.head[t]
  <2>1. [f.head EXCEPT ![s] = h + B] \in [Slabs -> (0 .. SlabUnits) \cup Slabs \cup {NULL, Data}]
    BY <1>7 DEF Factories
  <2> QED BY <1>6, <2>1 DEF Factories
<1>9. p \in Pointers
  BY <1>6, <1>7 DEF Pointers
<1>10. /\ WaitingHeads(f) \subseteq Waiting(f) /\ WaitingHeads(f) \subseteq Slabs
       /\ \A k \in Levels : InLevel(f, k) \subseteq Slabs
  BY ListTypes
<1>11. s \notin Waiting(f) /\ \A k \in Levels : k # l => s \notin InLevel(f, k)
  BY <1>1, <1>2 DEF Sound, BlocksIn
<1>12. /\ BlocksIn(g) /\ BlockLists(g)
       /\ \A k \in Levels : InLevel(g, k) = InLevel(f, k)
  <2>1. ASSUME NEW k \in Levels, NEW t \in InLevel(f, k), k <= MaxLevel
        PROVE  g.head[t] \in 0 .. SlabUnits
    <3>1. CASE t = s
      BY <1>7, <1>8, <3>1
    <3>2. CASE t # s
      BY <1>8, <1>10, <2>1, <3>2 DEF Sound, BlocksIn
    <3> QED BY <3>1, <3>2
  <2>2. \A t \in WaitingHeads(f) : g.head[t] = f.head[t]
    BY <1>8, <1>10, <1>11
  <2> QED BY <1>8, <2>1, <2>2, SameBlocks DEF Sound
<1>13. Links(g) = Links(f)
  BY <1>8, SameLinks
<1>14. ASSUME NEW k \in Levels PROVE FreeList(g, k) = FreeList(f, k)
  BY <1>8, <1>13 DEF FreeList
<1>15. FreeLists(g) /\ LevelsIn(g)
  BY <1>8, <1>13 DEF FreeLists, LevelsIn, Sound
<1>16. Aligned(g)
  <2> SUFFICES ASSUME NEW k \in Regular, NEW t \in InLevel(f, k)
               PROVE  g.head[t] % SlicesOf[k] = 0
    BY <1>12, Constants DEF Aligned
  <2>1. CASE t = s
    <3>1. k = l
      BY <1>11, <2>1, Constants
    <3> QED BY <1>7, <1>8, <2>1, <3>1 DEF B
  <2>2. CASE t # s
    <3>1. g.head[t] = f.head[t]
      BY <1>8, <1>10, <2>2, Constants
    <3> QED BY <3>1 DEF Sound, Aligned
  <2> QED BY <2>1, <2>2
<1>17. \A k \in Levels : k # l => CutOf(g, k) = CutOf(f, k)
  <2> SUFFICES ASSUME NEW k \in Levels, k # l PROVE CutOf(g, k) = CutOf(f, k)
    OBVIOUS
  <2>1. \A t \in InLevel(f, k) : g.head[t] = f.head[t]
    BY <1>8, <1>10, <1>11
  <2> QED BY <1>8, <1>12, <2>1, SameCut
<1>18. p \notin CutOf(f, l)
  <2>1. ~ (h + B <= h)
    BY <1>3
  <2> QED BY <1>2, <1>4, <1>6, <2>1 DEF CutOf, B
<1>19. CutOf(g, l) = CutOf(f, l) \cup {p}
  <2>1. CutOf(g, l) = { q \in InLevel(f, l) \X Units :
                          (q[2] % B) = 0 /\ q[2] + B <= g.head[q[1]] }
    BY <1>2, <1>12 DEF CutOf, B
  <2>2. CutOf(f, l) = { q \in InLevel(f, l) \X Units :
                          (q[2] % B) = 0 /\ q[2] + B <= f.head[q[1]] }
    BY <1>2 DEF CutOf, B
  <2>3. p \in CutOf(g, l)
    BY <1>1, <1>4, <1>6, <1>7, <1>8, <2>1
  <2>4. ASSUME NEW q \in InLevel(f, l) \X Units, (q[2] % B) = 0
        PROVE  q[2] + B <= g.head[q[1]] <=> q[2] + B <= f.head[q[1]] \/ q = p
    <3>1. q[1] \in Slabs /\ q[2] \in Nat /\ q = <<q[1], q[2]>>
      <4>1. InLevel(f, l) \subseteq Slabs /\ Units \subseteq Nat
        BY <1>2, <1>10, UnitsFacts
      <4>2. PICK t \in InLevel(f, l), o \in Units : q = <<t, o>>
        OBVIOUS
      <4> QED BY <4>1, <4>2
    <3>2. CASE q[1] # s
      BY <1>6, <1>8, <3>1, <3>2
    <3>3. CASE q[1] = s
      <4>1. q[2] + B <= h + B <=> q[2] <= h
        BY <1>3, <3>1
      <4>2. q[2] < h => q[2] + B <= h
        BY <1>3, <1>4, <2>4, <3>1, Multiples
      <4>3. q[2] + B <= h => q[2] <= h
        BY <1>3, <3>1
      <4>4. q = p <=> q[2] = h
        BY <1>6, <3>1, <3>3
      <4>5. q[2] + B <= h + B <=> q[2] + B <= h \/ q[2] = h
        BY <3>1, <4>1, <4>2, <4>3
      <4> QED BY <1>4, <1>8, <3>3, <4>4, <4>5
    <3> QED BY <3>2, <3>3
  <2> QED BY <2>1, <2>2, <2>3, <2>4
<1>20. Shared(g, With(H, l, p))
  <2> SUFFICES ASSUME NEW k \in Levels
               PROVE  /\ CutOf(g, k) = With(H, l, p)[k] \cup FreeList(g, k)
                      /\ With(H, l, p)[k] \cap FreeList(g, k) = {}
    BY DEF Shared
  <2>1. CutOf(f, k) = H[k] \cup FreeList(f, k) /\ H[k] \cap FreeList(f, k) = {}
    BY DEF Shared
  <2>2. CASE k = l
    <3>1. With(H, l, p)[k] = H[k] \cup {p}
      BY <2>2 DEF With
    <3> QED BY <1>14, <1>18, <1>19, <2>1, <2>2, <3>1
  <2>3. CASE k # l
    <3>1. With(H, l, p)[k] = H[k]
      BY <2>3 DEF With
    <3> QED BY <1>14, <1>17, <2>1, <2>3, <3>1
  <2> QED BY <2>2, <2>3
<1>21. \A k \in Levels : p \notin H[k]
  <2> SUFFICES ASSUME NEW k \in Levels, p \in H[k] PROVE FALSE
    OBVIOUS
  <2>1. p \in CutOf(f, k)
    BY DEF Shared
  <2>2. s \in InLevel(f, k)
    BY <1>6, <2>1, CutInLevel
  <2> QED BY <1>11, <1>18, <2>1, <2>2
<1> QED BY <1>8, <1>9, <1>12, <1>15, <1>16, <1>20, <1>21 DEF Sound

\* What allocate_slab leaves, for the block n it returns: n is in no chain, all
\* else is where it was.
Taken(f, g, l, n) ==
  /\ n \in Slabs /\ n \notin Waiting(g) /\ \A k \in Levels : n \notin InLevel(f, k)
  /\ g.size[n] = BlockSize(l)
  /\ g.slab = f.slab /\ g.reuse = f.reuse /\ g.body = f.body /\ g.head = f.head
  /\ \A t \in Slabs : t # n => g.size[t] = f.size[t]
  /\ \A k \in Levels : InLevel(g, k) = InLevel(f, k)
  /\ BlockLists(g)
  /\ Owned(g) = Owned(f) \cup {n}
  /\ Waiting(g) = Waiting(f) \ {n}
  /\ n \in Waiting(f) \/ n \notin Owned(f)
  /\ WaitingHeads(g) \subseteq WaitingHeads(f)
  /\ \A s, t \in WaitingHeads(g) : s # t => Chain(g.next, s) \cap Chain(g.next, t) = {}

\* A block of the memory resource.
LEMMA TakenNew ==
  ASSUME NEW W, NEW f \in Factories(W), Sound(f), NEW l \in Levels,
         MustAsk(f, l), NEW s \in Slabs \ Owned(f)
  PROVE  WithoutTaken(f, l, s) \in Factories(W) /\ Taken(f, WithoutTaken(f, l, s), l, s)
<1> DEFINE g == WithoutTaken(f, l, s)
           b == BlockSize(l)
<1>1. b \in Levels /\ b # NULL
  BY Constants DEF BlockSize
<1> HIDE DEF b
<1>2. g = [f EXCEPT !.size[s] = b]
  BY DEF WithoutTaken, b
<1>3. /\ g \in Factories(W) /\ g.size[s] = b
      /\ \A t \in Slabs : t # s => g.size[t] = f.size[t]
      /\ g.slab = f.slab /\ g.reuse = f.reuse /\ g.body = f.body /\ g.head = f.head
      /\ g.next = f.next /\ g.slabReuse = f.slabReuse
  <2>1. [f.size EXCEPT ![s] = b] \in [Slabs -> Levels \cup {NULL}]
    BY <1>1 DEF Factories
  <2> QED BY <1>2, <2>1 DEF Factories
<1> HIDE DEF g
<1>4. /\ \A k \in Levels : InLevel(g, k) = InLevel(f, k)
      /\ WaitingHeads(g) = WaitingHeads(f) /\ Waiting(g) = Waiting(f)
  BY <1>3 DEF InLevel, WaitingHeads, Waiting
<1>5. BlockLists(g)
  BY <1>3, <1>4 DEF BlockLists, Sound
<1>6. Owned(g) = Owned(f) \cup {s}
  BY <1>1, <1>3 DEF Owned
<1>7. s \notin Waiting(f) /\ \A k \in Levels : s \notin InLevel(f, k)
  BY DEF Sound, BlocksIn
<1>8. \A q, t \in WaitingHeads(g) : q # t => Chain(g.next, q) \cap Chain(g.next, t) = {}
  BY <1>3, <1>4 DEF Sound, BlocksIn
<1>9. Taken(f, g, l, s)
  BY <1>1, <1>3, <1>4, <1>5, <1>6, <1>7, <1>8 DEF Taken, b
<1> QED BY <1>3, <1>9 DEF g

\* The second block of the first chain that waits.
LEMMA TakenSecond ==
  ASSUME NEW W, NEW f \in Factories(W), Sound(f), NEW l \in Levels, NEW s,
         ~ MustAsk(f, l), f.next[f.slabReuse] # NULL
  PROVE  /\ WithoutTaken(f, l, s) \in Factories(W)
         /\ Taken(f, WithoutTaken(f, l, s), l, f.next[f.slabReuse])
<1> DEFINE h == f.slabReuse
           n == f.next[h]
           m == f.next[n]
           g == WithoutTaken(f, l, s)
<1>1. h # NULL /\ l <= MaxLevel /\ h \in WaitingHeads(f) /\ h \in Slabs
  BY ListTypes, Constants DEF MustAsk
<1>2. /\ DOMAIN f.next = Slabs /\ IsFiniteSet(DOMAIN f.next) /\ NULL \notin DOMAIN f.next
  BY LinkDomains
<1>3. IsList(f.next, h)
  BY <1>1 DEF Sound, BlockLists
<1>4. /\ h \in Chain(f.next, h) /\ IsList(f.next, n) /\ h \notin Chain(f.next, n)
      /\ Chain(f.next, h) = {h} \cup Chain(f.next, n)
  BY <1>1, <1>2, <1>3, ListRest
<1>5. /\ n \in Chain(f.next, n) /\ n \in Slabs /\ IsList(f.next, m) /\ n \notin Chain(f.next, m)
      /\ Chain(f.next, n) = {n} \cup Chain(f.next, m)
  BY <1>2, <1>4, ListRest
<1>6. m \in Slabs \cup {NULL}
  BY <1>2, <1>5 DEF IsList
<1> HIDE DEF n, m, h
<1>7. g = [f EXCEPT !.next[h] = m]
  BY DEF WithoutTaken, n, m, h
<1>8. /\ g \in Factories(W) /\ g.next[h] = m
      /\ \A t \in Slabs : t # h => g.next[t] = f.next[t]
      /\ g.slab = f.slab /\ g.reuse = f.reuse /\ g.body = f.body /\ g.head = f.head
      /\ g.size = f.size /\ g.slabReuse = f.slabReuse
  <2>1. [f.next EXCEPT ![h] = m] \in [Slabs -> Slabs \cup {NULL, Data}]
    BY <1>6 DEF Factories
  <2> QED BY <1>1, <1>7, <2>1 DEF Factories
<1> HIDE DEF g
<1>9. DOMAIN g.next = DOMAIN f.next /\ DOMAIN g.head = DOMAIN f.head
  BY <1>8, LinkDomains
<1>10. Chain(g.next, m) = Chain(f.next, m) /\ IsList(g.next, m)
  <2>1. h \notin Chain(f.next, m) /\ Chain(f.next, m) \subseteq Slabs
    BY <1>2, <1>4, <1>5, ChainClosed
  <2>2. \A t \in Chain(f.next, m) : g.next[t] = f.next[t]
    BY <1>8, <2>1
  <2> QED BY <1>5, <1>8, <2>2, SameChain
<1>11. Chain(g.next, h) = Chain(f.next, h) \ {n} /\ IsList(g.next, h)
  <2>1. IsList(g.next, h) /\ Chain(g.next, h) = {h} \cup Chain(g.next, m)
    BY <1>1, <1>2, <1>8, <1>9, <1>10, ListPush
  <2> QED BY <1>4, <1>5, <1>10, <2>1
<1>12. h \in Waiting(f) /\ n \in Waiting(f)
  BY <1>1, <1>4, <1>5 DEF Waiting
<1>13. \A k \in Levels : h \notin InLevel(f, k) /\ n \notin InLevel(f, k)
  BY <1>12 DEF Sound, BlocksIn
<1>14. /\ \A k \in Levels : InLevel(f, k) \subseteq Slabs
       /\ WaitingHeads(f) \subseteq Slabs
  BY ListTypes
<1>15. \A k \in Levels : InLevel(g, k) = InLevel(f, k) /\ IsList(g.next, g.slab[k])
  <2> SUFFICES ASSUME NEW k \in Levels
               PROVE  InLevel(g, k) = InLevel(f, k) /\ IsList(g.next, g.slab[k])
    OBVIOUS
  <2>1. \A t \in InLevel(f, k) : g.next[t] = f.next[t]
    BY <1>8, <1>13, <1>14
  <2>2. IsList(f.next, f.slab[k]) /\ g.slab[k] = f.slab[k]
    BY <1>8 DEF Sound, BlockLists
  <2> QED BY <1>8, <2>1, <2>2, SameLevel
<1>16. WaitingHeads(g) = WaitingHeads(f) /\ IsList(g.head, g.slabReuse)
  BY <1>8 DEF WaitingHeads, Sound, BlockLists
<1>17. ASSUME NEW t \in WaitingHeads(f), t # h
       PROVE  /\ Chain(g.next, t) = Chain(f.next, t) /\ IsList(g.next, t)
              /\ n \notin Chain(f.next, t)
  <2>1. Chain(f.next, t) \cap Chain(f.next, h) = {}
    BY <1>1, <1>17 DEF Sound, BlocksIn
  <2>2. h \notin Chain(f.next, t) /\ Chain(f.next, t) \subseteq Slabs
    BY <1>2, <1>4, <2>1, ChainClosed
  <2>3. \A u \in Chain(f.next, t) : g.next[u] = f.next[u]
    BY <1>8, <2>2
  <2>4. IsList(f.next, t)
    BY DEF Sound, BlockLists
  <2> QED BY <1>4, <1>5, <1>8, <2>1, <2>3, <2>4, SameChain
<1>18. BlockLists(g)
  BY <1>11, <1>15, <1>16, <1>17 DEF BlockLists
<1>19. Waiting(g) = Waiting(f) \ {n}
  <2>1. \A t \in WaitingHeads(f) : Chain(g.next, t) = Chain(f.next, t) \ {n}
    BY <1>11, <1>17
  <2>2. Waiting(g) = UNION { Chain(f.next, t) \ {n} : t \in WaitingHeads(f) }
    BY <1>16, <2>1 DEF Waiting
  <2> QED BY <2>2 DEF Waiting
<1>20. \A q, t \in WaitingHeads(g) : q # t => Chain(g.next, q) \cap Chain(g.next, t) = {}
  <2>1. \A q, t \in WaitingHeads(f) : q # t => Chain(f.next, q) \cap Chain(f.next, t) = {}
    BY DEF Sound, BlocksIn
  <2>2. \A t \in WaitingHeads(f) : Chain(g.next, t) \subseteq Chain(f.next, t)
    BY <1>11, <1>17
  <2> QED BY <1>16, <2>1, <2>2
<1>21. Owned(g) = Owned(f) /\ n \in Owned(f)
  BY <1>8, <1>12 DEF Owned, Sound, BlocksIn
<1>22. g.size[n] = BlockSize(l)
  BY <1>1, <1>8, <1>12 DEF Sound, BlocksIn, BlockSize
<1>23. Taken(f, g, l, n)
  BY <1>5, <1>8, <1>12, <1>13, <1>15, <1>16, <1>18, <1>19, <1>20, <1>21, <1>22 DEF Taken
<1> QED BY <1>8, <1>23 DEF g, n, h

\* The first chain that waits, if it is one block.
LEMMA TakenFirst ==
  ASSUME NEW W, NEW f \in Factories(W), Sound(f), NEW l \in Levels, NEW s,
         ~ MustAsk(f, l), f.next[f.slabReuse] = NULL
  PROVE  /\ WithoutTaken(f, l, s) \in Factories(W)
         /\ Taken(f, WithoutTaken(f, l, s), l, f.slabReuse)
<1> DEFINE h == f.slabReuse
           m == f.head[h]
           g == WithoutTaken(f, l, s)
<1>1. h # NULL /\ l <= MaxLevel /\ h \in WaitingHeads(f) /\ h \in Slabs
  BY ListTypes, Constants DEF MustAsk
<1>2. /\ DOMAIN f.next = Slabs /\ IsFiniteSet(DOMAIN f.next) /\ NULL \notin DOMAIN f.next
      /\ DOMAIN f.head = Slabs /\ IsFiniteSet(DOMAIN f.head) /\ NULL \notin DOMAIN f.head
  BY LinkDomains
<1>3. /\ h \in WaitingHeads(f) /\ IsList(f.head, m) /\ h \notin Chain(f.head, m)
      /\ WaitingHeads(f) = {h} \cup Chain(f.head, m)
  <2>1. IsList(f.head, h)
    BY DEF Sound, BlockLists
  <2> QED BY <1>1, <1>2, <2>1, ListRest DEF WaitingHeads
<1>4. m \in Slabs \cup {NULL}
  BY <1>2, <1>3 DEF IsList
<1>5. Chain(f.next, h) = {h}
  <2>1. Chain(f.next, h) = {h} \cup Chain(f.next, f.next[h])
    BY <1>1, <1>2, ChainUnfold
  <2>2. Chain(f.next, f.next[h]) = {}
    BY <1>2, ChainNone
  <2> QED BY <2>1, <2>2
<1> HIDE DEF m, h
<1>6. g = [f EXCEPT !.slabReuse = m]
  BY DEF WithoutTaken, m, h
<1>7. /\ g \in Factories(W) /\ g.slabReuse = m
      /\ g.slab = f.slab /\ g.reuse = f.reuse /\ g.body = f.body /\ g.head = f.head
      /\ g.size = f.size /\ g.next = f.next
  BY <1>4, <1>6 DEF Factories
<1> HIDE DEF g
<1>8. \A k \in Levels : InLevel(g, k) = InLevel(f, k)
  BY <1>7 DEF InLevel
<1>9. WaitingHeads(g) = WaitingHeads(f) \ {h} /\ IsList(g.head, g.slabReuse)
  BY <1>3, <1>7 DEF WaitingHeads
<1>10. BlockLists(g)
  BY <1>7, <1>9 DEF BlockLists, Sound
<1>11. h \in Waiting(f)
  BY <1>1, <1>5 DEF Waiting
<1>12. \A t \in WaitingHeads(f) : t # h => h \notin Chain(f.next, t)
  BY <1>1, <1>5 DEF Sound, BlocksIn
<1>13. Waiting(g) = Waiting(f) \ {h}
  <2>1. Waiting(g) = UNION { Chain(f.next, t) : t \in WaitingHeads(f) \ {h} }
    BY <1>7, <1>9 DEF Waiting
  <2> QED BY <1>5, <1>12, <2>1 DEF Waiting
<1>14. \A q, t \in WaitingHeads(g) : q # t => Chain(g.next, q) \cap Chain(g.next, t) = {}
  BY <1>7, <1>9 DEF Sound, BlocksIn
<1>15. Owned(g) = Owned(f) /\ h \in Owned(f)
  BY <1>7, <1>11 DEF Owned, Sound, BlocksIn
<1>16. g.size[h] = BlockSize(l) /\ \A k \in Levels : h \notin InLevel(f, k)
  BY <1>1, <1>7, <1>11 DEF Sound, BlocksIn, BlockSize
<1>17. Taken(f, g, l, h)
  BY <1>1, <1>7, <1>8, <1>9, <1>10, <1>11, <1>13, <1>14, <1>15, <1>16 DEF Taken
<1> QED BY <1>7, <1>17 DEF g, h

\* allocate_slab, whichever block it returns.
LEMMA TakenFacts ==
  ASSUME NEW W, NEW f \in Factories(W), Sound(f), NEW l \in Levels, NEW s,
         MustAsk(f, l) => s \in Slabs \ Owned(f)
  PROVE  /\ WithoutTaken(f, l, s) \in Factories(W)
         /\ Taken(f, WithoutTaken(f, l, s), l, SlabTaken(f, l, s))
<1>1. CASE MustAsk(f, l)
  BY <1>1, TakenNew DEF SlabTaken
<1>2. CASE ~ MustAsk(f, l) /\ f.next[f.slabReuse] # NULL
  BY <1>2, TakenSecond DEF SlabTaken
<1>3. CASE ~ MustAsk(f, l) /\ f.next[f.slabReuse] = NULL
  BY <1>3, TakenFirst DEF SlabTaken
<1> QED BY <1>1, <1>2, <1>3

\* A block for level l.
LEMMA WithSlabFacts ==
  ASSUME NEW W, NEW f \in Factories(W), Sound(f), NEW H, DOMAIN H = Levels, Shared(f, H),
         NEW l \in Levels, MinLevel <= l, NEW s, MustAsk(f, l) => s \in Slabs \ Owned(f),
         NEW g, g = WithSlab(f, l, s)
  PROVE  /\ g \in Factories(W) /\ Sound(g)
         /\ g.slab[l] \in Slabs /\ g.slab[l] \notin InLevel(f, l)
         /\ l <= MaxLevel => g.head[g.slab[l]] = 0 /\ Shared(g, H)
         /\ l > MaxLevel => /\ Shared(g, With(H, l, <<g.slab[l], 0>>))
                            /\ \A k \in Levels : <<g.slab[l], 0>> \notin H[k]
         /\ g.reuse = f.reuse
<1> DEFINE e == WithoutTaken(f, l, s)
           n == SlabTaken(f, l, s)
           v == IF l <= MaxLevel THEN 0 ELSE Data
           o == f.slab[l]
<1>1. e \in Factories(W) /\ Taken(f, e, l, n)
  BY TakenFacts
<1> HIDE DEF e, n, v, o
<1>2. n \in Slabs /\ e.slab[l] = o /\ o \in Slabs \cup {NULL}
      /\ v \in (0 .. SlabUnits) \cup Slabs \cup {NULL, Data}
  BY <1>1, SlicesFacts DEF Taken, Factories, v, o
<1>3. g = [e EXCEPT !.head[n] = v, !.next[n] = o, !.slab[l] = n]
  BY DEF WithSlab, e, n, v, o
<1>4. /\ g \in Factories(W)
      /\ g.reuse = e.reuse /\ g.body = e.body /\ g.size = e.size /\ g.slabReuse = e.slabReuse
      /\ g.slab[l] = n /\ \A k \in Levels : k # l => g.slab[k] = e.slab[k]
      /\ g.head[n] = v /\ \A t \in Slabs : t # n => g.head[t] = e.head[t]
      /\ g.next[n] = o /\ \A t \in Slabs : t # n => g.next[t] = e.next[t]
  <2>1. [e.head EXCEPT ![n] = v] \in [Slabs -> (0 .. SlabUnits) \cup Slabs \cup {NULL, Data}]
    BY <1>1, <1>2 DEF Factories
  <2>2. [e.next EXCEPT ![n] = o] \in [Slabs -> Slabs \cup {NULL, Data}]
    BY <1>1, <1>2 DEF Factories
  <2>3. [e.slab EXCEPT ![l] = n] \in [Levels -> Slabs \cup {NULL}]
    BY <1>1, <1>2 DEF Factories
  <2> DEFINE hd == [e.head EXCEPT ![n] = v]
             nx == [e.next EXCEPT ![n] = o]
             sl == [e.slab EXCEPT ![l] = n]
  <2>4. e.slab \in [Levels -> Slabs \cup {NULL}]
        /\ e.head \in [Slabs -> (0 .. SlabUnits) \cup Slabs \cup {NULL, Data}]
        /\ e.next \in [Slabs -> Slabs \cup {NULL, Data}]
    BY <1>1 DEF Factories
  <2>5. sl[l] = n /\ (\A k \in Levels : k # l => sl[k] = e.slab[k])
        /\ hd[n] = v /\ (\A t \in Slabs : t # n => hd[t] = e.head[t])
        /\ nx[n] = o /\ (\A t \in Slabs : t # n => nx[t] = e.next[t])
    BY <1>2, <2>4
  <2>6. g = [e EXCEPT !.head = hd, !.next = nx, !.slab = sl]
    BY <1>1, <1>3 DEF Factories
  <2> HIDE DEF hd, nx, sl
  <2>7. /\ g.reuse = e.reuse /\ g.body = e.body /\ g.size = e.size /\ g.slabReuse = e.slabReuse
        /\ g.slab = sl /\ g.head = hd /\ g.next = nx
    BY <1>1, <2>6 DEF Factories
  <2>8. g \in Factories(W)
    BY <1>1, <2>1, <2>2, <2>3, <2>6 DEF Factories, hd, nx, sl
  <2> QED BY <2>5, <2>7, <2>8
<1>5. /\ \A k \in Levels : InLevel(e, k) \subseteq Slabs
      /\ Waiting(e) \subseteq Slabs /\ WaitingHeads(e) \subseteq Waiting(e)
  BY <1>1, ListTypes
<1>6. n \notin Waiting(e) /\ \A k \in Levels : n \notin InLevel(e, k)
  BY <1>1 DEF Taken
<1>7. BlockLists(e) /\ \A k \in Levels : IsList(e.next, e.slab[k])
  BY <1>1 DEF Taken, BlockLists
<1>8. \A k \in Levels : k # l => InLevel(g, k) = InLevel(e, k) /\ IsList(g.next, g.slab[k])
  <2> SUFFICES ASSUME NEW k \in Levels, k # l
               PROVE  InLevel(g, k) = InLevel(e, k) /\ IsList(g.next, g.slab[k])
    OBVIOUS
  <2>1. \A t \in InLevel(e, k) : g.next[t] = e.next[t]
    BY <1>4, <1>5, <1>6
  <2>2. g.slab[k] = e.slab[k]
    BY <1>4
  <2> QED BY <1>1, <1>4, <1>7, <2>1, <2>2, SameLevel
<1>9. InLevel(g, l) = InLevel(e, l) \cup {n} /\ IsList(g.next, g.slab[l])
  <2>1. \A t \in InLevel(e, l) : g.next[t] = e.next[t]
    BY <1>4, <1>5, <1>6
  <2>2. Chain(g.next, o) = Chain(e.next, o) /\ IsList(g.next, o)
    BY <1>1, <1>2, <1>4, <1>7, <2>1, SameChain DEF InLevel
  <2>3. DOMAIN g.next = Slabs /\ IsFiniteSet(DOMAIN g.next) /\ NULL \notin DOMAIN g.next
    BY <1>4, LinkDomains
  <2>4. IsList(g.next, n) /\ Chain(g.next, n) = {n} \cup Chain(g.next, o)
    BY <1>2, <1>4, <2>2, <2>3, ListPush
  <2> QED BY <1>2, <1>4, <2>2, <2>4 DEF InLevel
<1>10. /\ WaitingHeads(g) = WaitingHeads(e) /\ IsList(g.head, g.slabReuse)
       /\ \A t \in WaitingHeads(e) :
            Chain(g.next, t) = Chain(e.next, t) /\ IsList(g.next, t)
       /\ Waiting(g) = Waiting(e)
  <2>1. \A t \in Waiting(e) : g.next[t] = e.next[t] /\ g.head[t] = e.head[t]
    BY <1>4, <1>5, <1>6
  <2>2. \A t \in WaitingHeads(e) : g.head[t] = e.head[t]
    BY <1>5, <2>1
  <2>3. \A t \in Waiting(e) : g.next[t] = e.next[t]
    BY <2>1
  <2>4. g.slabReuse = e.slabReuse
    BY <1>4
  <2> QED BY <1>1, <1>4, <1>7, <2>2, <2>3, <2>4, SameWaiting
<1>11. BlockLists(g)
  BY <1>8, <1>9, <1>10 DEF BlockLists
<1>12. Links(g) = Links(f) /\ g.reuse = f.reuse
  <2>1. g.body = f.body /\ g.reuse = f.reuse
    BY <1>1, <1>4 DEF Taken
  <2> QED BY <2>1, SameLinks
<1>13. FreeLists(g)
  BY <1>12 DEF FreeLists, Sound
<1>14. LevelsIn(g)
  <2>1. \A k \in Levels : k # l => g.slab[k] = f.slab[k]
    BY <1>1, <1>4 DEF Taken
  <2>2. \A k \in Levels : k < MinLevel => k # l
    BY Constants
  <2> QED BY <1>12, <2>1, <2>2 DEF LevelsIn, Sound
<1>15. /\ \A k \in Levels : k # l => InLevel(g, k) = InLevel(f, k)
       /\ InLevel(g, l) = InLevel(f, l) \cup {n}
       /\ \A k \in Levels : \A t \in InLevel(f, k) : g.head[t] = f.head[t] /\ g.size[t] = f.size[t]
       /\ \A k \in Levels : n \notin InLevel(f, k)
  <2>1. \A k \in Levels : InLevel(e, k) = InLevel(f, k)
    BY <1>1 DEF Taken
  <2>2. \A t \in Slabs : t # n => g.head[t] = f.head[t] /\ g.size[t] = f.size[t]
    BY <1>1, <1>4 DEF Taken
  <2> QED BY <1>5, <1>6, <1>8, <1>9, <2>1, <2>2
<1>16. Aligned(g)
  <2> SUFFICES ASSUME NEW k \in Regular, NEW t \in InLevel(g, k)
               PROVE  g.head[t] % SlicesOf[k] = 0
    BY DEF Aligned
  <2>1. k \in Levels /\ k <= MaxLevel
    BY Constants
  <2>2. CASE t \in InLevel(f, k)
    <3>1. f.head[t] % SlicesOf[k] = 0
      BY <2>2 DEF Sound, Aligned
    <3> QED BY <1>15, <2>1, <2>2, <3>1
  <2>3. CASE t \notin InLevel(f, k)
    <3>1. t = n /\ k = l
      BY <1>15, <2>1, <2>3
    <3>2. g.head[t] = 0
      BY <1>4, <2>1, <3>1 DEF v
    <3>3. SlicesOf[k] \in Nat /\ SlicesOf[k] > 0
      BY <2>1, SlicesFacts
    <3> QED BY <3>2, <3>3
  <2> QED BY <2>2, <2>3
<1>17. BlocksIn(g)
  <2>1. Owned(g) = Owned(e)
    BY <1>4 DEF Owned
  <2>2. Owned(g) = Waiting(g) \cup UNION { InLevel(g, k) : k \in Levels }
    <3>1. Owned(g) = Owned(f) \cup {n} /\ Waiting(g) = Waiting(f) \ {n}
      BY <1>1, <1>10, <2>1 DEF Taken
    <3>2. Owned(f) = Waiting(f) \cup UNION { InLevel(f, k) : k \in Levels }
      BY DEF Sound, BlocksIn
    <3>3. UNION { InLevel(g, k) : k \in Levels } = (UNION { InLevel(f, k) : k \in Levels }) \cup {n}
      <4>1. ASSUME NEW t \in UNION { InLevel(g, k) : k \in Levels }
            PROVE  t \in (UNION { InLevel(f, k) : k \in Levels }) \cup {n}
        <5>1. PICK k \in Levels : t \in InLevel(g, k)
          OBVIOUS
        <5>2. t \in InLevel(f, k) \/ t = n
          BY <1>15, <5>1
        <5> QED BY <5>2
      <4>2. n \in UNION { InLevel(g, k) : k \in Levels }
        BY <1>15
      <4>3. \A k \in Levels : InLevel(f, k) \subseteq InLevel(g, k)
        BY <1>15
      <4> QED BY <4>1, <4>2, <4>3
    <3> QED BY <3>1, <3>2, <3>3
  <2>3. ASSUME NEW k \in Levels PROVE InLevel(g, k) \cap Waiting(g) = {}
    <3>1. Waiting(g) = Waiting(f) \ {n}
      BY <1>1, <1>10 DEF Taken
    <3>2. InLevel(f, k) \cap Waiting(f) = {}
      BY DEF Sound, BlocksIn
    <3> QED BY <1>15, <3>1, <3>2
  <2>4. ASSUME NEW k \in Levels, NEW j \in Levels, j # k
        PROVE  InLevel(g, j) \cap InLevel(g, k) = {}
    <3>1. InLevel(f, j) \cap InLevel(f, k) = {}
      BY <2>4 DEF Sound, BlocksIn
    <3> QED BY <1>15, <2>4, <3>1
  <2>5. ASSUME NEW k \in Levels, NEW t \in InLevel(g, k)
        PROVE  g.size[t] = BlockSize(k) /\ (k <= MaxLevel => g.head[t] \in 0 .. SlabUnits)
    <3>1. CASE t \in InLevel(f, k)
      BY <1>15, <3>1 DEF Sound, BlocksIn
    <3>2. CASE t \notin InLevel(f, k)
      <4>1. t = n /\ k = l
        BY <1>15, <3>2
      <4>2. g.size[t] = BlockSize(k)
        BY <1>1, <1>4, <4>1 DEF Taken
      <4> QED BY <1>4, <4>1, <4>2, SlicesFacts DEF v
    <3> QED BY <3>1, <3>2
  <2>6. \A t \in Waiting(g) : g.size[t] = MaxLevel
    <3>1. Waiting(g) = Waiting(f) \ {n} /\ Waiting(f) \subseteq Slabs
      BY <1>1, <1>10, ListTypes DEF Taken
    <3>2. \A t \in Slabs : t # n => g.size[t] = f.size[t]
      BY <1>1, <1>4 DEF Taken
    <3> QED BY <3>1, <3>2 DEF Sound, BlocksIn
  <2>7. \A t \in WaitingHeads(g) : g.head[t] \in Slabs \cup {NULL}
    <3>1. WaitingHeads(g) \subseteq WaitingHeads(f) /\ WaitingHeads(g) \subseteq Slabs
          /\ n \notin WaitingHeads(g)
      BY <1>1, <1>5, <1>6, <1>10 DEF Taken
    <3>2. \A t \in Slabs : t # n => g.head[t] = f.head[t]
      BY <1>1, <1>4 DEF Taken
    <3> QED BY <3>1, <3>2 DEF Sound, BlocksIn
  <2>8. \A q, t \in WaitingHeads(g) : q # t => Chain(g.next, q) \cap Chain(g.next, t) = {}
    BY <1>1, <1>10 DEF Taken
  <2> QED BY <2>2, <2>3, <2>4, <2>5, <2>6, <2>7, <2>8 DEF BlocksIn
<1>18. Sound(g)
  BY <1>11, <1>13, <1>14, <1>16, <1>17 DEF Sound
<1>19. \A k \in Levels : FreeList(g, k) = FreeList(f, k)
  <2>1. \A k \in Levels : ~ (k <= MaxLevel) => f.reuse[k] = NULL
    BY Constants DEF Sound, LevelsIn
  <2> QED BY <1>12, <2>1 DEF FreeList
<1>20. \A k \in Levels : k # l => CutOf(g, k) = CutOf(f, k)
  BY <1>4, <1>15, SameCut
<1>21. ASSUME l <= MaxLevel PROVE g.head[g.slab[l]] = 0 /\ Shared(g, H)
  <2>1. g.head[n] = 0
    BY <1>4, <1>21 DEF v
  <2>2. CutOf(g, l) = CutOf(f, l)
    <3> DEFINE B == SlicesOf[l]
    <3>1. CutOf(g, l) = { q \in (InLevel(f, l) \cup {n}) \X Units :
                            (q[2] % B) = 0 /\ q[2] + B <= g.head[q[1]] }
      BY <1>15, <1>21 DEF CutOf
    <3>2. CutOf(f, l) = { q \in InLevel(f, l) \X Units :
                            (q[2] % B) = 0 /\ q[2] + B <= f.head[q[1]] }
      BY <1>21 DEF CutOf
    <3>3. B \in Nat /\ B > 0 /\ Units \subseteq Nat
      BY SlicesFacts, UnitsFacts
    <3> HIDE DEF B
    <3>4. ASSUME NEW t \in InLevel(f, l) \cup {n}, NEW u \in Units
          PROVE  u + B <= g.head[t] <=> t \in InLevel(f, l) /\ u + B <= f.head[t]
      <4>1. CASE t = n
        <5>1. u \in Nat /\ n \notin InLevel(f, l)
          BY <1>15, <3>3
        <5>2. ~ (u + B <= 0)
          BY <3>3, <5>1
        <5> QED BY <2>1, <4>1, <5>1, <5>2
      <4>2. CASE t # n
        BY <1>15, <4>2
      <4> QED BY <4>1, <4>2
    <3> QED BY <3>1, <3>2, <3>4
  <2> QED BY <1>4, <1>19, <1>20, <2>1, <2>2 DEF Shared
<1>22. ASSUME l > MaxLevel
       PROVE  /\ Shared(g, With(H, l, <<n, 0>>))
              /\ \A k \in Levels : <<n, 0>> \notin H[k]
  <2>1. ~ (l <= MaxLevel) /\ l \notin Regular
    BY <1>22, Constants
  <2>2. CutOf(g, l) = CutOf(f, l) \cup {<<n, 0>>}
    BY <1>15, <2>1 DEF CutOf
  <2>3. FreeList(f, l) = {}
    BY <2>1, NoFree DEF Sound, LevelsIn
  <2>4. Shared(g, With(H, l, <<n, 0>>))
    <3> SUFFICES ASSUME NEW k \in Levels
                 PROVE  /\ CutOf(g, k) = With(H, l, <<n, 0>>)[k] \cup FreeList(g, k)
                        /\ With(H, l, <<n, 0>>)[k] \cap FreeList(g, k) = {}
      BY DEF Shared
    <3>1. CutOf(f, k) = H[k] \cup FreeList(f, k) /\ H[k] \cap FreeList(f, k) = {}
      BY DEF Shared
    <3>2. CASE k = l
      BY <1>19, <2>2, <2>3, <3>1, <3>2 DEF With
    <3>3. CASE k # l
      BY <1>19, <1>20, <3>1, <3>3 DEF With
    <3> QED BY <3>2, <3>3
  <2>5. ASSUME NEW k \in Levels, <<n, 0>> \in H[k] PROVE FALSE
    <3>1. <<n, 0>> \in CutOf(f, k)
      BY <2>5 DEF Shared
    <3>2. n \in InLevel(f, k)
      BY <3>1, CutInLevel
    <3> QED BY <1>15, <3>2
  <2> QED BY <2>4, <2>5
<1> QED BY <1>2, <1>4, <1>12, <1>15, <1>18, <1>21, <1>22

\* allocate: the chunk is nobody's, and all else is as it was.
LEMMA AllocatedFacts ==
  ASSUME NEW W, NEW f \in Factories(W), Sound(f), NEW H, DOMAIN H = Levels, Shared(f, H),
         NEW l \in Levels, MinLevel <= l, NEW s \in Supply(f, l),
         NEW a, a = Allocated(f, l, s)
  PROVE  /\ a.f \in Factories(W) /\ Sound(a.f) /\ Shared(a.f, With(H, l, a.p))
         /\ a.p \in Pointers /\ \A k \in Levels : a.p \notin H[k]
<1>1. CASE f.reuse[l] # NULL
  <2>1. a = Reused(f, l)
    BY <1>1 DEF Allocated
  <2> QED BY <1>1, <2>1, ReusedFacts
<1>2. CASE f.reuse[l] = NULL /\ l > MaxLevel
  <2> DEFINE g == WithSlab(f, l, s)
  <2>1. MustAsk(f, l) => s \in Slabs \ Owned(f)
    <3> HIDE DEF g
    <3>1. ~ (l <= MaxLevel)
      BY <1>2, Constants
    <3>2. MustAsk(f, l) => Supply(f, l) = Slabs \ Owned(f)
      BY ONLY <1>2, <3>1 DEF Supply
    <3> QED BY <3>2
  <2>2. a.f = g /\ a.p = <<g.slab[l], 0>>
    BY <1>2, Constants DEF Allocated, Single
  <2> HIDE DEF g
  <2>3. /\ g \in Factories(W) /\ Sound(g) /\ g.slab[l] \in Slabs
        /\ Shared(g, With(H, l, <<g.slab[l], 0>>))
        /\ \A k \in Levels : <<g.slab[l], 0>> \notin H[k]
    BY <1>2, <2>1, WithSlabFacts DEF g
  <2>4. <<g.slab[l], 0>> \in Pointers
    BY <2>3, UnitsFacts DEF Pointers
  <2> QED BY <2>2, <2>3, <2>4
<1>3. CASE f.reuse[l] = NULL /\ l <= MaxLevel /\ HasRoom(f, l)
  <2>1. a = Cut(f, l) /\ l \in Regular
    BY <1>3, Constants DEF Allocated
  <2> QED BY <1>3, <2>1, CutFacts
<1>4. CASE f.reuse[l] = NULL /\ l <= MaxLevel /\ ~ HasRoom(f, l)
  <2> DEFINE g == WithSlab(f, l, s)
  <2>1. MustAsk(f, l) => s \in Slabs \ Owned(f)
    BY <1>4 DEF Supply
  <2>2. a = Cut(g, l) /\ l \in Regular
    BY <1>4, Constants DEF Allocated
  <2> HIDE DEF g
  <2>3. /\ g \in Factories(W) /\ Sound(g) /\ Shared(g, H)
        /\ g.slab[l] \in Slabs /\ g.head[g.slab[l]] = 0
    <3>1. /\ g \in Factories(W) /\ Sound(g) /\ g.slab[l] \in Slabs
          /\ l <= MaxLevel => g.head[g.slab[l]] = 0 /\ Shared(g, H)
      BY <2>1, WithSlabFacts DEF g
    <3> QED BY <1>4, <3>1
  <2>4. HasRoom(g, l)
    <3>1. SlicesOf[l] \in Nat /\ SlicesOf[l] <= SlabUnits
      BY <1>4, SlicesFacts
    <3>2. g.slab[l] # NULL
      BY <2>3, Constants
    <3> QED BY <2>3, <3>1, <3>2 DEF HasRoom
  <2> QED BY <2>2, <2>3, <2>4, CutFacts
<1>5. l <= MaxLevel \/ l > MaxLevel
  BY Constants
<1> QED BY <1>1, <1>2, <1>3, <1>4, <1>5

\* allocate writes in no block, and marks as allocated one that it had to ask for.
LEMMA AllocatedFields ==
  ASSUME NEW f, NEW l \in Levels, NEW s, NEW a, a = Allocated(f, l, s)
  PROVE  /\ a.f.body = f.body
         /\ a.f.size = f.size \/ a.f.size = WithoutTaken(f, l, s).size
<1> DEFINE w == WithSlab(f, l, s)
           t == WithoutTaken(f, l, s)
<1>1. t.body = f.body
  BY DEF WithoutTaken
<1>2. w.size = t.size /\ w.body = t.body
  BY DEF WithSlab
<1>3. CASE f.reuse[l] # NULL
  <2>1. a = Reused(f, l)
    BY <1>3 DEF Allocated
  <2>2. a.f = [f EXCEPT !.reuse[l] = f.body[f.reuse[l][1]][f.reuse[l][2]]]
    BY <2>1 DEF Reused
  <2> QED BY <2>2
<1>4. CASE f.reuse[l] = NULL /\ l > MaxLevel
  <2>1. a = Single(w, l)
    BY <1>4, Constants DEF Allocated
  <2>2. a.f = w
    BY <2>1 DEF Single
  <2> QED BY <1>1, <1>2, <2>2
<1>5. CASE f.reuse[l] = NULL /\ l <= MaxLevel
  <2>1. CASE HasRoom(f, l)
    <3>1. a = Cut(f, l)
      BY <1>5, <2>1, Constants DEF Allocated
    <3>2. a.f = [f EXCEPT !.head[f.slab[l]] = @ + SlicesOf[l]]
      BY <3>1 DEF Cut
    <3> QED BY <3>2
  <2>2. CASE ~ HasRoom(f, l)
    <3>1. a = Cut(w, l)
      BY <1>5, <2>2, Constants DEF Allocated
    <3> HIDE DEF w
    <3>2. a.f = [w EXCEPT !.head[w.slab[l]] = @ + SlicesOf[l]]
      BY <3>1 DEF Cut
    <3>3. a.f.body = w.body /\ a.f.size = w.size
      BY <3>2
    <3> QED BY <1>1, <1>2, <3>3
  <2> QED BY <2>1, <2>2
<1> QED BY <1>3, <1>4, <1>5, Constants

-----------------------------------------------------------------------------
(* What clients write *)

\* The slices of a chunk of level l at p.
Span(p, l) == p[2] .. p[2] + SlicesOf[l] - 1

\* Chunks of one level in one block have no slice in common.
LEMMA Apart ==
  ASSUME NEW W, NEW f \in Factories(W), NEW l \in Levels,
         NEW p \in CutOf(f, l), NEW q \in CutOf(f, l), p[1] = q[1], p # q
  PROVE  Span(p, l) \cap Span(q, l) = {} /\ p[2] \notin Span(q, l)
<1> DEFINE B == SlicesOf[l]
           m == p[2]
           n == q[2]
<1>1. p \in Pointers /\ q \in Pointers
  BY CutInLevel
<1>2. m \in Nat /\ n \in Nat /\ m # n
  <2>1. Units \subseteq Nat
    BY UnitsFacts
  <2>2. PICK t \in Slabs, o \in Units : p = <<t, o>>
    BY <1>1 DEF Pointers
  <2>3. PICK u \in Slabs, r \in Units : q = <<u, r>>
    BY <1>1 DEF Pointers
  <2> QED BY <2>1, <2>2, <2>3
<1>3. l <= MaxLevel /\ (m % B) = 0 /\ (n % B) = 0
  <2>1. CASE l <= MaxLevel
    BY <2>1 DEF CutOf
  <2>2. CASE ~ (l <= MaxLevel)
    BY <1>2, <2>2 DEF CutOf
  <2> QED BY <2>1, <2>2
<1>4. B \in Nat /\ B > 0
  BY SlicesFacts
<1>5. Span(p, l) = m .. m + B - 1 /\ Span(q, l) = n .. n + B - 1
  BY DEF Span
<1> HIDE DEF B, m, n
<1>6. m + B <= n \/ n + B <= m
  <2>1. CASE m < n
    BY <1>2, <1>3, <1>4, <2>1, Multiples
  <2>2. CASE n < m
    BY <1>2, <1>3, <1>4, <2>2, Multiples
  <2> QED BY <1>2, <2>1, <2>2
<1>7. (m .. m + B - 1) \cap (n .. n + B - 1) = {} /\ m \notin n .. n + B - 1
  BY <1>2, <1>4, <1>6
<1> QED BY <1>5, <1>7 DEF m

\* Chunks that clients hold have no slice in common.
LEMMA HeldApart ==
  ASSUME NEW W, NEW f \in Factories(W), BlocksIn(f), NEW H, Shared(f, H),
         NEW k \in Levels, NEW p \in H[k], NEW l \in Levels, NEW q \in H[l], p # q
  PROVE  p[1] # q[1] \/ (Span(p, k) \cap Span(q, l) = {} /\ p[2] \notin Span(q, l))
<1>1. p \in CutOf(f, k) /\ q \in CutOf(f, l)
  BY DEF Shared
<1>2. CASE k = l
  BY <1>1, <1>2, Apart
<1>3. CASE k # l
  <2>1. p[1] \in InLevel(f, k) /\ p[1] \notin InLevel(f, l)
    BY <1>3, OneLevel
  <2>2. q[1] \in InLevel(f, l)
    BY <1>1, CutInLevel
  <2> QED BY <2>1, <2>2
<1> QED BY <1>2, <1>3

\* A chunk that a client holds is in a block that is there, and fits in it.
LEMMA HeldFits ==
  ASSUME NEW W, NEW f \in Factories(W), BlocksIn(f), NEW H, Shared(f, H),
         NEW l \in Levels, NEW p \in H[l]
  PROVE  /\ p \in Pointers /\ p[1] \in Owned(f) /\ p[2] \in Nat
         /\ p[2] + SlicesOf[l] <= IF l <= MaxLevel THEN SlabUnits ELSE SlicesOf[l]
<1>1. p \in CutOf(f, l)
  BY DEF Shared
<1>2. p \in Pointers /\ p[1] \in InLevel(f, l)
  BY <1>1, CutInLevel
<1>3. p[1] \in Owned(f)
  BY <1>2 DEF BlocksIn
<1>4. SlicesOf[l] \in Nat /\ SlabUnits \in Nat
  BY SlicesFacts
<1>5. p[2] \in Nat
  BY <1>2, UnitsFacts DEF Pointers
<1>6. CASE l <= MaxLevel
  <2>1. p[2] + SlicesOf[l] <= f.head[p[1]]
    BY <1>1, <1>6 DEF CutOf
  <2>2. f.head[p[1]] \in 0 .. SlabUnits
    BY <1>2, <1>6 DEF BlocksIn
  <2>3. p[2] + SlicesOf[l] <= SlabUnits
    BY <1>4, <1>5, <2>1, <2>2
  <2> QED BY <1>2, <1>3, <1>5, <1>6, <2>3
<1>7. CASE ~ (l <= MaxLevel)
  <2>1. p[2] = 0
    BY <1>1, <1>7 DEF CutOf
  <2>2. p[2] + SlicesOf[l] <= SlicesOf[l]
    BY <1>4, <2>1
  <2> QED BY <1>2, <1>3, <1>5, <1>7, <2>2
<1> QED BY <1>6, <1>7

\* What a client writes in its chunk is in no list.
LEMMA FilledFacts ==
  ASSUME NEW W, NEW f \in Factories(W), Sound(f), NEW H, Shared(f, H),
         NEW l \in Levels, NEW p \in H[l], NEW b \in [Units -> W],
         \A o \in Units : o \notin Span(p, l) => b[o] = f.body[p[1]][o],
         NEW g, g = [f EXCEPT !.body[p[1]] = b]
  PROVE  g \in Factories(W) /\ Sound(g) /\ Shared(g, H)
<1>1. p \in CutOf(f, l) /\ p[1] \in InLevel(f, l) /\ p \in Pointers /\ p[1] \in Slabs
  <2>1. p \in CutOf(f, l)
    BY DEF Shared
  <2> QED BY <2>1, CutInLevel
<1>2. /\ g \in Factories(W)
      /\ g.slab = f.slab /\ g.slabReuse = f.slabReuse /\ g.next = f.next /\ g.head = f.head
      /\ g.reuse = f.reuse /\ g.size = f.size
      /\ g.body[p[1]] = b /\ \A s \in Slabs : s # p[1] => g.body[s] = f.body[s]
  <2> DEFINE t == p[1]
  <2>1. [f.body EXCEPT ![t] = b] \in [Slabs -> [Units -> W]] /\ t \in Slabs
        /\ g = [f EXCEPT !.body[t] = b]
    BY <1>1 DEF Factories
  <2> HIDE DEF t
  <2>2. /\ g \in Factories(W)
        /\ g.slab = f.slab /\ g.slabReuse = f.slabReuse /\ g.next = f.next /\ g.head = f.head
        /\ g.reuse = f.reuse /\ g.size = f.size
        /\ g.body[t] = b /\ \A s \in Slabs : s # t => g.body[s] = f.body[s]
    BY <2>1 DEF Factories
  <2> QED BY <2>2 DEF t
<1>3. /\ BlocksIn(g) /\ BlockLists(g)
      /\ \A k \in Levels : InLevel(g, k) = InLevel(f, k)
  <2>1. \A k \in Levels : \A s \in InLevel(f, k) : k <= MaxLevel => g.head[s] \in 0 .. SlabUnits
    BY <1>2 DEF Sound, BlocksIn
  <2>2. /\ \A s \in WaitingHeads(f) : g.head[s] = f.head[s]
        /\ BlocksIn(f) /\ BlockLists(f)
    BY <1>2 DEF Sound
  <2>3. /\ g \in Factories(W)
        /\ g.next = f.next /\ g.slab = f.slab /\ g.slabReuse = f.slabReuse /\ g.size = f.size
    BY <1>2
  <2> QED BY <2>1, <2>2, <2>3, SameBlocks
<1>4. ASSUME NEW k \in Levels, NEW q \in FreeList(f, k)
      PROVE  Links(g)[q] = Links(f)[q]
  <2>1. q \in Pointers /\ q \in CutOf(f, k)
    BY FreeTypes DEF Sound, Shared
  <2>2. PICK s \in Slabs, o \in Units : q = <<s, o>>
    BY <2>1 DEF Pointers
  <2>3. Links(g)[q] = g.body[s][o] /\ Links(f)[q] = f.body[s][o]
    BY <2>1, <2>2 DEF Links
  <2>4. CASE s # p[1]
    BY <1>2, <2>3, <2>4
  <2>5. CASE s = p[1]
    <3>1. k = l
      <4>1. s \in InLevel(f, k)
        BY <2>1, <2>2, CutInLevel
      <4> QED BY <1>1, <2>5, <4>1 DEF Sound, BlocksIn
    <3>2. q # p
      BY <3>1 DEF Shared
    <3>3. o \notin Span(p, l)
      BY <1>1, <2>1, <2>2, <2>5, <3>1, <3>2, Apart
    <3> QED BY <1>2, <2>3, <2>5, <3>3
  <2> QED BY <2>4, <2>5
<1>5. \A k \in Regular : FreeList(g, k) = FreeList(f, k) /\ IsList(Links(g), g.reuse[k])
  <2> SUFFICES ASSUME NEW k \in Regular
               PROVE  FreeList(g, k) = FreeList(f, k) /\ IsList(Links(g), g.reuse[k])
    OBVIOUS
  <2>1. k \in Levels /\ g.reuse[k] = f.reuse[k] /\ IsList(Links(f), f.reuse[k])
    BY <1>2, Constants DEF Sound, FreeLists
  <2>2. \A q \in FreeList(f, k) : Links(g)[q] = Links(f)[q]
    BY <1>4, <2>1
  <2> QED BY <1>2, <2>1, <2>2, SameFree
<1>6. \A k \in Levels : FreeList(g, k) = FreeList(f, k)
  <2> SUFFICES ASSUME NEW k \in Levels, k \notin Regular PROVE FreeList(g, k) = FreeList(f, k)
    BY <1>5
  <2>1. f.reuse[k] = NULL /\ g.reuse[k] = NULL
    BY <1>2 DEF Sound, LevelsIn
  <2> QED BY <1>2, <2>1, NoFree
<1>7. LevelsIn(g) /\ FreeLists(g) /\ Aligned(g)
  BY <1>2, <1>3, <1>5, Constants DEF LevelsIn, FreeLists, Aligned, Sound
<1>8. \A k \in Levels : CutOf(g, k) = CutOf(f, k)
  BY <1>2, <1>3, SameCut
<1>9. Shared(g, H)
  BY <1>6, <1>8 DEF Shared
<1> QED BY <1>2, <1>3, <1>7, <1>9 DEF Sound

-----------------------------------------------------------------------------
(* deallocate *)

\* A chunk p of level l is given back.
Without(H, l, p) == [H EXCEPT ![l] = @ \ {p}]

\* The chunk becomes the first of the list of its level.
LEMMA DeallocatedFacts ==
  ASSUME NEW W, Pointers \cup {NULL} \subseteq W,
         NEW f \in Factories(W), Sound(f), NEW H, DOMAIN H = Levels, Shared(f, H),
         NEW l \in Regular, NEW p \in H[l],
         NEW g, g = Deallocated(f, p, l)
  PROVE  g \in Factories(W) /\ Sound(g) /\ Shared(g, Without(H, l, p))
<1> DEFINE x == f.reuse[l]
           s == p[1]
           o == p[2]
<1>1. l \in Levels /\ l <= MaxLevel
  BY Constants
<1>2. p \in CutOf(f, l) /\ s \in InLevel(f, l) /\ p \in Pointers /\ s \in Slabs /\ o \in Units
  <2>1. p \in CutOf(f, l)
    BY <1>1 DEF Shared
  <2> QED BY <1>1, <2>1, CutInLevel DEF Pointers
<1>3. p = <<s, o>>
  BY <1>2 DEF Pointers
<1>4. x \in Pointers \cup {NULL}
  BY <1>1 DEF Factories
<1>5. g = [f EXCEPT !.body[s][o] = x, !.reuse[l] = p]
  BY <1>1 DEF Deallocated
<1> HIDE DEF x, s, o
<1>6. /\ g \in Factories(W)
      /\ g.slab = f.slab /\ g.slabReuse = f.slabReuse /\ g.next = f.next /\ g.head = f.head
      /\ g.size = f.size
      /\ g.reuse[l] = p /\ \A k \in Levels : k # l => g.reuse[k] = f.reuse[k]
      /\ g.body[s][o] = x
      /\ \A t \in Slabs, u \in Units : t # s \/ u # o => g.body[t][u] = f.body[t][u]
  <2> DEFINE bd == [f.body EXCEPT ![s][o] = x]
             re == [f.reuse EXCEPT ![l] = p]
  <2>1. bd \in [Slabs -> [Units -> W]] /\ re \in [Levels -> Pointers \cup {NULL}]
        /\ bd[s][o] = x /\ (\A t \in Slabs, u \in Units : t # s \/ u # o => bd[t][u] = f.body[t][u])
        /\ re[l] = p /\ (\A k \in Levels : k # l => re[k] = f.reuse[k])
    BY <1>1, <1>2, <1>4 DEF Factories
  <2>2. g = [f EXCEPT !.body = bd, !.reuse = re]
    BY <1>5 DEF Factories
  <2> HIDE DEF bd, re
  <2>3. /\ g.slab = f.slab /\ g.slabReuse = f.slabReuse /\ g.next = f.next /\ g.head = f.head
        /\ g.size = f.size /\ g.body = bd /\ g.reuse = re /\ g \in Factories(W)
    BY <2>1, <2>2 DEF Factories
  <2> QED BY <2>1, <2>3
<1>7. /\ BlocksIn(g) /\ BlockLists(g)
      /\ \A k \in Levels : InLevel(g, k) = InLevel(f, k)
  <2>1. \A k \in Levels : \A t \in InLevel(f, k) : k <= MaxLevel => g.head[t] \in 0 .. SlabUnits
    BY <1>6 DEF Sound, BlocksIn
  <2> QED BY <1>6, <2>1, SameBlocks DEF Sound
<1>8. /\ DOMAIN Links(f) = Pointers /\ DOMAIN Links(g) = Pointers
      /\ IsFiniteSet(Pointers) /\ NULL \notin Pointers
  BY <1>6, LinkDomains
<1>9. Links(g)[p] = x /\ \A q \in Pointers : q # p => Links(g)[q] = Links(f)[q]
  <2>1. Links(g)[p] = x
    BY <1>2, <1>3, <1>6 DEF Links, s, o
  <2>2. ASSUME NEW q \in Pointers, q # p PROVE Links(g)[q] = Links(f)[q]
    <3>1. PICK t \in Slabs, u \in Units : q = <<t, u>>
      BY DEF Pointers
    <3>2. t # s \/ u # o
      BY <1>3, <2>2, <3>1
    <3> QED BY <1>6, <3>1, <3>2 DEF Links
  <2> QED BY <2>1, <2>2
<1>10. \A k \in Levels : p \notin FreeList(f, k)
  <2>1. p \notin FreeList(f, l)
    BY <1>1 DEF Shared
  <2>2. ASSUME NEW k \in Levels, k # l PROVE p \notin FreeList(f, k)
    BY <1>1, <2>2, OneLevel DEF Sound
  <2> QED BY <2>1, <2>2
<1>11. \A k \in Levels : FreeList(f, k) \subseteq Pointers
  BY FreeTypes DEF Sound
<1>12. \A k \in Regular : k # l =>
         FreeList(g, k) = FreeList(f, k) /\ IsList(Links(g), g.reuse[k])
  <2> SUFFICES ASSUME NEW k \in Regular, k # l
               PROVE  FreeList(g, k) = FreeList(f, k) /\ IsList(Links(g), g.reuse[k])
    OBVIOUS
  <2>1. k \in Levels /\ g.reuse[k] = f.reuse[k] /\ IsList(Links(f), f.reuse[k])
    BY <1>6, Constants DEF Sound, FreeLists
  <2>2. \A q \in FreeList(f, k) : Links(g)[q] = Links(f)[q]
    BY <1>9, <1>10, <1>11, <2>1
  <2> QED BY <1>6, <2>1, <2>2, SameFree
<1>13. FreeList(g, l) = FreeList(f, l) \cup {p} /\ IsList(Links(g), g.reuse[l])
  <2>1. FreeList(f, l) = Chain(Links(f), x) /\ FreeList(g, l) = Chain(Links(g), p)
    BY <1>1, <1>6 DEF FreeList, x
  <2>2. IsList(Links(f), x)
    BY DEF Sound, FreeLists, x
  <2>3. \A q \in Chain(Links(f), x) : Links(g)[q] = Links(f)[q]
    BY <1>1, <1>9, <1>10, <1>11, <2>1
  <2>4. IsList(Links(g), x) /\ Chain(Links(g), x) = Chain(Links(f), x)
    BY <1>8, <2>2, <2>3, ListSame
  <2>5. IsList(Links(g), p) /\ Chain(Links(g), p) = {p} \cup Chain(Links(g), x)
    BY <1>2, <1>8, <1>9, <2>4, ListPush
  <2> QED BY <1>6, <2>1, <2>4, <2>5
<1>14. \A k \in Levels : k # l => FreeList(g, k) = FreeList(f, k)
  <2> SUFFICES ASSUME NEW k \in Levels, k # l, k \notin Regular
               PROVE  FreeList(g, k) = FreeList(f, k)
    BY <1>12
  <2>1. f.reuse[k] = NULL /\ g.reuse[k] = NULL
    BY <1>6 DEF Sound, LevelsIn
  <2> QED BY <1>6, <2>1, NoFree
<1>15. LevelsIn(g) /\ FreeLists(g) /\ Aligned(g)
  <2>1. LevelsIn(g)
    BY <1>6 DEF LevelsIn, Sound
  <2>2. FreeLists(g)
    BY <1>12, <1>13 DEF FreeLists
  <2>3. Aligned(g)
    BY <1>6, <1>7, Constants DEF Aligned, Sound
  <2> QED BY <2>1, <2>2, <2>3
<1>16. \A k \in Levels : CutOf(g, k) = CutOf(f, k)
  BY <1>6, <1>7, SameCut
<1>17. Shared(g, Without(H, l, p))
  <2> SUFFICES ASSUME NEW k \in Levels
               PROVE  /\ CutOf(g, k) = Without(H, l, p)[k] \cup FreeList(g, k)
                      /\ Without(H, l, p)[k] \cap FreeList(g, k) = {}
    BY DEF Shared
  <2>1. CutOf(f, k) = H[k] \cup FreeList(f, k) /\ H[k] \cap FreeList(f, k) = {}
    BY DEF Shared
  <2>2. CASE k = l
    <3>1. Without(H, l, p)[k] = H[k] \ {p}
      BY <2>2 DEF Without
    <3> QED BY <1>13, <1>16, <2>1, <2>2, <3>1
  <2>3. CASE k # l
    <3>1. Without(H, l, p)[k] = H[k]
      BY <2>3 DEF Without
    <3> QED BY <1>14, <1>16, <2>1, <2>3, <3>1
  <2> QED BY <2>2, <2>3
<1> QED BY <1>6, <1>7, <1>15, <1>17 DEF Sound

-----------------------------------------------------------------------------
(* free_range *)

\* Blocks that go back.
LEMMA ReturnedFacts ==
  ASSUME NEW W, Data \in W, NEW f \in Factories(W), NEW S, NEW g, g = Returned(f, S)
  PROVE  /\ g \in Factories(W)
         /\ g.slab = f.slab /\ g.reuse = f.reuse /\ g.slabReuse = f.slabReuse
         /\ \A s \in Slabs : s \notin S =>
              /\ g.size[s] = f.size[s] /\ g.next[s] = f.next[s] /\ g.head[s] = f.head[s]
              /\ g.body[s] = f.body[s]
         /\ Owned(g) = Owned(f) \ S
<1> DEFINE sz == [s \in Slabs |-> IF s \in S THEN NULL ELSE f.size[s]]
           nx == [s \in Slabs |-> IF s \in S THEN Data ELSE f.next[s]]
           hd == [s \in Slabs |-> IF s \in S THEN Data ELSE f.head[s]]
           bd == [s \in Slabs |-> IF s \in S THEN [o \in Units |-> Data] ELSE f.body[s]]
<1>1. /\ sz \in [Slabs -> Levels \cup {NULL}]
      /\ nx \in [Slabs -> Slabs \cup {NULL, Data}]
      /\ hd \in [Slabs -> (0 .. SlabUnits) \cup Slabs \cup {NULL, Data}]
      /\ bd \in [Slabs -> [Units -> W]]
  BY DEF Factories
<1>2. g = [f EXCEPT !.size = sz, !.next = nx, !.head = hd, !.body = bd]
  BY DEF Returned
<1>3. /\ \A s \in Slabs : s \notin S =>
           sz[s] = f.size[s] /\ nx[s] = f.next[s] /\ hd[s] = f.head[s] /\ bd[s] = f.body[s]
      /\ \A s \in Slabs : s \in S => sz[s] = NULL
  OBVIOUS
<1> HIDE DEF sz, nx, hd, bd
<1>4. /\ g \in Factories(W)
      /\ g.slab = f.slab /\ g.reuse = f.reuse /\ g.slabReuse = f.slabReuse
      /\ g.size = sz /\ g.next = nx /\ g.head = hd /\ g.body = bd
  BY <1>1, <1>2 DEF Factories
<1>5. Owned(g) = Owned(f) \ S
  BY <1>3, <1>4 DEF Owned
<1> QED BY <1>3, <1>4, <1>5

\* Levels that begin anew.
LEMMA EmptiedFacts ==
  ASSUME NEW W, NEW f \in Factories(W), NEW L \in SUBSET Levels, NEW g, g = Emptied(f, L)
  PROVE  /\ g \in Factories(W)
         /\ g.size = f.size /\ g.next = f.next /\ g.head = f.head /\ g.body = f.body
         /\ g.slabReuse = f.slabReuse
         /\ \A l \in L : g.slab[l] = NULL /\ (f.slab[l] # NULL => g.reuse[l] = NULL)
                         /\ (f.slab[l] = NULL => g.reuse[l] = f.reuse[l])
         /\ \A l \in Levels \ L : g.slab[l] = f.slab[l] /\ g.reuse[l] = f.reuse[l]
<1> DEFINE re == [l \in Levels |-> IF l \in InUse(f, L) THEN NULL ELSE f.reuse[l]]
           sl == [l \in Levels |-> IF l \in L THEN NULL ELSE f.slab[l]]
<1>1. re \in [Levels -> Pointers \cup {NULL}] /\ sl \in [Levels -> Slabs \cup {NULL}]
  BY DEF Factories
<1>2. g = [f EXCEPT !.reuse = re, !.slab = sl]
  BY DEF Emptied
<1>3. /\ \A l \in L : sl[l] = NULL /\ (f.slab[l] # NULL => re[l] = NULL)
                      /\ (f.slab[l] = NULL => re[l] = f.reuse[l])
      /\ \A l \in Levels \ L : sl[l] = f.slab[l] /\ re[l] = f.reuse[l]
  BY DEF InUse
<1> HIDE DEF re, sl
<1>4. /\ g \in Factories(W)
      /\ g.size = f.size /\ g.next = f.next /\ g.head = f.head /\ g.body = f.body
      /\ g.slabReuse = f.slabReuse /\ g.reuse = re /\ g.slab = sl
  BY <1>1, <1>2 DEF Factories
<1> QED BY <1>3, <1>4

\* The blocks of the levels in L go back and those levels begin anew; nothing
\* else changes.
LEMMA FreeRangeFacts ==
  ASSUME NEW W, Data \in W, NEW f \in Factories(W), Sound(f), NEW L \in SUBSET Levels,
         \A l \in L : f.slab[l] = NULL => f.reuse[l] = NULL,
         \A l \in Levels \ L : \A p \in FreeList(f, l) : p[1] \in InLevel(f, l),
         NEW g, g = FreeRange(f, L)
  PROVE  /\ g \in Factories(W) /\ Sound(g)
         /\ \A l \in L : g.slab[l] = NULL /\ g.reuse[l] = NULL
         /\ \A l \in Levels \ L : g.slab[l] = f.slab[l] /\ g.reuse[l] = f.reuse[l]
         /\ WaitingHeads(g) = WaitingHeads(f) /\ Waiting(g) = Waiting(f)
         /\ g.slabReuse = f.slabReuse
         /\ Owned(g) = Owned(f) \ UNION { InLevel(f, l) : l \in L }
<1> DEFINE R == UNION { Chain(f.next, f.slab[l]) : l \in InUse(f, L) }
           e == Returned(f, R)
<1>1. /\ e \in Factories(W)
      /\ e.slab = f.slab /\ e.reuse = f.reuse /\ e.slabReuse = f.slabReuse
      /\ \A s \in Slabs : s \notin R =>
           /\ e.size[s] = f.size[s] /\ e.next[s] = f.next[s] /\ e.head[s] = f.head[s]
           /\ e.body[s] = f.body[s]
      /\ Owned(e) = Owned(f) \ R
  <2> HIDE DEF R
  <2> QED BY ReturnedFacts
<1>2. R = UNION { InLevel(f, l) : l \in L }
  <2>1. \A l \in L : f.slab[l] = NULL => InLevel(f, l) = {}
    BY ListTypes
  <2>2. InUse(f, L) \subseteq L
    BY DEF InUse
  <2>3. ASSUME NEW s \in R PROVE s \in UNION { InLevel(f, l) : l \in L }
    <3>1. PICK l \in InUse(f, L) : s \in InLevel(f, l)
      BY DEF InLevel
    <3> QED BY <2>2, <3>1
  <2>4. ASSUME NEW s \in UNION { InLevel(f, l) : l \in L } PROVE s \in R
    <3>1. PICK l \in L : s \in InLevel(f, l)
      OBVIOUS
    <3>2. l \in InUse(f, L)
      BY <2>1, <3>1 DEF InUse
    <3> QED BY <3>1, <3>2 DEF InLevel
  <2> QED BY <2>3, <2>4
<1>3. g = Emptied(e, L)
  BY DEF FreeRange
<1> HIDE DEF R, e
<1>4. /\ g \in Factories(W)
      /\ g.size = e.size /\ g.next = e.next /\ g.head = e.head /\ g.body = e.body
      /\ g.slabReuse = f.slabReuse
      /\ \A l \in L : g.slab[l] = NULL /\ g.reuse[l] = NULL
      /\ \A l \in Levels \ L : g.slab[l] = f.slab[l] /\ g.reuse[l] = f.reuse[l]
  BY <1>1, <1>3, EmptiedFacts
<1>5. /\ \A l \in Levels : InLevel(f, l) \subseteq Slabs
      /\ Waiting(f) \subseteq Slabs /\ WaitingHeads(f) \subseteq Waiting(f)
  BY ListTypes
<1>6. R \cap Waiting(f) = {} /\ \A l \in Levels \ L : R \cap InLevel(f, l) = {}
  <2>1. \A k, l \in Levels : k # l => InLevel(f, k) \cap InLevel(f, l) = {}
    BY DEF Sound, BlocksIn
  <2>2. \A l \in Levels : InLevel(f, l) \cap Waiting(f) = {}
    BY DEF Sound, BlocksIn
  <2> QED BY <1>2, <2>1, <2>2
<1>7. \A s \in Slabs : s \notin R =>
        /\ g.size[s] = f.size[s] /\ g.next[s] = f.next[s] /\ g.head[s] = f.head[s]
        /\ g.body[s] = f.body[s]
  BY <1>1, <1>4
<1>8. /\ WaitingHeads(g) = WaitingHeads(f) /\ IsList(g.head, g.slabReuse)
      /\ \A s \in WaitingHeads(f) :
           Chain(g.next, s) = Chain(f.next, s) /\ IsList(g.next, s)
      /\ Waiting(g) = Waiting(f)
  <2>1. \A s \in Waiting(f) : g.next[s] = f.next[s] /\ g.head[s] = f.head[s]
    BY <1>5, <1>6, <1>7
  <2>2. \A s \in WaitingHeads(f) : g.head[s] = f.head[s]
    BY <1>5, <2>1
  <2>3. \A s \in Waiting(f) : g.next[s] = f.next[s]
    BY <2>1
  <2>4. g.slabReuse = f.slabReuse /\ BlockLists(f)
    BY <1>4 DEF Sound
  <2> QED BY <1>4, <2>2, <2>3, <2>4, SameWaiting
<1>9. \A l \in L : InLevel(g, l) = {} /\ IsList(g.next, g.slab[l])
  <2>1. /\ IsFiniteSet(DOMAIN g.next) /\ NULL \notin DOMAIN g.next
    BY <1>4, LinkDomains
  <2>2. Chain(g.next, NULL) = {} /\ IsList(g.next, NULL)
    BY <2>1, ListNone
  <2> QED BY <1>4, <2>2 DEF InLevel
<1>10. \A l \in Levels \ L : InLevel(g, l) = InLevel(f, l) /\ IsList(g.next, g.slab[l])
  <2> SUFFICES ASSUME NEW l \in Levels \ L
               PROVE  InLevel(g, l) = InLevel(f, l) /\ IsList(g.next, g.slab[l])
    OBVIOUS
  <2>1. \A s \in InLevel(f, l) : g.next[s] = f.next[s]
    BY <1>5, <1>6, <1>7
  <2>2. g.slab[l] = f.slab[l] /\ IsList(f.next, f.slab[l]) /\ l \in Levels
    BY <1>4 DEF Sound, BlockLists
  <2> QED BY <1>4, <2>1, <2>2, SameLevel
<1>11. BlockLists(g)
  BY <1>8, <1>9, <1>10 DEF BlockLists
<1>12. LevelsIn(g)
  <2>1. LevelsIn(f)
    BY DEF Sound
  <2> QED BY <1>4, <2>1 DEF LevelsIn
<1>13. FreeLists(g)
  <2> SUFFICES ASSUME NEW l \in Regular PROVE IsList(Links(g), g.reuse[l])
    BY DEF FreeLists
  <2>1. l \in Levels /\ l <= MaxLevel
    BY Constants
  <2>2. CASE g.reuse[l] = NULL
    <3>1. /\ IsFiniteSet(DOMAIN Links(g)) /\ NULL \notin DOMAIN Links(g)
      BY <1>4, LinkDomains
    <3> QED BY <2>2, <3>1, ListNone
  <2>3. CASE g.reuse[l] # NULL
    <3>1. l \in Levels \ L /\ g.reuse[l] = f.reuse[l] /\ IsList(Links(f), f.reuse[l])
      BY <1>4, <2>1, <2>3 DEF Sound, FreeLists
    <3>2. \A p \in FreeList(f, l) : Links(g)[p] = Links(f)[p]
      <4> SUFFICES ASSUME NEW p \in FreeList(f, l) PROVE Links(g)[p] = Links(f)[p]
        OBVIOUS
      <4>1. p \in Pointers /\ p[1] \in Slabs
        <5>1. p \in Pointers
          BY <2>1, FreeTypes DEF Sound
        <5> QED BY <5>1 DEF Pointers
      <4>2. p[1] \notin R
        BY <1>6, <3>1
      <4>3. g.body[p[1]] = f.body[p[1]]
        BY <1>7, <4>1, <4>2
      <4> QED BY <4>1, <4>3 DEF Links
    <3> QED BY <1>4, <3>1, <3>2, SameFree
  <2> QED BY <2>2, <2>3
<1>14. \A l \in Levels : InLevel(g, l) = IF l \in L THEN {} ELSE InLevel(f, l)
  BY <1>9, <1>10
<1>15. Owned(g) = Owned(f) \ R
  BY <1>1, <1>4 DEF Owned
<1>16. Aligned(g)
  <2> SUFFICES ASSUME NEW l \in Regular, NEW s \in InLevel(g, l)
               PROVE  (g.head[s] % SlicesOf[l]) = 0
    BY DEF Aligned
  <2>1. l \in Levels
    BY Constants
  <2>2. l \in Levels \ L /\ s \in InLevel(f, l)
    BY <1>14, <2>1
  <2>3. g.head[s] = f.head[s]
    BY <1>5, <1>6, <1>7, <2>2
  <2> QED BY <2>2, <2>3 DEF Sound, Aligned
<1>17. BlocksIn(g)
  <2>1. Owned(g) = Waiting(g) \cup UNION { InLevel(g, l) : l \in Levels }
    <3>1. Owned(f) = Waiting(f) \cup UNION { InLevel(f, l) : l \in Levels }
      BY DEF Sound, BlocksIn
    <3>2. \A s : s \in UNION { InLevel(g, l) : l \in Levels }
                <=> \E l \in Levels \ L : s \in InLevel(f, l)
      BY <1>14
    <3>3. \A s : s \in UNION { InLevel(f, l) : l \in Levels } =>
                s \in R \/ \E l \in Levels \ L : s \in InLevel(f, l)
      BY <1>2
    <3>4. \A s : (\E l \in Levels \ L : s \in InLevel(f, l))
             => s \notin R /\ s \in UNION { InLevel(f, l) : l \in Levels }
      BY <1>6
    <3>5. \A s : s \in Owned(g) <=> s \in Waiting(g) \/ \E l \in Levels \ L : s \in InLevel(f, l)
      BY <1>6, <1>8, <1>15, <3>1, <3>3, <3>4
    <3> QED BY <3>2, <3>5
  <2>2. \A l \in Levels :
       /\ InLevel(g, l) \cap Waiting(g) = {}
       /\ \A k \in Levels : k # l => InLevel(g, k) \cap InLevel(g, l) = {}
       /\ \A s \in InLevel(g, l) :
            /\ g.size[s] = BlockSize(l)
            /\ l <= MaxLevel => g.head[s] \in 0 .. SlabUnits
    <3> SUFFICES ASSUME NEW l \in Levels
                 PROVE  /\ InLevel(g, l) \cap Waiting(g) = {}
                        /\ \A k \in Levels : k # l => InLevel(g, k) \cap InLevel(g, l) = {}
                        /\ \A s \in InLevel(g, l) :
                             /\ g.size[s] = BlockSize(l)
                             /\ l <= MaxLevel => g.head[s] \in 0 .. SlabUnits
      OBVIOUS
    <3>1. /\ InLevel(f, l) \cap Waiting(f) = {}
          /\ \A k \in Levels : k # l => InLevel(f, k) \cap InLevel(f, l) = {}
          /\ \A s \in InLevel(f, l) :
               /\ f.size[s] = BlockSize(l)
               /\ l <= MaxLevel => f.head[s] \in 0 .. SlabUnits
      BY DEF Sound, BlocksIn
    <3>2. \A s \in InLevel(g, l) : /\ g.size[s] = f.size[s] /\ g.head[s] = f.head[s]
                                  /\ s \in InLevel(f, l)
      BY <1>5, <1>6, <1>7, <1>14
    <3> QED BY <1>8, <1>14, <3>1, <3>2
  <2>3. \A s \in Waiting(g) : g.size[s] = MaxLevel
    <3>1. \A s \in Waiting(f) : g.size[s] = f.size[s]
      BY <1>5, <1>6, <1>7
    <3> QED BY <1>8, <3>1 DEF Sound, BlocksIn
  <2>4. \A s \in WaitingHeads(g) : g.head[s] \in Slabs \cup {NULL}
    <3>1. \A s \in WaitingHeads(f) : g.head[s] = f.head[s]
      BY <1>5, <1>6, <1>7
    <3> QED BY <1>8, <3>1 DEF Sound, BlocksIn
  <2>5. \A s, t \in WaitingHeads(g) :
          s # t => Chain(g.next, s) \cap Chain(g.next, t) = {}
    <3>1. \A s, t \in WaitingHeads(f) :
            s # t => Chain(f.next, s) \cap Chain(f.next, t) = {}
      BY DEF Sound, BlocksIn
    <3> QED BY <1>8, <3>1
  <2> QED BY <2>1, <2>2, <2>3, <2>4, <2>5 DEF BlocksIn
<1>18. Sound(g)
  BY <1>11, <1>12, <1>13, <1>16, <1>17 DEF Sound
<1> QED BY <1>2, <1>4, <1>8, <1>15, <1>18

-----------------------------------------------------------------------------
(* reset *)

\* The greatest of some numbers that have a bound.
LEMMA MaxOf ==
  ASSUME NEW N \in Nat, NEW S \in SUBSET (0 .. N), S # {}
  PROVE  Max(S) \in S /\ \A x \in S : x <= Max(S)
<1> DEFINE T == { N - x : x \in S }
<1>1. T # {} /\ T \in SUBSET Nat
  <2>1. \A x \in S : x \in 0 .. N
    OBVIOUS
  <2>2. \A x \in 0 .. N : N - x \in Nat
    OBVIOUS
  <2> QED BY <2>1, <2>2
<1>2. PICK m \in T : \A n \in T : m <= n
  BY <1>1, Least
<1>3. PICK z \in S : m = N - z
  BY <1>2
<1>4. \A x \in S : x <= z
  <2> SUFFICES ASSUME NEW x \in S PROVE x <= z
    OBVIOUS
  <2>1. N - x \in T
    OBVIOUS
  <2>2. N - z <= N - x
    BY <1>2, <1>3, <2>1
  <2>3. x \in Int /\ z \in Int
    OBVIOUS
  <2> QED BY <2>2, <2>3
<1>5. \A x \in S : x \in Int
  OBVIOUS
<1> QED BY <1>4, <1>5 DEF Max

\* The levels before level l that have blocks, as reset() meets them.
Before(f, l) == { k \in InUse(f, Regular) : k < l }

\* The first blocks of the levels up to l.
Heads(f, l) == { f.slab[k] : k \in { j \in InUse(f, Regular) : j <= l } }

\* What the loop of reset() writes: a link in the first block of each level.
LEMMA DetachedWrites ==
  ASSUME NEW W, NEW f \in Factories(W), Sound(f), NEW d, d = Detached(f)
  PROVE  /\ d \in Factories(W)
         /\ d.slab = f.slab /\ d.reuse = f.reuse /\ d.next = f.next /\ d.size = f.size
         /\ d.body = f.body
         /\ d.slabReuse = IF InUse(f, Regular) = {} THEN f.slabReuse
                          ELSE f.slab[Max(InUse(f, Regular))]
         /\ \A l \in InUse(f, Regular) :
              d.head[f.slab[l]] = IF Before(f, l) = {} THEN f.slabReuse
                                  ELSE f.slab[Max(Before(f, l))]
         /\ \A s \in Slabs : (\A l \in InUse(f, Regular) : f.slab[l] # s) => d.head[s] = f.head[s]
<1> DEFINE used == InUse(f, Regular)
           to(l) == IF Before(f, l) = {} THEN f.slabReuse ELSE f.slab[Max(Before(f, l))]
           of(s) == CHOOSE l \in used : f.slab[l] = s
           hd == [s \in Slabs |-> IF \E l \in used : f.slab[l] = s THEN to(of(s)) ELSE f.head[s]]
           first == IF used = {} THEN f.slabReuse ELSE f.slab[Max(used)]
<1>1. d = [f EXCEPT !.slabReuse = first, !.head = hd]
  BY DEF Detached, Before
<1>2. used \subseteq Levels /\ \A l \in used : f.slab[l] \in Slabs
  <2>1. Regular \subseteq Levels
    BY Constants
  <2> QED BY <2>1 DEF InUse, Factories
<1>3. \A k, l \in used : f.slab[k] = f.slab[l] => k = l
  <2> SUFFICES ASSUME NEW k \in used, NEW l \in used, k # l PROVE f.slab[k] # f.slab[l]
    OBVIOUS
  <2>1. k \in Levels /\ l \in Levels /\ f.slab[k] # NULL /\ f.slab[l] # NULL
    BY <1>2 DEF InUse
  <2>2. f.slab[k] \in InLevel(f, k) /\ f.slab[l] \in InLevel(f, l)
    BY <2>1, ListTypes
  <2>3. InLevel(f, k) \cap InLevel(f, l) = {}
    BY <2>1 DEF Sound, BlocksIn
  <2> QED BY <2>2, <2>3
<1>4. \A S \in SUBSET used : S # {} => Max(S) \in S
  <2>1. TopLevel \in Nat /\ used \in SUBSET (0 .. TopLevel)
    BY <1>2, SliceFactoryAssumption DEF Levels
  <2> HIDE DEF used
  <2> QED BY <2>1, MaxOf
<1>5. \A l \in used : to(l) \in Slabs \cup {NULL}
  <2>1. \A l \in used : Before(f, l) \in SUBSET used
    BY DEF Before
  <2>2. f.slabReuse \in Slabs \cup {NULL}
    BY DEF Factories
  <2> HIDE DEF used
  <2> QED BY <1>2, <1>4, <2>1, <2>2
<1>6. first \in Slabs \cup {NULL}
  <2>1. f.slabReuse \in Slabs \cup {NULL}
    BY DEF Factories
  <2> HIDE DEF used
  <2> QED BY <1>2, <1>4, <2>1
<1>7. \A s \in Slabs : (\E l \in used : f.slab[l] = s) => of(s) \in used /\ f.slab[of(s)] = s
  OBVIOUS
<1>8. \A l \in used : of(f.slab[l]) = l
  <2> SUFFICES ASSUME NEW l \in used PROVE of(f.slab[l]) = l
    OBVIOUS
  <2>1. of(f.slab[l]) \in used /\ f.slab[of(f.slab[l])] = f.slab[l]
    BY <1>2, <1>7
  <2> QED BY <1>3, <2>1
<1>9. f.head \in [Slabs -> (0 .. SlabUnits) \cup Slabs \cup {NULL, Data}]
  BY DEF Factories
<1> HIDE DEF used, to, of, first
<1>10. hd \in [Slabs -> (0 .. SlabUnits) \cup Slabs \cup {NULL, Data}]
  <2> SUFFICES ASSUME NEW s \in Slabs PROVE hd[s] \in (0 .. SlabUnits) \cup Slabs \cup {NULL, Data}
    OBVIOUS
  <2>1. CASE \E l \in used : f.slab[l] = s
    BY <1>5, <1>7, <2>1
  <2>2. CASE ~ \E l \in used : f.slab[l] = s
    BY <1>9, <2>2
  <2> QED BY <2>1, <2>2
<1>11. \A l \in used : hd[f.slab[l]] = to(l)
  BY <1>2, <1>8
<1>12. \A s \in Slabs : (\A l \in used : f.slab[l] # s) => hd[s] = f.head[s]
  OBVIOUS
<1> HIDE DEF hd
<1>13. /\ d \in Factories(W)
       /\ d.slab = f.slab /\ d.reuse = f.reuse /\ d.next = f.next /\ d.size = f.size
       /\ d.body = f.body /\ d.slabReuse = first /\ d.head = hd
  BY <1>1, <1>6, <1>10 DEF Factories
<1> QED BY <1>11, <1>12, <1>13 DEF used, to, first

\* The first blocks of the levels are a list before what waits already.
LEMMA DetachedChain ==
  ASSUME NEW W, NEW f \in Factories(W), Sound(f), NEW d, d = Detached(f),
         NEW l \in InUse(f, Regular)
  PROVE  /\ IsList(d.head, f.slab[l])
         /\ Chain(d.head, f.slab[l]) = Heads(f, l) \cup WaitingHeads(f)
<1> DEFINE used == InUse(f, Regular)
           OK(k) == /\ IsList(d.head, f.slab[k])
                    /\ Chain(d.head, f.slab[k]) = Heads(f, k) \cup WaitingHeads(f)
           Bad == { k \in used : ~ OK(k) }
<1>1. /\ d \in Factories(W)
      /\ \A k \in used : d.head[f.slab[k]] = IF Before(f, k) = {} THEN f.slabReuse
                                             ELSE f.slab[Max(Before(f, k))]
      /\ \A s \in Slabs : (\A k \in used : f.slab[k] # s) => d.head[s] = f.head[s]
  BY DetachedWrites
<1>2. used \subseteq Levels /\ \A k \in used : f.slab[k] \in Slabs /\ f.slab[k] \in InLevel(f, k)
  <2>1. Regular \subseteq Levels
    BY Constants
  <2>2. used \subseteq Levels
    BY <2>1 DEF InUse
  <2>3. \A k \in used : f.slab[k] # NULL
    BY DEF InUse
  <2> QED BY <2>2, <2>3, ListTypes
<1>3. \A s \in WaitingHeads(f) : d.head[s] = f.head[s]
  <2> SUFFICES ASSUME NEW s \in WaitingHeads(f) PROVE d.head[s] = f.head[s]
    OBVIOUS
  <2>1. s \in Slabs /\ s \in Waiting(f)
    BY ListTypes
  <2>2. \A k \in Levels : InLevel(f, k) \cap Waiting(f) = {}
    BY DEF Sound, BlocksIn
  <2>3. \A k \in used : f.slab[k] # s
    BY <1>2, <2>1, <2>2
  <2> QED BY <1>1, <2>1, <2>3
<1>4. /\ DOMAIN d.head = Slabs /\ DOMAIN f.head = Slabs /\ IsFiniteSet(Slabs) /\ NULL \notin Slabs
  BY <1>1, LinkDomains
<1>5. IsList(d.head, f.slabReuse) /\ Chain(d.head, f.slabReuse) = WaitingHeads(f)
  <2>1. IsList(f.head, f.slabReuse)
    BY DEF Sound, BlockLists
  <2>2. \A s \in Chain(f.head, f.slabReuse) : d.head[s] = f.head[s]
    BY <1>3 DEF WaitingHeads
  <2>3. IsList(d.head, f.slabReuse) /\ Chain(d.head, f.slabReuse) = Chain(f.head, f.slabReuse)
    BY <1>4, <2>1, <2>2, ListSame
  <2> QED BY <2>3 DEF WaitingHeads
<1>6. Bad = {}
  <2> SUFFICES ASSUME Bad # {} PROVE FALSE
    OBVIOUS
  <2>1. Bad \in SUBSET Nat
    BY <1>2, Constants
  <2> HIDE DEF OK
  <2>2. PICK m \in Bad : \A n \in Bad : m <= n
    <3> HIDE DEF Bad
    <3> QED BY <2>1, Least
  <2>3. m \in used /\ m \in Nat /\ ~ OK(m) /\ f.slab[m] \in Slabs
    BY <1>2, <2>1, <2>2
  <2>4. IsList(d.head, d.head[f.slab[m]])
          /\ Chain(d.head, d.head[f.slab[m]]) = { f.slab[k] : k \in Before(f, m) } \cup WaitingHeads(f)
    <3>1. CASE Before(f, m) = {}
      BY <1>1, <1>5, <2>3, <3>1
    <3>2. CASE Before(f, m) # {}
      <4> DEFINE n == Max(Before(f, m))
      <4>1. n \in Before(f, m) /\ \A k \in Before(f, m) : k <= n
        <5>1. TopLevel \in Nat /\ Before(f, m) \in SUBSET (0 .. TopLevel)
          BY <1>2, SliceFactoryAssumption DEF Levels, Before
        <5> QED BY <3>2, <5>1, MaxOf
      <4>2. d.head[f.slab[m]] = f.slab[n]
        BY <1>1, <2>3, <3>2
      <4> HIDE DEF n
      <4>3. n \in used /\ n < m /\ n \in Nat
        BY <1>2, <4>1, Constants DEF Before
      <4>4. OK(n)
        <5>1. ~ (m <= n)
          BY <2>3, <4>3
        <5> QED BY <2>2, <4>3, <5>1
      <4>5. { j \in used : j <= n } = Before(f, m)
        <5>1. \A j \in used : j \in Nat
          BY <1>2, Constants
        <5>2. ASSUME NEW j \in Nat, j <= n PROVE j < m
          BY <2>3, <4>3, <5>2
        <5> QED BY <4>1, <5>1, <5>2 DEF Before
      <4>6. Heads(f, n) = { f.slab[k] : k \in Before(f, m) }
        BY <4>5 DEF Heads
      <4> QED BY <4>2, <4>4, <4>6 DEF OK
    <3> QED BY <3>1, <3>2
  <2>5. /\ IsList(d.head, f.slab[m])
        /\ Chain(d.head, f.slab[m]) = {f.slab[m]} \cup Chain(d.head, d.head[f.slab[m]])
    BY <1>4, <2>3, <2>4, ListPush
  <2>6. { j \in used : j <= m } = Before(f, m) \cup {m}
    <3>1. \A j \in used : j \in Nat
      BY <1>2, Constants
    <3>2. \A j \in used : j <= m <=> j < m \/ j = m
      BY <2>3, <3>1
    <3>3. Before(f, m) = { j \in used : j < m }
      BY DEF Before
    <3> QED BY <2>3, <3>2, <3>3
  <2>7. Heads(f, m) = {f.slab[m]} \cup { f.slab[k] : k \in Before(f, m) }
    BY <2>6 DEF Heads
  <2> QED BY <2>3, <2>4, <2>5, <2>7 DEF OK
<1> QED BY <1>6

\* A level with no block has no free chunk.
LEMMA NoBlock ==
  ASSUME NEW W, NEW f \in Factories(W), LevelsIn(f), NEW H, Shared(f, H),
         NEW l \in Levels, f.slab[l] = NULL
  PROVE  f.reuse[l] = NULL /\ CutOf(f, l) = {} /\ H[l] = {}
<1>1. InLevel(f, l) = {}
  BY ListTypes
<1>2. CutOf(f, l) = {}
  BY <1>1 DEF CutOf
<1>3. FreeList(f, l) = {} /\ H[l] = {}
  BY <1>2 DEF Shared
<1> QED BY <1>2, <1>3, FreeTypes

\* A factory without blocks on any level shares nothing out.
LEMMA EmptyShared ==
  ASSUME NEW W, NEW f \in Factories(W),
         \A l \in Levels : f.slab[l] = NULL /\ f.reuse[l] = NULL
  PROVE  FreeLists(f) /\ Shared(f, [l \in Levels |-> {}])
<1>1. \A l \in Levels : InLevel(f, l) = {}
  BY ListTypes
<1>2. \A l \in Levels : CutOf(f, l) = {}
  BY <1>1 DEF CutOf
<1>3. \A l \in Levels : FreeList(f, l) = {}
  BY NoFree
<1>4. FreeLists(f)
  <2> SUFFICES ASSUME NEW l \in Regular PROVE IsList(Links(f), f.reuse[l])
    BY DEF FreeLists
  <2>1. f.reuse[l] = NULL
    BY Constants
  <2>2. IsFiniteSet(DOMAIN Links(f)) /\ NULL \notin DOMAIN Links(f)
    BY LinkDomains
  <2> QED BY <2>1, <2>2, ListNone
<1> QED BY <1>2, <1>3, <1>4 DEF Shared

\* The blocks of the regular levels wait, and the levels begin anew.
LEMMA DetachedFacts ==
  ASSUME NEW W, NEW f \in Factories(W), Sound(f), NEW H, Shared(f, H),
         NEW e, e = Emptied(Detached(f), Regular)
  PROVE  /\ e \in Factories(W) /\ Sound(e)
         /\ \A l \in Levels : e.reuse[l] = NULL
         /\ \A l \in Regular : e.slab[l] = NULL
         /\ Owned(e) = Owned(f)
<1> DEFINE d == Detached(f)
           used == InUse(f, Regular)
           Firsts == { f.slab[k] : k \in used }
<1>1. /\ d \in Factories(W)
      /\ d.slab = f.slab /\ d.reuse = f.reuse /\ d.next = f.next /\ d.size = f.size
      /\ d.body = f.body
      /\ d.slabReuse = IF used = {} THEN f.slabReuse ELSE f.slab[Max(used)]
      /\ \A l \in used : d.head[f.slab[l]] = IF Before(f, l) = {} THEN f.slabReuse
                                             ELSE f.slab[Max(Before(f, l))]
      /\ \A s \in Slabs : (\A l \in used : f.slab[l] # s) => d.head[s] = f.head[s]
  BY DetachedWrites
<1>2. \A l \in used : /\ IsList(d.head, f.slab[l])
                      /\ Chain(d.head, f.slab[l]) = Heads(f, l) \cup WaitingHeads(f)
  BY DetachedChain
<1> HIDE DEF d
<1>3. Regular \subseteq Levels /\ \A l \in Levels : l \in Regular => l <= MaxLevel
  BY Constants
<1>4. /\ e \in Factories(W)
      /\ e.size = f.size /\ e.next = f.next /\ e.head = d.head /\ e.body = f.body
      /\ e.slabReuse = d.slabReuse
      /\ \A l \in Regular : e.slab[l] = NULL
      /\ \A l \in Levels \ Regular : e.slab[l] = f.slab[l]
      /\ \A l \in Levels : e.reuse[l] = NULL
  <2>1. e = Emptied(d, Regular) /\ Regular \in SUBSET Levels
    BY <1>3 DEF d
  <2>2. /\ e \in Factories(W)
        /\ e.size = d.size /\ e.next = d.next /\ e.head = d.head /\ e.body = d.body
        /\ e.slabReuse = d.slabReuse
        /\ \A l \in Regular : e.slab[l] = NULL /\ (d.slab[l] # NULL => e.reuse[l] = NULL)
                              /\ (d.slab[l] = NULL => e.reuse[l] = d.reuse[l])
        /\ \A l \in Levels \ Regular : e.slab[l] = d.slab[l] /\ e.reuse[l] = d.reuse[l]
    BY <1>1, <2>1, EmptiedFacts
  <2>3. LevelsIn(f)
    BY DEF Sound
  <2>4. \A l \in Regular : f.slab[l] = NULL => f.reuse[l] = NULL
    BY <1>3, <2>3, NoBlock
  <2>5. \A l \in Levels \ Regular : f.reuse[l] = NULL
    BY <2>3 DEF LevelsIn
  <2> QED BY <1>1, <2>2, <2>4, <2>5
<1>5. used \subseteq Levels /\ used \subseteq Regular
      /\ \A k \in used : f.slab[k] \in Slabs /\ f.slab[k] \in InLevel(f, k)
  <2>1. used \subseteq Regular /\ used \subseteq Levels
    BY <1>3 DEF InUse
  <2>2. \A k \in used : f.slab[k] # NULL
    BY DEF InUse
  <2>3. \A k \in Levels : f.slab[k] # NULL => f.slab[k] \in InLevel(f, k) /\ f.slab[k] \in Slabs
    BY ListTypes
  <2> QED BY <2>1, <2>2, <2>3
<1>6. used # {} => Max(used) \in used /\ \A k \in used : k <= Max(used)
  <2>1. TopLevel \in Nat /\ used \in SUBSET (0 .. TopLevel)
    BY <1>5, SliceFactoryAssumption DEF Levels
  <2> HIDE DEF used
  <2> QED BY <2>1, MaxOf
<1>7. IsList(e.head, e.slabReuse) /\ WaitingHeads(e) = Firsts \cup WaitingHeads(f)
  <2>1. CASE used = {}
    <3>1. \A s \in WaitingHeads(f) : e.head[s] = f.head[s]
      <4>1. WaitingHeads(f) \subseteq Slabs
        BY ListTypes
      <4> QED BY <1>1, <1>4, <2>1, <4>1
    <3>2. e.slabReuse = f.slabReuse
      BY <1>1, <1>4, <2>1
    <3>3. \A s \in Waiting(f) : e.next[s] = f.next[s]
      BY <1>4
    <3>4. BlockLists(f)
      BY DEF Sound
    <3>5. WaitingHeads(e) = WaitingHeads(f) /\ IsList(e.head, e.slabReuse)
      BY <1>4, <3>1, <3>2, <3>3, <3>4, SameWaiting
    <3> QED BY <2>1, <3>5
  <2>2. CASE used # {}
    <3> DEFINE m == Max(used)
    <3>1. m \in used /\ \A k \in used : k <= m
      BY <1>6, <2>2
    <3>2. e.slabReuse = f.slab[m]
      BY <1>1, <1>4, <2>2
    <3> HIDE DEF m
    <3>3. { j \in used : j <= m } = used
      BY <3>1
    <3>4. Heads(f, m) = Firsts
      BY <3>3 DEF Heads
    <3> QED BY <1>2, <1>4, <3>1, <3>2, <3>4 DEF WaitingHeads
  <2> QED BY <2>1, <2>2
<1>8. \A s \in WaitingHeads(e) : \/ s \in WaitingHeads(f)
                                 \/ \E k \in used : s = f.slab[k]
  BY <1>7
<1>9. /\ \A s : InLevel(e, s) = Chain(f.next, e.slab[s])
      /\ \A k \in used : Chain(f.next, f.slab[k]) = InLevel(f, k)
  BY <1>4 DEF InLevel
<1>10. \A l \in Levels : InLevel(e, l) = IF l \in Regular THEN {} ELSE InLevel(f, l)
  <2>1. \A l \in Levels : e.slab[l] = NULL => InLevel(e, l) = {}
    BY <1>4, ListTypes
  <2> QED BY <1>4, <2>1 DEF InLevel
<1>11. Waiting(e) = Waiting(f) \cup UNION { InLevel(f, l) : l \in Regular }
  <2>1. \A l \in Regular : l \notin used => InLevel(f, l) = {}
    <3>1. \A l \in Regular : l \notin used => f.slab[l] = NULL
      BY DEF InUse
    <3> QED BY <1>3, <3>1, ListTypes
  <2>2. Waiting(e) = UNION { Chain(f.next, s) : s \in WaitingHeads(e) }
    BY <1>4 DEF Waiting
  <2>3. ASSUME NEW t \in Waiting(e)
        PROVE  t \in Waiting(f) \cup UNION { InLevel(f, l) : l \in Regular }
    <3>1. PICK s \in WaitingHeads(e) : t \in Chain(f.next, s)
      BY <2>2
    <3>2. CASE s \in WaitingHeads(f)
      BY <3>1, <3>2 DEF Waiting
    <3>3. CASE \E k \in used : s = f.slab[k]
      BY <1>5, <1>9, <3>1, <3>3
    <3> QED BY <1>8, <3>2, <3>3
  <2>4. ASSUME NEW t \in Waiting(f) PROVE t \in Waiting(e)
    <3>1. PICK s \in WaitingHeads(f) : t \in Chain(f.next, s)
      BY DEF Waiting
    <3> QED BY <1>7, <2>2, <3>1
  <2>5. ASSUME NEW l \in Regular, NEW t \in InLevel(f, l) PROVE t \in Waiting(e)
    <3>1. l \in used
      BY <2>1
    <3>2. f.slab[l] \in WaitingHeads(e)
      BY <1>7, <3>1
    <3> QED BY <1>9, <2>2, <3>1, <3>2
  <2>6. \A t : t \in Waiting(e) <=> t \in Waiting(f) \cup UNION { InLevel(f, l) : l \in Regular }
    BY <2>3, <2>4, <2>5
  <2> QED BY <2>6
<1>12. Owned(e) = Owned(f)
  BY <1>4 DEF Owned
<1>13. BlocksIn(f) /\ BlockLists(f) /\ LevelsIn(f) /\ Aligned(f)
  BY DEF Sound
<1>14. BlockLists(e)
  <2>1. \A l \in Levels : IsList(e.next, e.slab[l])
    <3>1. IsList(f.next, NULL)
      <4>1. IsFiniteSet(DOMAIN f.next) /\ NULL \notin DOMAIN f.next
        BY LinkDomains
      <4> QED BY <4>1, ListNone
    <3> QED BY <1>4, <1>13, <3>1 DEF BlockLists
  <2>2. \A s \in WaitingHeads(e) : IsList(e.next, s)
    BY <1>4, <1>5, <1>8, <1>13 DEF BlockLists
  <2> QED BY <1>7, <2>1, <2>2 DEF BlockLists
<1>15. LevelsIn(e)
  <2>1. \A l \in Levels : l < MinLevel => l \in Levels \ Regular
    BY Constants
  <2> QED BY <1>4, <1>13, <2>1 DEF LevelsIn
<1>16. FreeLists(e)
  <2> SUFFICES ASSUME NEW l \in Regular PROVE IsList(Links(e), e.reuse[l])
    BY DEF FreeLists
  <2>1. e.reuse[l] = NULL
    BY <1>3, <1>4
  <2>2. IsFiniteSet(DOMAIN Links(e)) /\ NULL \notin DOMAIN Links(e)
    BY <1>4, LinkDomains
  <2> QED BY <2>1, <2>2, ListNone
<1>17. Aligned(e)
  BY <1>3, <1>10 DEF Aligned
<1>18. BlocksIn(e)
  <2>1. Owned(e) = Waiting(e) \cup UNION { InLevel(e, l) : l \in Levels }
    <3>1. Owned(f) = Waiting(f) \cup UNION { InLevel(f, l) : l \in Levels }
      BY <1>13 DEF BlocksIn
    <3>2. \A t : t \in UNION { InLevel(e, l) : l \in Levels }
                <=> \E l \in Levels \ Regular : t \in InLevel(f, l)
      BY <1>10
    <3>3. \A t : t \in UNION { InLevel(f, l) : l \in Levels }
                <=> \/ \E l \in Levels \ Regular : t \in InLevel(f, l)
                    \/ t \in UNION { InLevel(f, l) : l \in Regular }
      BY <1>3
    <3> QED BY <1>11, <1>12, <3>1, <3>2, <3>3
  <2>2. \A l \in Levels : /\ InLevel(f, l) \cap Waiting(f) = {}
                          /\ \A k \in Levels : k # l => InLevel(f, k) \cap InLevel(f, l) = {}
                          /\ \A s \in InLevel(f, l) : f.size[s] = BlockSize(l)
    BY <1>13 DEF BlocksIn
  <2>3. \A l \in Levels :
       /\ InLevel(e, l) \cap Waiting(e) = {}
       /\ \A k \in Levels : k # l => InLevel(e, k) \cap InLevel(e, l) = {}
       /\ \A s \in InLevel(e, l) :
            /\ e.size[s] = BlockSize(l)
            /\ l <= MaxLevel => e.head[s] \in 0 .. SlabUnits
    <3> SUFFICES ASSUME NEW l \in Levels, l \notin Regular
                 PROVE  /\ InLevel(f, l) \cap Waiting(e) = {}
                        /\ \A k \in Levels : k # l => InLevel(e, k) \cap InLevel(f, l) = {}
                        /\ \A s \in InLevel(f, l) :
                             /\ e.size[s] = BlockSize(l)
                             /\ l <= MaxLevel => e.head[s] \in 0 .. SlabUnits
      BY <1>10
    <3>1. InLevel(f, l) \cap Waiting(e) = {}
      <4>1. \A k \in Regular : InLevel(f, k) \cap InLevel(f, l) = {}
        BY <1>3, <2>2
      <4> QED BY <1>11, <2>2, <4>1
    <3>2. \A k \in Levels : k # l => InLevel(e, k) \cap InLevel(f, l) = {}
      BY <1>10, <2>2
    <3>3. l <= MaxLevel => InLevel(f, l) = {}
      <4>1. l <= MaxLevel => f.slab[l] = NULL
        BY <1>13, Constants DEF LevelsIn
      <4> QED BY <4>1, ListTypes
    <3>4. \A s \in InLevel(f, l) : e.size[s] = BlockSize(l)
      BY <1>4, <2>2
    <3> QED BY <3>1, <3>2, <3>3, <3>4
  <2>4. \A s \in Waiting(e) : e.size[s] = MaxLevel
    <3>1. \A s \in Waiting(f) : f.size[s] = MaxLevel
      BY <1>13 DEF BlocksIn
    <3>2. \A l \in Regular : BlockSize(l) = MaxLevel
      BY <1>3 DEF BlockSize
    <3>3. \A l \in Regular : \A s \in InLevel(f, l) : f.size[s] = MaxLevel
      BY <1>3, <2>2, <3>2
    <3> QED BY <1>4, <1>11, <3>1, <3>3
  <2>5. \A s \in WaitingHeads(e) : e.head[s] \in Slabs \cup {NULL}
    <3> SUFFICES ASSUME NEW s \in WaitingHeads(e) PROVE e.head[s] \in Slabs \cup {NULL}
      OBVIOUS
    <3>1. DOMAIN e.head = Slabs
      BY <1>4, LinkDomains
    <3> QED BY <1>7, <3>1 DEF IsList, WaitingHeads
  <2>6. \A s, t \in WaitingHeads(e) :
          s # t => Chain(e.next, s) \cap Chain(e.next, t) = {}
    <3> SUFFICES ASSUME NEW s \in WaitingHeads(e), NEW t \in WaitingHeads(e), s # t
                 PROVE  Chain(f.next, s) \cap Chain(f.next, t) = {}
      BY <1>4
    <3>1. \A u \in WaitingHeads(f) : Chain(f.next, u) \subseteq Waiting(f)
      BY DEF Waiting
    <3>2. CASE s \in WaitingHeads(f) /\ t \in WaitingHeads(f)
      BY <1>13, <3>2 DEF BlocksIn
    <3>3. CASE s \in WaitingHeads(f) /\ \E k \in used : t = f.slab[k]
      BY <1>5, <1>9, <2>2, <3>1, <3>3
    <3>4. CASE t \in WaitingHeads(f) /\ \E k \in used : s = f.slab[k]
      BY <1>5, <1>9, <2>2, <3>1, <3>4
    <3>5. CASE (\E k \in used : s = f.slab[k]) /\ \E k \in used : t = f.slab[k]
      <4>1. PICK j \in used, k \in used : s = f.slab[j] /\ t = f.slab[k]
        BY <3>5
      <4> QED BY <1>5, <1>9, <2>2, <4>1
    <3> QED BY <1>8, <3>2, <3>3, <3>4, <3>5
  <2> QED BY <2>1, <2>3, <2>4, <2>5, <2>6 DEF BlocksIn
<1>19. Sound(e)
  BY <1>14, <1>15, <1>16, <1>17, <1>18 DEF Sound
<1> QED BY <1>4, <1>12, <1>19

\* Without blocks on levels, what was allocated waits.
LEMMA AllWait ==
  ASSUME NEW W, NEW f \in Factories(W), BlocksIn(f), \A l \in Levels : f.slab[l] = NULL
  PROVE  Owned(f) = Waiting(f)
<1>1. \A l \in Levels : InLevel(f, l) = {}
  BY ListTypes
<1>2. Owned(f) = Waiting(f) \cup UNION { InLevel(f, l) : l \in Levels }
  BY DEF BlocksIn
<1> QED BY <1>1, <1>2

\* What was handed out goes, and the blocks of one size stay and wait.
LEMMA ResetFacts ==
  ASSUME NEW W, Data \in W, NEW f \in Factories(W), Sound(f), NEW H, Shared(f, H),
         NEW g, g = ResetFactory(f)
  PROVE  /\ g \in Factories(W) /\ Sound(g) /\ Shared(g, [l \in Levels |-> {}])
         /\ Owned(g) = Waiting(g) /\ Owned(g) \subseteq Owned(f)
<1> DEFINE e == Emptied(Detached(f), Regular)
           L == { l \in Levels : l > MaxLevel }
<1>1. /\ e \in Factories(W) /\ Sound(e)
      /\ \A l \in Levels : e.reuse[l] = NULL
      /\ \A l \in Regular : e.slab[l] = NULL
      /\ Owned(e) = Owned(f)
  BY DetachedFacts
<1>2. g = FreeRange(e, L) /\ L \in SUBSET Levels
  BY DEF ResetFactory
<1> HIDE DEF e, L
<1>3. \A l \in Levels : FreeList(e, l) = {}
  BY <1>1, NoFree
<1>4. /\ g \in Factories(W) /\ Sound(g)
      /\ \A l \in L : g.slab[l] = NULL /\ g.reuse[l] = NULL
      /\ \A l \in Levels \ L : g.slab[l] = e.slab[l] /\ g.reuse[l] = e.reuse[l]
      /\ Owned(g) \subseteq Owned(e)
  <2>1. \A l \in L : e.slab[l] = NULL => e.reuse[l] = NULL
    BY <1>1, <1>2
  <2>2. \A l \in Levels \ L : \A p \in FreeList(e, l) : p[1] \in InLevel(e, l)
    BY <1>3
  <2> QED BY <1>1, <1>2, <2>1, <2>2, FreeRangeFacts
<1>5. \A l \in Levels : g.slab[l] = NULL /\ g.reuse[l] = NULL
  <2>1. \A l \in Levels : l \in L \/ l \in Regular \/ l < MinLevel
    BY Constants DEF L
  <2>2. \A l \in Levels : l < MinLevel => e.slab[l] = NULL
    BY <1>1 DEF Sound, LevelsIn
  <2> QED BY <1>1, <1>4, <2>1, <2>2
<1>6. Owned(g) = Waiting(g)
  BY <1>4, <1>5, AllWait DEF Sound
<1> QED BY <1>1, <1>4, <1>5, <1>6, EmptyShared

-----------------------------------------------------------------------------
(* free *)

\* Nothing goes back, and nothing changes.
LEMMA NoneReturned ==
  ASSUME NEW W, NEW f \in Factories(W)
  PROVE  Returned(f, {}) = f
<1>1. /\ [s \in Slabs |-> f.size[s]] = f.size
      /\ [s \in Slabs |-> f.next[s]] = f.next
      /\ [s \in Slabs |-> f.head[s]] = f.head
      /\ [s \in Slabs |-> f.body[s]] = f.body
  BY DEF Factories
<1>2. Returned(f, {}) =
        [f EXCEPT !.size = [s \in Slabs |-> f.size[s]],
                  !.next = [s \in Slabs |-> f.next[s]],
                  !.head = [s \in Slabs |-> f.head[s]],
                  !.body = [s \in Slabs |-> f.body[s]]]
  BY DEF Returned
<1>3. Returned(f, {}) = [f EXCEPT !.size = f.size, !.next = f.next, !.head = f.head, !.body = f.body]
  BY <1>1, <1>2
<1> QED BY <1>3 DEF Factories

\* All chunks go.  The blocks that waited are returned, one of each chain; if
\* none did, the factory is as good as new.
LEMMA FreeFacts ==
  ASSUME NEW W, Data \in W, NEW f \in Factories(W), Sound(f), NEW H, Shared(f, H),
         NEW g, g = FreeFactory(f)
  PROVE  /\ g \in Factories(W) /\ FreeLists(g) /\ Shared(g, [l \in Levels |-> {}])
         /\ f.slabReuse = NULL => Sound(g)
         /\ Owned(g) = Waiting(f) \ WaitingHeads(f) /\ Owned(g) \subseteq Owned(f)
<1> DEFINE L == { l \in Levels : l >= MinLevel }
           e == FreeRange(f, L)
<1>1. L \in SUBSET Levels
  OBVIOUS
<1>2. LevelsIn(f) /\ BlocksIn(f)
  BY DEF Sound
<1>3. \A l \in L : f.slab[l] = NULL => f.reuse[l] = NULL
  BY <1>1, <1>2, NoBlock
<1>4. \A l \in Levels \ L : f.slab[l] = NULL /\ f.reuse[l] = NULL
  <2>1. \A l \in Levels \ L : l < MinLevel /\ l \notin Regular
    BY Constants
  <2> QED BY <1>2, <2>1 DEF LevelsIn
<1>5. \A l \in Levels \ L : \A p \in FreeList(f, l) : p[1] \in InLevel(f, l)
  BY <1>4, NoFree
<1> HIDE DEF L
<1>6. /\ e \in Factories(W) /\ Sound(e)
      /\ \A l \in L : e.slab[l] = NULL /\ e.reuse[l] = NULL
      /\ \A l \in Levels \ L : e.slab[l] = f.slab[l] /\ e.reuse[l] = f.reuse[l]
      /\ WaitingHeads(e) = WaitingHeads(f) /\ Waiting(e) = Waiting(f)
      /\ e.slabReuse = f.slabReuse
      /\ Owned(e) \subseteq Owned(f)
  BY <1>1, <1>3, <1>5, FreeRangeFacts
<1>7. g = Returned(e, WaitingHeads(e))
  BY DEF FreeFactory, FreeReuse, WaitingHeads, L
<1> HIDE DEF e
<1>8. \A l \in Levels : e.slab[l] = NULL /\ e.reuse[l] = NULL
  BY <1>4, <1>6
<1>9. Owned(e) = Waiting(e)
  BY <1>6, <1>8, AllWait DEF Sound
<1>10. /\ g \in Factories(W)
       /\ g.slab = e.slab /\ g.reuse = e.reuse
       /\ Owned(g) = Owned(e) \ WaitingHeads(e)
  BY <1>6, <1>7, ReturnedFacts
<1>11. FreeLists(g) /\ Shared(g, [l \in Levels |-> {}])
  BY <1>8, <1>10, EmptyShared
<1>12. ASSUME f.slabReuse = NULL PROVE Sound(g)
  <2>1. WaitingHeads(e) = {}
    BY <1>6, <1>12, ListTypes
  <2>2. g = e
    BY <1>6, <1>7, <2>1, NoneReturned
  <2> QED BY <1>6, <2>2
<1> QED BY <1>6, <1>9, <1>10, <1>11, <1>12

\* A factory begins sound, with nothing handed out.
LEMMA NewFacts ==
  ASSUME NEW W, Data \in W
  PROVE  /\ NewFactory \in Factories(W) /\ Sound(NewFactory)
         /\ Shared(NewFactory, [l \in Levels |-> {}])
<1> DEFINE f == NewFactory
<1>1. f \in Factories(W)
  BY DEF NewFactory, Factories
<1>2. /\ \A l \in Levels : f.slab[l] = NULL /\ f.reuse[l] = NULL
      /\ f.slabReuse = NULL
      /\ \A s \in Slabs : f.size[s] = NULL
  BY DEF NewFactory
<1> HIDE DEF f
<1>3. FreeLists(f) /\ Shared(f, [l \in Levels |-> {}])
  BY <1>1, <1>2, EmptyShared
<1>4. /\ \A l \in Levels : InLevel(f, l) = {}
      /\ WaitingHeads(f) = {} /\ Waiting(f) = {}
  BY <1>1, <1>2, ListTypes
<1>5. Owned(f) = {}
  BY <1>2 DEF Owned
<1>6. BlockLists(f)
  <2>1. /\ IsFiniteSet(DOMAIN f.next) /\ NULL \notin DOMAIN f.next
        /\ IsFiniteSet(DOMAIN f.head) /\ NULL \notin DOMAIN f.head
    BY <1>1, LinkDomains
  <2>2. IsList(f.next, NULL) /\ IsList(f.head, NULL)
    BY <2>1, ListNone
  <2> QED BY <1>2, <1>4, <2>2 DEF BlockLists
<1>7. LevelsIn(f)
  BY <1>2 DEF LevelsIn
<1>8. Aligned(f)
  BY <1>4, Constants DEF Aligned
<1>9. BlocksIn(f)
  BY <1>4, <1>5 DEF BlocksIn
<1>10. Sound(f)
  BY <1>3, <1>6, <1>7, <1>8, <1>9 DEF Sound
<1> QED BY <1>1, <1>3, <1>10 DEF f

=============================================================================
