------------------------- MODULE ReclaimFactoryProofs -------------------------
(***************************************************************************)
(* ReclaimFactory with slabs of any size and any number of them: a place   *)
(* has one owner, whatever is given back, reset and released.              *)
(***************************************************************************)
EXTENDS ReclaimFactoryProps, TLAPS

-----------------------------------------------------------------------------
(* Stacks of different things: what is in them *)

\* IsInjective, on sequences.
Distinct(s) == \A i, j \in DOMAIN s : s[i] = s[j] => i = j

\* Taking the last element of a sequence without repetition.
LEMMA PopFacts ==
  ASSUME NEW S, NEW s \in Seq(S), s # << >>, Distinct(s)
  PROVE  /\ Front(s) \in Seq(S) /\ Distinct(Front(s))
         /\ Last(s) \in ToSet(s) /\ ToSet(Front(s)) = ToSet(s) \ {Last(s)}
<1> DEFINE n == Len(s)
<1>1. n \in Nat /\ n > 0 /\ DOMAIN s = 1 .. n
  OBVIOUS
<1>2. Front(s) \in Seq(S) /\ Len(Front(s)) = n - 1
      /\ \A i \in 1 .. n - 1 : Front(s)[i] = s[i]
  BY <1>1 DEF Front
<1>3. DOMAIN Front(s) = 1 .. n - 1
  BY <1>1, <1>2
<1>4. Distinct(Front(s))
  BY <1>1, <1>2, <1>3 DEF Distinct
<1>5. Last(s) = s[n] /\ Last(s) \in ToSet(s)
  BY <1>1 DEF Last, ToSet
<1>6. ToSet(Front(s)) = { s[i] : i \in 1 .. n - 1 }
  BY <1>2, <1>3 DEF ToSet
<1>7. { s[i] : i \in 1 .. n - 1 } = { s[i] : i \in 1 .. n } \ {s[n]}
  BY <1>1 DEF Distinct
<1>8. ToSet(s) = { s[i] : i \in 1 .. n }
  BY <1>1 DEF ToSet
<1> QED BY <1>2, <1>4, <1>5, <1>6, <1>7, <1>8

\* Adding a new element to a sequence without repetition.
LEMMA PushFacts ==
  ASSUME NEW S, NEW s \in Seq(S), NEW p \in S, p \notin ToSet(s), Distinct(s)
  PROVE  /\ Append(s, p) \in Seq(S) /\ Distinct(Append(s, p))
         /\ ToSet(Append(s, p)) = ToSet(s) \cup {p}
<1> DEFINE n == Len(s)
           t == Append(s, p)
<1>1. n \in Nat /\ DOMAIN s = 1 .. n /\ ToSet(s) = { s[i] : i \in 1 .. n }
  BY DEF ToSet
<1>2. t \in Seq(S) /\ DOMAIN t = 1 .. n + 1 /\ t[n + 1] = p
      /\ \A i \in 1 .. n : t[i] = s[i]
  BY <1>1
<1>3. ToSet(t) = { t[i] : i \in 1 .. n + 1 }
  BY <1>2 DEF ToSet
<1>4. \A i \in 1 .. n + 1 : i \in 1 .. n \/ i = n + 1
  BY <1>1
<1> HIDE DEF n, t
<1>5. ToSet(t) = ToSet(s) \cup {p}
  <2>1. \A i \in 1 .. n + 1 : t[i] \in ToSet(s) \cup {p}
    BY <1>1, <1>2, <1>4
  <2>2. p \in ToSet(t)
    BY <1>1, <1>2, <1>3
  <2>3. \A i \in 1 .. n : s[i] \in ToSet(t)
    BY <1>1, <1>2, <1>3
  <2> QED BY <1>1, <1>3, <2>1, <2>2, <2>3
<1>6. Distinct(t)
  <2> SUFFICES ASSUME NEW i \in 1 .. n + 1, NEW j \in 1 .. n + 1, t[i] = t[j]
               PROVE  i = j
    BY <1>2 DEF Distinct
  <2>1. \A k \in 1 .. n : s[k] # p
    BY <1>1
  <2>2. CASE i \in 1 .. n /\ j \in 1 .. n
    BY <1>1, <1>2, <2>2 DEF Distinct
  <2>3. CASE i = n + 1 \/ j = n + 1
    BY <1>2, <1>4, <2>1, <2>3
  <2> QED BY <1>4, <2>2, <2>3
<1> QED BY <1>2, <1>5, <1>6 DEF t

-----------------------------------------------------------------------------
(* The invariant *)

\* The cursor is in the chain and the owners of places are disjoint.
Inv == TypeOK /\ PlacesAccounted

\* What the steps use of the invariant.
LEMMA InvFacts ==
  ASSUME Inv
  PROVE  /\ SlabN \in Nat /\ SlabN > 0 /\ MaxSlabs \in Nat
         /\ slabs \in 1 .. MaxSlabs /\ m_current \in 1 .. slabs /\ m_at \in 0 .. SlabN
         /\ m_reuse \in Seq(Places) /\ Distinct(m_reuse)
         /\ held \in SUBSET Places /\ lost \in SUBSET Places
  BY ReclaimAssumption DEF Inv, TypeOK, PlacesAccounted, IsInjective, Distinct

\* The invariant after a step, from its parts.
LEMMA InvAfter ==
  ASSUME slabs' \in 1 .. MaxSlabs, m_current' \in 1 .. slabs', m_at' \in 0 .. SlabN,
         m_reuse' \in Seq(Places), Distinct(m_reuse'),
         held' \in SUBSET Places, lost' \in SUBSET Places,
         ToSet(m_reuse') \cap held' = {},
         lost' \cap (held' \cup ToSet(m_reuse')) = {},
         Used' = held' \cup ToSet(m_reuse') \cup lost'
  PROVE  Inv'
<1>1. Places' = Places
  BY DEF Places
<1> QED BY <1>1 DEF Inv, TypeOK, PlacesAccounted, IsInjective, Distinct

\* Taking a place: it had no owner, and is in use.
LEMMA TakeFacts ==
  ASSUME Inv, TakePlace
  PROVE  /\ Given \in Places
         /\ Given \notin held /\ Given \notin lost /\ Given \notin ToSet(m_reuse')
         /\ ToSet(m_reuse') \subseteq ToSet(m_reuse)
         /\ m_reuse' \in Seq(Places) /\ Distinct(m_reuse')
         /\ slabs' \in 1 .. MaxSlabs /\ m_current' \in 1 .. slabs'
         /\ m_at' \in 0 .. SlabN
         /\ Used' = held \cup lost \cup ToSet(m_reuse') \cup {Given}
<1> USE InvFacts
<1>0. /\ ToSet(m_reuse) \cap held = {}
      /\ lost \cap (held \cup ToSet(m_reuse)) = {}
      /\ Used = held \cup ToSet(m_reuse) \cup lost
  BY DEF Inv, PlacesAccounted
<1>1. CASE Reuse
  <2>1. Given = Last(m_reuse) /\ m_reuse' = Front(m_reuse) /\ m_reuse # << >>
    BY <1>1 DEF Reuse, Given
  <2>2. /\ Given \in ToSet(m_reuse) /\ ToSet(m_reuse') = ToSet(m_reuse) \ {Given}
        /\ m_reuse' \in Seq(Places) /\ Distinct(m_reuse')
    BY <2>1, PopFacts
  <2>3. Used' = Used
    BY <1>1 DEF Reuse, Used, Places
  <2>4. Used \subseteq Places
    BY DEF Used
  <2>5. slabs' = slabs /\ m_current' = m_current /\ m_at' = m_at
    BY <1>1 DEF Reuse
  <2> QED BY <1>0, <2>2, <2>3, <2>4, <2>5
<1>2. CASE Advance
  <2>1. /\ Given = <<m_current, m_at>> /\ m_reuse = << >> /\ m_reuse' = m_reuse
        /\ m_at < SlabN /\ m_at' = m_at + 1 /\ m_current' = m_current /\ slabs' = slabs
    BY <1>2 DEF Advance, Given
  <2>2. Given \in Places /\ Given \notin Used
    BY <2>1 DEF Places, Used
  <2>3. Used' = Used \cup {Given}
    BY <2>1, <2>2 DEF Places, Used
  <2>4. ToSet(m_reuse) = {}
    BY <2>1 DEF ToSet
  <2> QED BY <1>0, <2>1, <2>2, <2>3, <2>4
<1>3. CASE NextSlab
  <2>1. /\ Given = <<m_current + 1, 0>> /\ m_reuse = << >> /\ m_reuse' = m_reuse
        /\ m_at = SlabN /\ m_at' = 1 /\ m_current' = m_current + 1
        /\ m_current < MaxSlabs
        /\ slabs' = IF m_current = slabs THEN slabs + 1 ELSE slabs
    BY <1>3 DEF NextSlab, Given
  <2>2. Given \in Places /\ Given \notin Used
    BY <2>1 DEF Places, Used
  <2>3. Used' = Used \cup {Given}
    BY <2>1, <2>2 DEF Places, Used
  <2>4. ToSet(m_reuse) = {}
    BY <2>1 DEF ToSet
  <2>5. slabs' \in 1 .. MaxSlabs /\ m_current' \in 1 .. slabs' /\ m_at' \in 0 .. SlabN
    BY <2>1
  <2> QED BY <1>0, <2>1, <2>2, <2>3, <2>4, <2>5
<1> QED BY <1>1, <1>2, <1>3 DEF TakePlace

-----------------------------------------------------------------------------

\* allocate() and construct() keep the invariant.
LEMMA AllocateInv ==
  ASSUME Inv, Allocate
  PROVE  Inv'
<1>1. TakePlace /\ held' = held \cup {Given} /\ lost' = lost
  BY DEF Allocate
<1>2. /\ ToSet(m_reuse) \cap held = {}
      /\ lost \cap (held \cup ToSet(m_reuse)) = {}
  BY DEF Inv, PlacesAccounted
<1> QED BY <1>1, <1>2, TakeFacts, InvFacts, InvAfter

\* A construct() that throws keeps it.
LEMMA ConstructFailsInv ==
  ASSUME Inv, ConstructFails
  PROVE  Inv'
<1>1. TakePlace /\ lost' = lost \cup {Given} /\ held' = held
  BY DEF ConstructFails
<1>2. /\ ToSet(m_reuse) \cap held = {}
      /\ lost \cap (held \cup ToSet(m_reuse)) = {}
  BY DEF Inv, PlacesAccounted
<1> QED BY <1>1, <1>2, TakeFacts, InvFacts, InvAfter

\* The cursor stays where it is when places are given back.
LEMMA SameUsed ==
  ASSUME UNCHANGED <<m_current, m_at>>
  PROVE  Used' = Used
  BY DEF Used, Places

\* deallocate() and destruct() keep it.
LEMMA DeallocateInv ==
  ASSUME Inv, NEW p \in held, Deallocate(p)
  PROVE  Inv'
<1>1. /\ held' = held \ {p} /\ lost' = lost /\ m_reuse' = Append(m_reuse, p)
      /\ slabs' = slabs /\ m_current' = m_current /\ m_at' = m_at
  BY DEF Deallocate
<1>2. /\ ToSet(m_reuse) \cap held = {}
      /\ lost \cap (held \cup ToSet(m_reuse)) = {}
      /\ Used = held \cup ToSet(m_reuse) \cup lost
  BY DEF Inv, PlacesAccounted
<1>3. p \in Places /\ p \notin ToSet(m_reuse)
  BY <1>2, InvFacts
<1>4. /\ m_reuse' \in Seq(Places) /\ Distinct(m_reuse')
      /\ ToSet(m_reuse') = ToSet(m_reuse) \cup {p}
  BY <1>1, <1>3, InvFacts, PushFacts
<1>5. Used' = Used
  BY <1>1, SameUsed
<1> QED BY <1>1, <1>2, <1>4, <1>5, InvFacts, InvAfter

\* A destruct() that throws keeps it.
LEMMA DeallocateFailsInv ==
  ASSUME Inv, NEW p \in held, DeallocateFails(p)
  PROVE  Inv'
<1>1. /\ held' = held \ {p} /\ lost' = lost \cup {p} /\ m_reuse' = m_reuse
      /\ slabs' = slabs /\ m_current' = m_current /\ m_at' = m_at
  BY DEF DeallocateFails
<1>2. /\ ToSet(m_reuse) \cap held = {}
      /\ lost \cap (held \cup ToSet(m_reuse)) = {}
      /\ Used = held \cup ToSet(m_reuse) \cup lost
  BY DEF Inv, PlacesAccounted
<1>3. Used' = Used
  BY <1>1, SameUsed
<1> QED BY <1>1, <1>2, <1>3, InvFacts, InvAfter

\* The constructor leaves no place in use.
LEMMA InitInv ==
  ASSUME Init
  PROVE  Inv
<1>1. Used = {}
  BY DEF Init, Used, Places
<1>2. m_reuse \in Seq(Places) /\ ToSet(m_reuse) = {}
  BY DEF Init, ToSet
<1> QED BY <1>1, <1>2, ReclaimAssumption
        DEF Init, Inv, TypeOK, PlacesAccounted, IsInjective

\* And neither do reset() and release().
LEMMA RestartInv ==
  ASSUME Inv, Restart, slabs' \in 1 .. MaxSlabs
  PROVE  Inv'
<1>1. /\ m_current' = 1 /\ m_at' = 0 /\ m_reuse' = << >>
      /\ held' = {} /\ lost' = {}
  BY DEF Restart
<1>2. Used' = {}
  BY <1>1 DEF Used, Places
<1>3. m_reuse' \in Seq(Places) /\ Distinct(m_reuse') /\ ToSet(m_reuse') = {}
  BY <1>1 DEF Distinct, ToSet
<1> QED BY <1>1, <1>2, <1>3, InvFacts, InvAfter

-----------------------------------------------------------------------------

\* The inductive invariant of ReclaimFactory.
THEOREM ReclaimInvariance == Spec => []Inv
<1>1. Init => Inv
  BY InitInv
<1>2. Inv /\ [Next]_vars => Inv'
  <2> SUFFICES ASSUME Inv, [Next]_vars PROVE Inv'
    OBVIOUS
  <2>1. CASE Allocate
    BY <2>1, AllocateInv
  <2>2. CASE ConstructFails
    BY <2>2, ConstructFailsInv
  <2>3. ASSUME NEW p \in held, Deallocate(p) PROVE Inv'
    BY <2>3, DeallocateInv
  <2>4. ASSUME NEW p \in held, DeallocateFails(p) PROVE Inv'
    BY <2>4, DeallocateFailsInv
  <2>5. CASE Reset
    BY <2>5, RestartInv, InvFacts DEF Reset
  <2>6. CASE Release
    BY <2>6, RestartInv, InvFacts DEF Release
  <2>7. CASE UNCHANGED vars
    BY <2>7 DEF vars, Inv, TypeOK, PlacesAccounted, Used, Places
  <2>8. CASE AllocateFails
    BY <2>7, <2>8 DEF AllocateFails
  <2> QED BY <2>1, <2>2, <2>3, <2>4, <2>5, <2>6, <2>7, <2>8 DEF Next
<1> QED BY <1>1, <1>2, PTL DEF Spec

\* The cursor stays in the chain.
THEOREM ReclaimTypeCorrect == Spec => []TypeOK
<1>1. Inv => TypeOK
  BY DEF Inv
<1> QED BY <1>1, ReclaimInvariance, PTL

\* Each place in use has one owner.
THEOREM ReclaimPlacesAccounted == Spec => []PlacesAccounted
<1>1. Inv => PlacesAccounted
  BY DEF Inv
<1> QED BY <1>1, ReclaimInvariance, PTL

\* The chain grows only when every place of it is taken.
THEOREM ReclaimGrowsWhenFull == Spec => GrowsWhenFull
<1>1. ASSUME Inv, [Next]_vars
      PROVE  [slabs' > slabs => held \cup lost = (1 .. slabs) \X (0 .. SlabN - 1)]_vars
  <2> SUFFICES ASSUME slabs' > slabs
               PROVE  held \cup lost = (1 .. slabs) \X (0 .. SlabN - 1)
    OBVIOUS
  <2>1. NextSlab
    BY <1>1, InvFacts
    DEF Next, vars, Allocate, AllocateFails, ConstructFails, TakePlace, Reuse, Advance,
        Deallocate, DeallocateFails, Reset, Release
  <2>2. m_reuse = << >> /\ m_at = SlabN /\ m_current = slabs
    BY <2>1, <1>1, InvFacts DEF NextSlab
  <2>3. Used = held \cup lost
    BY <1>1, <2>2 DEF Inv, PlacesAccounted, ToSet
  <2>4. Used = (1 .. slabs) \X (0 .. SlabN - 1)
    BY <2>2, <1>1, InvFacts DEF Used, Places
  <2> QED BY <2>3, <2>4
<1> QED BY <1>1, ReclaimInvariance, PTL DEF Spec, GrowsWhenFull

=============================================================================
