--------------------------- MODULE ReuseFactoryProps ---------------------------
(***************************************************************************)
(* What slots that are used again must not break: FactoryProps, and the    *)
(* slots' own accounts.                                                    *)
(***************************************************************************)
EXTENDS ReuseFactory, FactoryProps

\* Each slot of the pool is held by a client, will be handed out again, or was
\* lost to a constructor or a push_back that threw (factory.hpp:196 and 203): one
\* of the three, and in m_reuse once.  No call takes a slot from its owner or
\* gives it to two.
SlotsAccounted ==
  /\ \A i, j \in DOMAIN m_reuse : m_reuse[i] = m_reuse[j] => i = j
  /\ ToSet(m_reuse) \cap (alive \cup raw \cup lost) = {}
  /\ lost \cap (alive \cup raw) = {}
  /\ pool = ToSet(m_reuse) \cup alive \cup raw \cup lost

\* The inductive invariant.
ReuseInv == Inv /\ m_reuse \in Seq(Slots) /\ SlotsAccounted

=============================================================================
