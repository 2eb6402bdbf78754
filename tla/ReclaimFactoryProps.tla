-------------------------- MODULE ReclaimFactoryProps --------------------------
(***************************************************************************)
(* The accounts of the places of ReclaimFactory.                           *)
(***************************************************************************)
EXTENDS ReclaimFactory

Places == (1 .. MaxSlabs) \X (0 .. SlabN - 1)

\* Types of the chain, the cursor, which is in a slab of the chain, and the
\* places.
TypeOK ==
  /\ slabs \in 1 .. MaxSlabs
  /\ m_current \in 1 .. slabs
  /\ m_at \in 0 .. SlabN
  /\ m_reuse \in Seq(Places)
  /\ held \in SUBSET Places
  /\ lost \in SUBSET Places

\* What was handed out since the last reset() or release().
Used == { p \in Places : p[1] < m_current \/ (p[1] = m_current /\ p[2] < m_at) }

\* Each place in use is held by a client, will be handed out again or was taken
\* by an exception, and only one of them: none is handed out twice, and none
\* before the cursor is forgotten in another way.
PlacesAccounted ==
  /\ IsInjective(m_reuse)
  /\ ToSet(m_reuse) \cap held = {}
  /\ lost \cap (held \cup ToSet(m_reuse)) = {}
  /\ Used = held \cup ToSet(m_reuse) \cup lost

\* The chain grows only when every place of it is in a client's hands or was
\* taken by an exception.
GrowsWhenFull ==
  [][slabs' > slabs => held \cup lost = (1 .. slabs) \X (0 .. SlabN - 1)]_vars

=============================================================================
