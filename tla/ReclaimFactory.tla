---------------------------- MODULE ReclaimFactory ----------------------------
(***************************************************************************)
(* factory.hpp, ReclaimFactory<T, SlabN>: places in a chain of slabs that  *)
(* grows at its end, with the places given back handed out first.  Slabs   *)
(* are numbered along the chain.  reset() starts again with the same       *)
(* slabs; release() keeps only the first and gives the others up: the      *)
(* pointer to them is dropped and nobody frees them (unique_ptr::release). *)
(* Objects are the client's affair: the factory destroys none by itself.   *)
(* The definitions commented "A bug:" are used by no specification here.   *)
(***************************************************************************)
EXTENDS Integers, SequencesExt

CONSTANTS
  SlabN,    \* places in a slab
  MaxSlabs  \* a bound on the slabs of the chain

ASSUME ReclaimAssumption == SlabN \in Nat \ {0} /\ MaxSlabs \in Nat \ {0}

VARIABLES
  slabs,      \* the length of the chain that begins with m_first
  m_current,  \* the slab in use
  m_at,       \* m_currentAt, as the number of places used in m_current
  m_reuse,
  held,       \* the places clients hold
  lost        \* the places that an exception took from both

vars == <<slabs, m_current, m_at, m_reuse, held, lost>>

Init ==
  /\ slabs = 1
  /\ m_current = 1
  /\ m_at = 0
  /\ m_reuse = << >>
  /\ held = {}
  /\ lost = {}

-----------------------------------------------------------------------------

\* The place that allocate() gives next: the last one given back, the next of
\* the slab in use, or the first of the slab behind it.
Given ==
  IF m_reuse # << >> THEN Last(m_reuse)
  ELSE IF m_at < SlabN THEN <<m_current, m_at>>
  ELSE <<m_current + 1, 0>>

Reuse ==
  /\ m_reuse # << >>
  /\ m_reuse' = Front(m_reuse)
  /\ UNCHANGED <<slabs, m_current, m_at>>

Advance ==
  /\ m_reuse = << >>
  /\ m_at < SlabN
  /\ m_at' = m_at + 1
  /\ UNCHANGED <<slabs, m_current, m_reuse>>

\* A bug: the slabs behind the one in use are replaced.
NextSlabNew ==
  /\ m_reuse = << >>
  /\ m_at = SlabN
  /\ slabs < MaxSlabs
  /\ slabs' = slabs + 1
  /\ m_current' = m_current + 1
  /\ m_at' = 1
  /\ UNCHANGED m_reuse

\* The next slab is there after a reset(), and made otherwise.
NextSlab ==
  /\ m_reuse = << >>
  /\ m_at = SlabN
  /\ m_current < MaxSlabs
  /\ slabs' = IF m_current = slabs THEN slabs + 1 ELSE slabs
  /\ m_current' = m_current + 1
  /\ m_at' = 1
  /\ UNCHANGED m_reuse

TakePlace == Reuse \/ Advance \/ NextSlab

\* allocate(), construct()
Allocate ==
  /\ TakePlace
  /\ held' = held \cup {Given}
  /\ UNCHANGED lost

\* There is no memory for a slab: nothing has changed when make_unique throws.
AllocateFails ==
  /\ m_reuse = << >>
  /\ m_at = SlabN
  /\ m_current = slabs
  /\ UNCHANGED vars

\* construct(), when the constructor of T throws: nobody has the place.
ConstructFails ==
  /\ TakePlace
  /\ lost' = lost \cup {Given}
  /\ UNCHANGED held

\* deallocate(), destruct()
Deallocate(p) ==
  /\ p \in held
  /\ held' = held \ {p}
  /\ m_reuse' = Append(m_reuse, p)
  /\ UNCHANGED <<slabs, m_current, m_at, lost>>

\* destruct(), when m_reuse cannot grow: the object is gone and its place with it.
DeallocateFails(p) ==
  /\ p \in held
  /\ held' = held \ {p}
  /\ lost' = lost \cup {p}
  /\ UNCHANGED <<slabs, m_current, m_at, m_reuse>>

\* A bug: the places given back are kept.
RestartKeepsReuse ==
  /\ m_current' = 1
  /\ m_at' = 0
  /\ held' = {}
  /\ lost' = {}
  /\ UNCHANGED m_reuse

\* Everything is handed out anew: what clients still hold is theirs no more.
Restart ==
  /\ m_current' = 1
  /\ m_at' = 0
  /\ m_reuse' = << >>
  /\ held' = {}
  /\ lost' = {}

Reset == Restart /\ UNCHANGED slabs

Release == Restart /\ slabs' = 1

Next ==
  \/ Allocate
  \/ AllocateFails
  \/ ConstructFails
  \/ \E p \in held : Deallocate(p) \/ DeallocateFails(p)
  \/ Reset
  \/ Release

Spec == Init /\ [][Next]_vars

=============================================================================
