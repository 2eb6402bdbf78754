----------------------------- MODULE ReuseFactory -----------------------------
(***************************************************************************)
(* factory.hpp, ReuseFactory<T>: a Factory that hands out again the slots  *)
(* it was given back, the last one first.  A slot is listed for release()  *)
(* each time an object is constructed in it.                               *)
(* The definitions commented "A bug:" are used by no specification here.   *)
(***************************************************************************)
EXTENDS Factory, SequencesExt

VARIABLES
  m_reuse,
  lost      \* the slots that an exception took from clients and from m_reuse

reuseVars == <<vars, m_reuse, lost>>

ReuseInit == Init /\ m_reuse = << >> /\ lost = {}

\* A bug: the slot stays in m_reuse.
TakeCopy(p) ==
  /\ UNCHANGED m_reuse
  /\ \/ m_reuse = << >> /\ p \in Fresh /\ pool' = pool \cup {p}
     \/ m_reuse # << >> /\ p = Last(m_reuse) /\ UNCHANGED pool

\* allocate(): slot p is the last one given back, or a fresh one.
Take(p) ==
  \/ /\ m_reuse = << >>
     /\ p \in Fresh
     /\ pool' = pool \cup {p}
     /\ UNCHANGED m_reuse
  \/ /\ m_reuse # << >>
     /\ p = Last(m_reuse)
     /\ m_reuse' = Front(m_reuse)
     /\ UNCHANGED pool

\* deallocate(), whose call of the pool's deallocate does nothing.
GiveBack(p) ==
  /\ m_reuse' = Append(m_reuse, p)
  /\ UNCHANGED pool

ReuseConstruct(p) ==
  /\ Take(p)
  /\ Construct_(p)
  /\ UNCHANGED <<raw, lost>>

\* Memory from the pool holds anything where the flag is; a slot given back
\* holds its flag.
TakeFlag(p) == IF p \in Fresh THEN FlagOfMemory(p) ELSE UNCHANGED del

\* construct(), when the constructor of T throws: allocate() has taken the slot,
\* and nobody has it.
ReuseConstructThrows(p) ==
  /\ Take(p)
  /\ TakeFlag(p)
  /\ lost' = lost \cup {p}
  /\ UNCHANGED <<listVars, alive, raw>>

ReuseDestruct(p) ==
  /\ Destruct_(p)
  /\ GiveBack(p)
  /\ UNCHANGED <<raw, lost>>

\* destruct(), when m_reuse cannot grow: the object is gone and its slot with it.
ReuseDestructThrows(p) ==
  /\ Destruct_(p)
  /\ lost' = lost \cup {p}
  /\ UNCHANGED <<pool, m_reuse, raw>>

ReuseAllocate(p) ==
  /\ Take(p)
  /\ raw' = raw \cup {p}
  /\ TakeFlag(p)
  /\ UNCHANGED <<listVars, alive, lost>>

ReuseDeallocate(p) ==
  /\ GiveBack(p)
  /\ raw' = raw \ {p}
  /\ UNCHANGED <<del, listVars, alive, lost>>

\* deallocate(), when m_reuse cannot grow: the client has the slot as before.
ReuseDeallocateThrows == UNCHANGED reuseVars

ReuseRelease == Release /\ m_reuse' = << >> /\ lost' = {}

ReuseNext ==
  \/ ReuseRelease
  \/ \E p \in Slots : ReuseConstruct(p) \/ ReuseConstructThrows(p) \/ ReuseAllocate(p)
  \/ \E p \in alive : ReuseDestruct(p) \/ ReuseDestructThrows(p)
  \/ \E p \in raw : ReuseDeallocate(p) \/ ReuseDeallocateThrows

ReuseSpec == ReuseInit /\ [][ReuseNext]_reuseVars

=============================================================================
