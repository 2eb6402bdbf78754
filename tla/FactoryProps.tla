----------------------------- MODULE FactoryProps -----------------------------
(***************************************************************************)
(* What makes Factory destroy every object once, and never later than its  *)
(* memory is given back.                                                   *)
(***************************************************************************)
EXTENDS Factory

\* Types of the pool, the flags and the list.
TypeOK ==
  /\ pool \in SUBSET Slots
  /\ del \in [Slots -> BOOLEAN \cup {Raw}]
  /\ objects \in Seq([0 .. NodeSize - 1 -> Slots \cup {NULL}])
  /\ obj_it \in 0 .. Len(objects)
  /\ obj_i \in 0 .. NodeSize
  /\ obj_size \in 0 .. MaxPushes
  /\ alive \in SUBSET Slots
  /\ raw \in SUBSET Slots

\* The assert of release() (factory.hpp:133): the nodes hold as many entries as
\* were pushed.
NodesSuffice == obj_size <= Len(objects) * NodeSize

\* The next entry goes right behind the last one: none that counts is skipped
\* or overwritten, also in nodes left from before a release().
CursorBehindLast ==
  IF obj_it = 0
  THEN obj_i = NodeSize /\ obj_size = 0
  ELSE obj_size = (obj_it - 1) * NodeSize + obj_i /\ obj_i > 0

\* What release() goes through are slots whose memory is there, with a flag that
\* tells whether an object is alive: it destroys no object twice, and nothing
\* that is none.
FlagsTellAlive ==
  \A k \in 0 .. obj_size - 1 :
    /\ Entry(k) \in pool
    /\ del[Entry(k)] = TRUE <=> Entry(k) \in alive

\* release() finds every object that is alive.
AliveListed == alive \subseteq Listed

\* No memory is given back with an object in it, and destruct()'s assert
\* (factory.hpp:160) holds for every object of a client.
AliveInPool ==
  /\ alive \subseteq pool
  /\ alive \cap raw = {}
  /\ \A p \in alive : del[p] = TRUE

-----------------------------------------------------------------------------

\* The inductive invariant.
Inv ==
  /\ TypeOK
  /\ NodesSuffice
  /\ CursorBehindLast
  /\ FlagsTellAlive
  /\ AliveListed
  /\ AliveInPool
  /\ raw \subseteq pool

=============================================================================
